------------------------- MODULE GdbChannelProofs -------------------------
(***************************************************************************)
(* Proofs about GdbChannel: the hand-over, whose reply a reply is and what *)
(* it says of signals, and that the channel implements CommandService.     *)
(***************************************************************************)
EXTENDS GdbChannel, SequenceTheorems, TLAPS

---------------------------------------------------------------------------
(***************************************************************************)
(* The hand-over between the shell and the gdb thread, for every number of *)
(* commands, every amount of output, every buffer size and whether or not  *)
(* gdb can die: TypeOK /\ Handshake is inductive, and implies that no      *)
(* wake-up is lost and that the unlocked stores are harmless.              *)
(***************************************************************************)

IInv == TypeOK /\ Handshake

(* What the pipes are made of is made of units.                            *)
LEMMA UnitTypes ==
  ASSUME NEW k \in 0..MaxCommands, NEW kind \in UnitKinds
  PROVE  U(kind, k) \in Seq(Unit)
BY DEF U, Unit

LEMMA ReportTypes ==
  ASSUME NEW k \in 0..MaxCommands, NEW kind \in UnitKinds
  PROVE  Report(kind, k) \in Seq(Unit)
<1>1. "rest" \in UnitKinds
  BY DEF UnitKinds
<1>2. U(kind, k) \in Seq(Unit) /\ U("rest", k) \in Seq(Unit)
  BY <1>1, UnitTypes
<1> QED BY <1>2 DEF Report

LEMMA PromptTypes ==
  ASSUME NEW k \in 0..MaxCommands
  PROVE  Prompt(k) \in Seq(Unit)
BY DEF Prompt, Unit, UnitKinds

LEMMA EmptyType == <<>> \in Seq(Unit)
OBVIOUS

(* A part of a sequence of units is a sequence of units.                   *)
LEMMA SubSeqTypes ==
  ASSUME NEW S, NEW s \in Seq(S), NEW m \in Nat \ {0}, NEW n \in Nat, n <= Len(s)
  PROVE  SubSeq(s, m, n) \in Seq(S)
OBVIOUS

LEMMA AvailableType ==
  ASSUME fromGdb \in Seq(Unit)
  PROVE  Available \in Nat /\ Available <= Len(fromGdb)
BY ChannelAssumption DEF Available

(* No command is None.                                                     *)
LEMMA CommandIsNotNone == None \notin Command
BY NoneAssumption, ChannelAssumption DEF Command

LEMMA InitInv == Init => IInv
<1> SUFFICES ASSUME Init PROVE TypeOK /\ Handshake
  BY DEF IInv
<1>1. TypeOK
  <2>1. ControlType
    BY DEF Init, ControlType
  <2>2. DataType
    BY ChannelAssumption DEF Init, DataType, ReplyData
  <2>3. QED
    BY <2>1, <2>2 DEF TypeOK
<1>2. Handshake
  BY DEF Init, Handshake, Working, Resting
<1>3. QED
  BY <1>1, <1>2

(* Every step keeps the control state in its type. *)
LEMMA ControlStep ==
  ASSUME IInv, [Next]_vars
  PROVE  ControlType'
<1> USE DEF IInv, TypeOK, ControlType,
       shellVars, flagVars, threadVars, readVars, gdbVars, pipeVars
<1>1. ASSUME NEW k \in Kinds, ExecuteCommand(k) PROVE ControlType'
  BY <1>1 DEF ExecuteCommand
<1>2. CASE PostCommand
  BY <1>2 DEF PostCommand
<1>3. CASE AwaitReply
  <2>1. CASE hasReply
    BY <1>3, <2>1 DEF AwaitReply
  <2>2. CASE ~(hasReply)
    BY <1>3, <2>2 DEF AwaitReply
  <2>3. QED
    BY <2>1, <2>2
<1>4. CASE SpuriousWakeup
  BY <1>4 DEF SpuriousWakeup
<1>5. CASE ReadWelcome
  BY <1>5 DEF ReadWelcome, ReadRound
<1>6. CASE AwaitCommand
  BY <1>6 DEF AwaitCommand
<1>7. CASE LockReply
  BY <1>7 DEF LockReply
<1>8. CASE WriteCommand
  BY <1>8 DEF WriteCommand
<1>9. CASE WriteFails \/ ReadFails
  BY <1>9 DEF WriteFails, ReadFails
<1>10. CASE Read
  BY <1>10 DEF Read, ReadRound
<1>11. CASE ReadContinueReply
  BY <1>11 DEF ReadContinueReply
<1>12. CASE ReadNothing
  BY <1>12 DEF ReadNothing, vars
<1>13. CASE ScanLine
  BY <1>13 DEF ScanLine, NextReplyState
<1>14. CASE EndOfChunk
  BY <1>14 DEF EndOfChunk
<1>15. CASE SetReply
  BY <1>15 DEF SetReply
<1>16. CASE UnlockReply
  BY <1>16 DEF UnlockReply
<1>17. CASE UnlockCommand
  BY <1>17 DEF UnlockCommand
<1>18. CASE GdbStarts
  BY <1>18 DEF GdbStarts
<1>19. CASE GdbWrites
  BY <1>19 DEF GdbWrites
<1>20. CASE GdbExecutes
  BY <1>20 DEF GdbExecutes
<1>21. CASE ProgramPrints
  BY <1>21 DEF ProgramPrints
<1>22. CASE ProgramStops
  BY <1>22 DEF ProgramStops
<1>23. CASE GdbDies
  BY <1>23 DEF GdbDies
<1>24. CASE UNCHANGED vars
  BY <1>24 DEF vars
<1>25. QED
  BY <1>1, <1>2, <1>3, <1>4, <1>5, <1>6, <1>7, <1>8, <1>9, <1>10, <1>11, <1>12,
     <1>13, <1>14, <1>15, <1>16, <1>17, <1>18, <1>19, <1>20, <1>21, <1>22, <1>23, <1>24
     DEF Next, ShellStep, ThreadStep, GdbStep, Ended

(* Every step keeps the two threads in step with each other. *)
LEMMA HandshakeStep ==
  ASSUME IInv, [Next]_vars
  PROVE  Handshake'
<1> USE DEF IInv, TypeOK, ControlType, Handshake, Working, Resting,
       shellVars, flagVars, threadVars, readVars, gdbVars, pipeVars
<1>1. ASSUME NEW k \in Kinds, ExecuteCommand(k) PROVE Handshake'
  <2>1. command' \in Command
    BY <1>1, ChannelAssumption DEF ExecuteCommand, DataType, Command
  <2>2. QED
    BY <1>1, <2>1 DEF ExecuteCommand
<1>2. CASE PostCommand
  BY <1>2 DEF PostCommand
<1>3. CASE AwaitReply
  BY <1>3 DEF AwaitReply
<1>4. CASE SpuriousWakeup
  BY <1>4 DEF SpuriousWakeup
<1>5. CASE ReadWelcome
  BY <1>5 DEF ReadWelcome, ReadRound
<1>6. CASE AwaitCommand
  <2>1. CASE hasCommand
    BY <1>6, <2>1 DEF AwaitCommand
  <2>2. CASE ~(hasCommand)
    BY <1>6, <2>2 DEF AwaitCommand
  <2>3. QED
    BY <2>1, <2>2
<1>7. CASE LockReply
  BY <1>7 DEF LockReply
<1>8. CASE WriteCommand
  BY <1>8 DEF WriteCommand
<1>9. CASE WriteFails \/ ReadFails
  BY <1>9 DEF WriteFails, ReadFails
<1>10. CASE Read
  BY <1>10 DEF Read, ReadRound
<1>11. CASE ReadContinueReply
  BY <1>11 DEF ReadContinueReply
<1>12. CASE ReadNothing
  BY <1>12 DEF ReadNothing, vars
<1>13. CASE ScanLine
  BY <1>13 DEF ScanLine
<1>14. CASE EndOfChunk
  BY <1>14 DEF EndOfChunk
<1>15. CASE SetReply
  BY <1>15 DEF SetReply
<1>16. CASE UnlockReply
  BY <1>16 DEF UnlockReply
<1>17. CASE UnlockCommand
  <2>1. CASE cmd.kind = "quit"
    BY <1>17, <2>1 DEF UnlockCommand
  <2>2. CASE ~(cmd.kind = "quit")
    BY <1>17, <2>2 DEF UnlockCommand
  <2>3. QED
    BY <2>1, <2>2
<1>18. CASE GdbStarts
  BY <1>18 DEF GdbStarts
<1>19. CASE GdbWrites
  BY <1>19 DEF GdbWrites
<1>20. CASE GdbExecutes
  BY <1>20 DEF GdbExecutes
<1>21. CASE ProgramPrints
  BY <1>21 DEF ProgramPrints
<1>22. CASE ProgramStops
  BY <1>22 DEF ProgramStops
<1>23. CASE GdbDies
  BY <1>23 DEF GdbDies
<1>24. CASE UNCHANGED vars
  BY <1>24 DEF vars
<1>25. QED
  BY <1>1, <1>2, <1>3, <1>4, <1>5, <1>6, <1>7, <1>8, <1>9, <1>10, <1>11, <1>12,
     <1>13, <1>14, <1>15, <1>16, <1>17, <1>18, <1>19, <1>20, <1>21, <1>22, <1>23, <1>24
     DEF Next, ShellStep, ThreadStep, GdbStep, Ended

(* A round of Read leaves units in the message, the pipe and the reply.    *)
LEMMA ReadRoundTypes ==
  ASSUME DataType, NEW after, ReadRound(after)
  PROVE  /\ message' \in Seq(Unit) /\ fromGdb' \in Seq(Unit)
         /\ reply' \in [units : Seq(Unit), data : ReplyData]
<1> USE DEF DataType
<1>1. CASE EndOfFile /\ reply' = [reply EXCEPT !.units = message]
              /\ message' = <<>> /\ UNCHANGED fromGdb
  BY <1>1
<1>2. CASE fromGdb # <<>>
  <2> DEFINE n == Available
             m == message \o SubSeq(fromGdb, 1, n)
             rest == SubSeq(fromGdb, n + 1, Len(fromGdb))
  <2>1. n \in Nat /\ n <= Len(fromGdb)
    BY AvailableType
  <2>2. m \in Seq(Unit) /\ rest \in Seq(Unit)
    BY <2>1, SubSeqTypes
  <2> HIDE DEF n, m, rest
  <2>3. /\ fromGdb' = rest
        /\ \/ message' = <<>> /\ reply' = [reply EXCEPT !.units = m]
           \/ message' = m /\ UNCHANGED reply
    BY <1>2 DEF ReadRound, EndOfFile, n, m, rest
  <2>4. [reply EXCEPT !.units = m] \in [units : Seq(Unit), data : ReplyData]
    BY <2>2
  <2>5. message' \in Seq(Unit)
    BY <2>2, <2>3, EmptyType
  <2>6. reply' \in [units : Seq(Unit), data : ReplyData]
    BY <2>3, <2>4
  <2>7. QED
    BY <2>2, <2>3, <2>5, <2>6
<1>3. QED
  BY <1>1, <1>2 DEF ReadRound

(* Every step keeps the data in its type. *)
LEMMA DataStep ==
  ASSUME IInv, [Next]_vars
  PROVE  DataType'
<1> USE DEF IInv, TypeOK, DataType,
       shellVars, flagVars, threadVars, readVars, gdbVars, pipeVars
<1>1. ASSUME NEW k \in Kinds, ExecuteCommand(k) PROVE DataType'
  BY <1>1, ChannelAssumption DEF ExecuteCommand, Command
<1>2. CASE PostCommand
  BY <1>2 DEF PostCommand
<1>3. CASE AwaitReply
  BY <1>3 DEF AwaitReply
<1>4. CASE SpuriousWakeup
  BY <1>4 DEF SpuriousWakeup
<1>5. CASE ReadWelcome
  BY <1>5, ReadRoundTypes DEF ReadWelcome
<1>6. CASE AwaitCommand
  <2>1. CASE hasCommand
    BY <1>6, <2>1 DEF AwaitCommand
  <2>2. CASE ~(hasCommand)
    BY <1>6, <2>2 DEF AwaitCommand
  <2>3. QED
    BY <2>1, <2>2
<1>7. CASE LockReply
  BY <1>7 DEF LockReply
<1>8. CASE WriteCommand
  <2>1. cmd \in Command
    BY <1>8 DEF WriteCommand, Handshake, Working
  <2>2. {} \in ReplyData /\ {} \subseteq Reports
    BY DEF ReplyData
  <2>3. QED
    BY <1>8, <2>1, <2>2 DEF WriteCommand
<1>9. CASE WriteFails \/ ReadFails
  BY <1>9, EmptyType DEF WriteFails, ReadFails
<1>10. CASE Read
  BY <1>10, ReadRoundTypes DEF Read
<1>11. CASE ReadContinueReply
  <2>1. /\ SubSeq(fromGdb, 1, Available) \in Seq(Unit)
        /\ SubSeq(fromGdb, Available + 1, Len(fromGdb)) \in Seq(Unit)
    BY AvailableType, SubSeqTypes
  <2>2. cut' \subseteq Reports
    BY <1>11 DEF ReadContinueReply
  <2>3. QED
    BY <1>11, <2>1, <2>2 DEF ReadContinueReply
<1>12. CASE ReadNothing
  BY <1>12 DEF ReadNothing, vars
<1>13. CASE ScanLine
  <2>1. SubSeq(chunk, LineLength(chunk) + 1, Len(chunk)) \in Seq(Unit)
    BY SubSeqTypes DEF LineLength
  <2>2. ASSUME NEW kind PROVE NextData(kind) \in ReplyData
    BY DEF NextData, ReplyData
  <2>3. QED
    BY <1>13, <2>1, <2>2 DEF ScanLine
<1>14. CASE EndOfChunk
  <2>1. [units |-> message, data |-> data] \in [units : Seq(Unit), data : ReplyData]
    OBVIOUS
  <2>2. QED
    BY <1>14, <2>1 DEF EndOfChunk
<1>15. CASE SetReply
  BY <1>15 DEF SetReply
<1>16. CASE UnlockReply
  BY <1>16 DEF UnlockReply
<1>17. CASE UnlockCommand
  BY <1>17 DEF UnlockCommand
<1>18. CASE GdbStarts
  <2>1. 0 \in 0..MaxCommands /\ "text" \in UnitKinds
    BY ChannelAssumption DEF UnitKinds
  <2>2. U("text", 0) \in Seq(Unit) /\ Prompt(0) \in Seq(Unit)
    BY <2>1, UnitTypes, PromptTypes
  <2>3. U("text", 0) \o Prompt(0) \in Seq(Unit)
    BY <2>2
  <2>4. QED
    BY <1>18, <2>3 DEF GdbStarts
<1>19. CASE GdbWrites
  <2> DEFINE n == IF unwritten[1].kind = "prompt1" THEN Len(unwritten) ELSE 1
  <2>1. n \in Nat \ {0} /\ n <= Len(unwritten)
    BY <1>19 DEF GdbWrites
  <2>2. SubSeq(unwritten, n + 1, Len(unwritten)) \in Seq(Unit)
    BY <2>1, SubSeqTypes
  <2>3. SubSeq(unwritten, 1, n) \in Seq(Unit)
    BY <2>1, SubSeqTypes
  <2>4. QED
    BY <1>19, <2>2, <2>3 DEF GdbWrites
<1>20. CASE GdbExecutes
  <2> DEFINE c == Head(toGdb)
  <2>1. c \in Command /\ Tail(toGdb) \in Seq(Command)
    BY <1>20 DEF GdbExecutes
  <2>2. c.num \in 0..MaxCommands
    BY <2>1, ChannelAssumption DEF Command
  <2>3. "continuing" \in UnitKinds /\ "text" \in UnitKinds
    BY DEF UnitKinds
  <2>4. /\ U("continuing", c.num) \in Seq(Unit)
        /\ U("text", c.num) \in Seq(Unit) /\ Prompt(c.num) \in Seq(Unit)
    BY <2>2, <2>3, UnitTypes, PromptTypes
  <2>5. unwritten' \in Seq(Unit)
    <3>1. CASE c.kind = "quit"
      BY <1>20, <3>1, EmptyType DEF GdbExecutes
    <3>2. CASE c.kind = "continue"
      BY <1>20, <3>2, <2>4 DEF GdbExecutes
    <3>3. CASE c.kind \notin {"quit", "continue"}
      <4>1. U("text", c.num) \o Prompt(c.num) \in Seq(Unit)
        BY <2>4
      <4>2. QED
        BY <1>20, <3>3, <4>1 DEF GdbExecutes
    <3>4. QED
      BY <3>1, <3>2, <3>3
  <2>6. printed' \in 0..MaxConsole
    BY <1>20, ChannelAssumption DEF GdbExecutes
  <2>7. QED
    BY <1>20, <2>1, <2>2, <2>5, <2>6 DEF GdbExecutes
<1>21. CASE ProgramPrints
  <2>1. U("console", current) \in Seq(Unit)
    BY UnitTypes DEF UnitKinds
  <2>2. printed + 1 \in 0..MaxConsole
    BY <1>21, ChannelAssumption DEF ProgramPrints
  <2>3. QED
    BY <1>21, <2>1, <2>2 DEF ProgramPrints
<1>22. CASE ProgramStops
  <2>1. ASSUME NEW tail \in {<<>>, U("partial", current)}, NEW why \in UnitKinds
        PROVE  /\ tail \o Report(why, current) \o Prompt(current) \in Seq(Unit)
               /\ tail \o Report(why, current) \o U("source", current)
                    \o Prompt(current) \in Seq(Unit)
    <3>1. "partial" \in UnitKinds /\ "source" \in UnitKinds
      BY DEF UnitKinds
    <3>2. /\ U("partial", current) \in Seq(Unit) /\ Report(why, current) \in Seq(Unit)
          /\ U("source", current) \in Seq(Unit) /\ Prompt(current) \in Seq(Unit)
      BY <3>1, UnitTypes, PromptTypes, ReportTypes
    <3>3. tail \in Seq(Unit)
      BY <3>2, EmptyType
    <3>4. QED
      BY <3>2, <3>3
  <2>2. unwritten' \in Seq(Unit)
    BY <1>22, <2>1 DEF ProgramStops, UnitKinds
  <2>3. QED
    BY <1>22, <2>2 DEF ProgramStops
<1>23. CASE GdbDies
  BY <1>23 DEF GdbDies
<1>24. CASE UNCHANGED vars
  BY <1>24 DEF vars
<1>25. QED
  BY <1>1, <1>2, <1>3, <1>4, <1>5, <1>6, <1>7, <1>8, <1>9, <1>10, <1>11, <1>12,
     <1>13, <1>14, <1>15, <1>16, <1>17, <1>18, <1>19, <1>20, <1>21, <1>22, <1>23, <1>24
     DEF Next, ShellStep, ThreadStep, GdbStep, Ended

---------------------------------------------------------------------------
LEMMA Inductive == Spec => []IInv
<1>1. IInv /\ [Next]_vars => IInv'
  BY ControlStep, DataStep, HandshakeStep DEF IInv, TypeOK
<1>2. QED
  BY InitInv, <1>1, PTL DEF Spec

(* Every variable of the channel keeps its type.                           *)
THEOREM TypeCorrect == Spec => []TypeOK
<1>1. IInv => TypeOK
  BY DEF IInv
<1>2. QED
  BY Inductive, <1>1, PTL

(* The two threads keep in step: who holds which mutex, which flag is up,  *)
(* and that the command the gdb thread works on is the one the shell       *)
(* waits for.                                                              *)
THEOREM HandshakeHolds == Spec => []Handshake
<1>1. IInv => Handshake
  BY DEF IInv
<1>2. QED
  BY Inductive, <1>1, PTL

(* No notification of Gdb::ExecuteCommand or Gdb::DoRun is lost.           *)
THEOREM WakeupsArrive == Spec => []NoLostWakeup
<1>1. IInv => NoLostWakeup
  BY DEF IInv, TypeOK, ControlType, Handshake, NoLostWakeup, Working, Resting
<1>2. QED
  BY Inductive, <1>1, PTL

(* The stores ExecuteCommand makes before it locks anything never change a *)
(* flag, so the gdb thread cannot tell whether they happened.              *)
THEOREM UnlockedStoresAreHarmless == Spec => UnlockedStoresChangeNothing
<1>1. ASSUME IInv, [Next]_vars, shell = "idle", shell' = "post"
      PROVE  UNCHANGED <<hasCommand, hasReply>>
  <2>1. PICK k \in Kinds : ExecuteCommand(k)
    BY <1>1 DEF Next, ShellStep, ThreadStep, GdbStep, Ended, vars, shellVars,
         PostCommand, AwaitReply, SpuriousWakeup, ReadWelcome, AwaitCommand,
         LockReply, WriteCommand, WriteFails, ReadFails, Read, ReadContinueReply,
         ReadNothing, ScanLine, EndOfChunk, SetReply, UnlockReply,
         UnlockCommand, GdbStarts, GdbWrites, GdbExecutes, ProgramPrints,
         ProgramStops, GdbDies
  <2>2. QED
    BY <1>1, <2>1 DEF ExecuteCommand, IInv, TypeOK, ControlType, Handshake
<1>2. IInv /\ [Next]_vars =>
        [shell = "idle" /\ shell' = "post" => UNCHANGED <<hasCommand, hasReply>>]_vars
  BY <1>1
<1>3. QED
  BY Inductive, <1>2, PTL DEF Spec, UnlockedStoresChangeNothing

---------------------------------------------------------------------------
(***************************************************************************)
(* Whose reply it is: for every number of commands, every size of the      *)
(* buffer, every amount of output and a gdb that may die at any time, the  *)
(* units ExecuteCommand returns were written for the command it was called *)
(* with, and unless gdb has died they are all of them; and what it says of *)
(* the program: a signal that stopped it is reported.  From the first and  *)
(* the hand-over follows that the channel implements the abstract command  *)
(* service.                                                                *)
(*                                                                         *)
(* What makes it work is one sentence about the stream, that is, what has  *)
(* been read of a reply, what is in the pipe and what gdb is going to      *)
(* write: while the gdb thread reads, the stream belongs to one command    *)
(* and has the end of a prompt at its end only; while it does not read,    *)
(* the stream is empty.                                                    *)
(***************************************************************************)

Stream == (message \o fromGdb) \o unwritten
AllOf(units, k) == \A i \in DOMAIN units : units[i].of = k
Unprompted(units) == \A i \in DOMAIN units : units[i].kind # "prompt2"
Complete(units) ==
  /\ EndsWithPrompt(units)
  /\ \A i \in DOMAIN units : units[i].kind = "prompt2" => i = Len(units)

Reading == {"welcome", "read", "readContinue", "scan"}
Asker == IF thread = "welcome" THEN 0 ELSE cmd.num

(* While the thread reads, either the command has not reached gdb yet, or  *)
(* the stream is the reply, or as much of it as there is while the program *)
(* runs.                                                                   *)
ReplyInStream ==
  /\ gdb = "boot" => thread = "welcome" /\ toGdb = <<>> /\ Stream = <<>>
  /\ gdb = "prompt" =>
       \/ thread # "welcome" /\ toGdb = <<cmd>> /\ Stream = <<>>
       \/ toGdb = <<>> /\ Complete(Stream)
  /\ gdb = "running" =>
       thread # "welcome" /\ toGdb = <<>> /\ current = cmd.num /\ Unprompted(Stream)
ReadsItsReply ==
  thread \in Reading =>
    /\ thread # "welcome" => cmd.kind # "quit"
    /\ AllOf(Stream, Asker)
    /\ ReplyInStream

(* Between replies gdb is at its prompt, and the pipes are empty.          *)
QuietNow ==
  \/ thread \in {"test", "asleep", "lock", "write"}
  \/ thread \in {"reply", "unlock", "unlockCommand"} /\ cmd.kind # "quit"
QuietBetween ==
  QuietNow /\ gdb # "dead" =>
    /\ gdb = "prompt" /\ toGdb = <<>>
    /\ message = <<>> /\ fromGdb = <<>> /\ unwritten = <<>>

(* The chunk being scanned is the end of the message, and the state says   *)
(* prompt only once the message has come to it.                            *)
Scanned ==
  /\ thread = "readContinue" => replyState # "prompt"
  /\ thread = "scan" =>
       /\ Len(chunk) <= Len(message)
       /\ \A i \in DOMAIN chunk : chunk[i] = message[Len(message) - Len(chunk) + i]
       /\ replyState = "prompt" /\ gdb # "dead" => EndsWithPrompt(message)

(* A reply that is ready is the reply to the command of the shell.         *)
GoodReply ==
  /\ AllOf(reply.units, command.num)
  /\ command.kind # "quit" /\ gdb # "dead" => EndsWithPrompt(reply.units)
Answered == thread = "reply" \/ hasReply => GoodReply

PipeInv == ReadsItsReply /\ QuietBetween /\ Scanned /\ Answered

---------------------------------------------------------------------------
(* Lemmas about sequences of units.                                        *)

LEMMA Concat3 ==
  ASSUME NEW a \in Seq(Unit), NEW b \in Seq(Unit), NEW c \in Seq(Unit)
  PROVE  (a \o b) \o c = a \o (b \o c)
BY ConcatAssociative

LEMMA Cut ==
  ASSUME NEW c \in Seq(Unit), NEW n \in 0..Len(c)
  PROVE  /\ SubSeq(c, 1, n) \in Seq(Unit) /\ SubSeq(c, n + 1, Len(c)) \in Seq(Unit)
         /\ SubSeq(c, 1, n) \o SubSeq(c, n + 1, Len(c)) = c
<1>1. SubSeq(c, 1, Len(c)) = c
  BY SubSeqFull
<1>2. 1 \in 1..Len(c) + 1 /\ n \in 1 - 1..Len(c) /\ Len(c) \in n..Len(c)
  OBVIOUS
<1>3. SubSeq(c, 1, n) \o SubSeq(c, n + 1, Len(c)) = SubSeq(c, 1, Len(c))
  BY <1>2, ConcatAdjacentSubSeq
<1>4. SubSeq(c, 1, n) \in Seq(Unit) /\ SubSeq(c, n + 1, Len(c)) \in Seq(Unit)
  OBVIOUS
<1> QED BY <1>1, <1>3, <1>4, Zenon

LEMMA Regroup ==
  ASSUME NEW a \in Seq(Unit), NEW b \in Seq(Unit)
  PROVE  \A c, d \in Seq(Unit) : (a \o (b \o c)) \o d = (a \o b) \o (c \o d)
<1> TAKE c, d \in Seq(Unit)
<1>1. (a \o b) \o c = a \o (b \o c)
  BY Concat3
<1>2. a \o b \in Seq(Unit)
  OBVIOUS
<1>3. ((a \o b) \o c) \o d = (a \o b) \o (c \o d)
  BY <1>2, Concat3, Zenon
<1> QED BY <1>1, <1>3, Zenon

LEMMA MoveToMiddle ==
  ASSUME NEW a \in Seq(Unit), NEW b \in Seq(Unit)
  PROVE  \A c \in Seq(Unit) : \A n \in 0..Len(c) :
           (a \o (b \o SubSeq(c, 1, n))) \o SubSeq(c, n + 1, Len(c)) = (a \o b) \o c
<1>1. \A c, d \in Seq(Unit) : (a \o (b \o c)) \o d = (a \o b) \o (c \o d)
  BY Regroup
<1> TAKE c \in Seq(Unit)
<1> TAKE n \in 0..Len(c)
<1>2. SubSeq(c, 1, n) \in Seq(Unit) /\ SubSeq(c, n + 1, Len(c)) \in Seq(Unit)
  BY Cut, Zenon
<1>3. SubSeq(c, 1, n) \o SubSeq(c, n + 1, Len(c)) = c
  BY Cut, Zenon
<1>4. (a \o (b \o SubSeq(c, 1, n))) \o SubSeq(c, n + 1, Len(c))
        = (a \o b) \o (SubSeq(c, 1, n) \o SubSeq(c, n + 1, Len(c)))
  BY <1>1, <1>2, Zenon
<1> QED BY <1>3, <1>4, Zenon

LEMMA MoveToFront ==
  ASSUME NEW a \in Seq(Unit), NEW b \in Seq(Unit), NEW c \in Seq(Unit), NEW n \in 0..Len(b)
  PROVE  ((a \o SubSeq(b, 1, n)) \o SubSeq(b, n + 1, Len(b))) \o c = (a \o b) \o c
<1>1. ASSUME NEW b1 \in Seq(Unit), NEW b2 \in Seq(Unit), b1 \o b2 = b
      PROVE  (a \o b1) \o b2 = a \o b
  <2>1. (a \o b1) \o b2 = a \o (b1 \o b2)
    BY Concat3, Zenon
  <2> QED BY <1>1, <2>1, Zenon
<1>2. (a \o SubSeq(b, 1, n)) \o SubSeq(b, n + 1, Len(b)) = a \o b
  BY <1>1, Cut, Zenon
<1> QED BY <1>2, Zenon

LEMMA ConcatAll ==
  ASSUME NEW P, NEW s \in Seq(Unit), NEW t \in Seq(Unit)
  PROVE  (\A i \in DOMAIN (s \o t) : (s \o t)[i] \in P)
           <=> (\A i \in DOMAIN s : s[i] \in P) /\ (\A i \in DOMAIN t : t[i] \in P)
<1>1. /\ s \o t \in Seq(Unit) /\ Len(s \o t) = Len(s) + Len(t)
      /\ \A i \in 1..Len(s) + Len(t) :
           (s \o t)[i] = IF i <= Len(s) THEN s[i] ELSE t[i - Len(s)]
  BY ConcatProperties
<1>2. DOMAIN s = 1..Len(s) /\ DOMAIN t = 1..Len(t) /\ DOMAIN (s \o t) = 1..Len(s) + Len(t)
  BY <1>1
<1>3. Len(s) \in Nat /\ Len(t) \in Nat
  OBVIOUS
<1>4. ASSUME \A i \in DOMAIN (s \o t) : (s \o t)[i] \in P, NEW i \in DOMAIN s PROVE s[i] \in P
  <2>1. i \in 1..Len(s) + Len(t) /\ (s \o t)[i] = s[i]
    BY <1>1, <1>2, <1>3
  <2> QED BY <1>2, <1>4, <2>1
<1>5. ASSUME \A i \in DOMAIN (s \o t) : (s \o t)[i] \in P, NEW i \in DOMAIN t PROVE t[i] \in P
  <2>1. Len(s) + i \in 1..Len(s) + Len(t) /\ ~(Len(s) + i <= Len(s)) /\ Len(s) + i - Len(s) = i
    BY <1>2, <1>3
  <2>2. (s \o t)[Len(s) + i] = t[i]
    BY <1>1, <2>1
  <2> QED BY <1>2, <1>5, <2>1, <2>2
<1>6. ASSUME \A i \in DOMAIN s : s[i] \in P, \A i \in DOMAIN t : t[i] \in P, NEW i \in DOMAIN (s \o t)
      PROVE  (s \o t)[i] \in P
  <2>1. i \in 1..Len(s) + Len(t)
    BY <1>2
  <2>2. CASE i <= Len(s)
    BY <1>1, <1>2, <1>3, <1>6, <2>1, <2>2
  <2>3. CASE ~(i <= Len(s))
    <3>1. i - Len(s) \in 1..Len(t)
      BY <1>3, <2>1, <2>3
    <3> QED BY <1>1, <1>2, <1>6, <2>1, <2>3, <3>1
  <2> QED BY <2>2, <2>3
<1> QED BY <1>4, <1>5, <1>6

LEMMA ConcatOf ==
  ASSUME NEW s \in Seq(Unit), NEW t \in Seq(Unit), NEW k
  PROVE  AllOf(s \o t, k) <=> AllOf(s, k) /\ AllOf(t, k)
<1> DEFINE P == {x \in Unit : x.of = k}
<1>1. s \o t \in Seq(Unit)
  OBVIOUS
<1>2. ASSUME NEW u \in Seq(Unit) PROVE AllOf(u, k) <=> \A i \in DOMAIN u : u[i] \in P
  <2>1. \A i \in DOMAIN u : u[i] \in Unit
    OBVIOUS
  <2> QED BY <2>1 DEF AllOf
<1>3. (\A i \in DOMAIN (s \o t) : (s \o t)[i] \in P)
        <=> (\A i \in DOMAIN s : s[i] \in P) /\ (\A i \in DOMAIN t : t[i] \in P)
  <2> HIDE DEF P
  <2> QED BY ConcatAll, Zenon
<1> HIDE DEF P
<1> QED BY <1>1, <1>2, <1>3, Zenon

LEMMA ConcatUnprompted ==
  ASSUME NEW s \in Seq(Unit), NEW t \in Seq(Unit)
  PROVE  Unprompted(s \o t) <=> Unprompted(s) /\ Unprompted(t)
<1> DEFINE P == {x \in Unit : x.kind # "prompt2"}
<1>1. s \o t \in Seq(Unit)
  OBVIOUS
<1>2. ASSUME NEW u \in Seq(Unit) PROVE Unprompted(u) <=> \A i \in DOMAIN u : u[i] \in P
  <2>1. \A i \in DOMAIN u : u[i] \in Unit
    OBVIOUS
  <2> QED BY <2>1 DEF Unprompted
<1>3. (\A i \in DOMAIN (s \o t) : (s \o t)[i] \in P)
        <=> (\A i \in DOMAIN s : s[i] \in P) /\ (\A i \in DOMAIN t : t[i] \in P)
  <2> HIDE DEF P
  <2> QED BY ConcatAll, Zenon
<1> HIDE DEF P
<1> QED BY <1>1, <1>2, <1>3, Zenon

(* A prompt after units without one completes a reply.                     *)
LEMMA PromptCompletes ==
  ASSUME NEW s \in Seq(Unit), Unprompted(s), NEW k \in 0..MaxCommands
  PROVE  Complete(s \o Prompt(k)) /\ AllOf(Prompt(k), k)
<1> DEFINE p == Prompt(k)
<1>1. /\ p \in Seq(Unit) /\ Len(p) = 2 /\ p[1].kind = "prompt1" /\ p[2].kind = "prompt2"
      /\ p[1].of = k /\ p[2].of = k
  BY PromptTypes DEF Prompt
<1> HIDE DEF p
<1>2. /\ s \o p \in Seq(Unit) /\ Len(s \o p) = Len(s) + 2
      /\ \A i \in 1..Len(s) + 2 : (s \o p)[i] = IF i <= Len(s) THEN s[i] ELSE p[i - Len(s)]
  <2>1. ASSUME NEW q \in Seq(Unit)
        PROVE  /\ s \o q \in Seq(Unit) /\ Len(s \o q) = Len(s) + Len(q)
               /\ \A i \in 1..Len(s) + Len(q) : (s \o q)[i] = IF i <= Len(s) THEN s[i] ELSE q[i - Len(s)]
    BY ConcatProperties
  <2> QED BY <1>1, <2>1, Zenon
<1>3. Len(s) \in Nat /\ DOMAIN s = 1..Len(s)
  OBVIOUS
<1>4. (s \o p)[Len(s) + 1] = p[1] /\ (s \o p)[Len(s) + 2] = p[2]
  BY <1>2, <1>3
<1>5. EndsWithPrompt(s \o p)
  BY <1>1, <1>2, <1>3, <1>4 DEF EndsWithPrompt
<1>6. ASSUME NEW i \in 1..Len(s) + 2, (s \o p)[i].kind = "prompt2" PROVE i = Len(s) + 2
  <2>1. CASE i <= Len(s)
    BY <1>2, <1>3, <1>6, <2>1 DEF Unprompted
  <2>2. CASE i = Len(s) + 1
    BY <1>1, <1>4, <1>6, <2>2
  <2> QED BY <1>3, <2>1, <2>2
<1>7. Complete(s \o p)
  BY <1>2, <1>5, <1>6 DEF Complete
<1>8. AllOf(p, k)
  BY <1>1 DEF AllOf
<1> QED BY <1>7, <1>8 DEF p

(* A beginning of a complete stream that ends with the prompt is all of it.*)
LEMMA PromptIsTheEnd ==
  ASSUME NEW s \in Seq(Unit), NEW t \in Seq(Unit), Complete(s \o t), EndsWithPrompt(s)
  PROVE  t = <<>>
<1>1. /\ s \o t \in Seq(Unit) /\ Len(s \o t) = Len(s) + Len(t)
      /\ \A i \in 1..Len(s) + Len(t) :
           (s \o t)[i] = IF i <= Len(s) THEN s[i] ELSE t[i - Len(s)]
  BY ConcatProperties
<1>2. Len(s) \in Nat /\ Len(t) \in Nat /\ Len(s) >= 2
  BY DEF EndsWithPrompt
<1>3. (s \o t)[Len(s)].kind = "prompt2"
  BY <1>1, <1>2 DEF EndsWithPrompt
<1>4. Len(s) = Len(s \o t)
  BY <1>1, <1>2, <1>3 DEF Complete
<1>5. Len(t) = 0
  BY <1>1, <1>2, <1>4
<1> QED BY <1>5

LEMMA PromptIsPrompted ==
  ASSUME NEW s \in Seq(Unit), EndsWithPrompt(s)
  PROVE  ~Unprompted(s) /\ s # <<>>
BY DEF EndsWithPrompt, Unprompted

LEMMA LineProperties ==
  ASSUME NEW k \in 0..MaxCommands, NEW kind \in UnitKinds, kind # "prompt2"
  PROVE  U(kind, k) \in Seq(Unit) /\ Unprompted(U(kind, k)) /\ AllOf(U(kind, k), k)
BY UnitTypes DEF U, Unprompted, AllOf

LEMMA EmptyProperties == Unprompted(<<>>) /\ \A k : AllOf(<<>>, k)
BY DEF Unprompted, AllOf

---------------------------------------------------------------------------
(* Lemmas about the stream.                                                *)

LEMMA StreamTypes ==
  ASSUME TypeOK
  PROVE  /\ message \in Seq(Unit) /\ fromGdb \in Seq(Unit) /\ unwritten \in Seq(Unit)
         /\ message \o fromGdb \in Seq(Unit) /\ Stream \in Seq(Unit)
BY DEF TypeOK, DataType, Stream

(* A read moves units from the pipe to the message, a write of gdb from    *)
(* what it has to write to the pipe: the stream stays.                     *)
LEMMA ReadKeepsStream ==
  ASSUME TypeOK,
         message' = message \o SubSeq(fromGdb, 1, Available),
         fromGdb' = SubSeq(fromGdb, Available + 1, Len(fromGdb)),
         unwritten' = unwritten
  PROVE  Stream' = Stream
<1>1. Available \in 0..Len(fromGdb)
  BY StreamTypes, AvailableType
<1>2. ((message \o SubSeq(fromGdb, 1, Available)) \o SubSeq(fromGdb, Available + 1, Len(fromGdb)))
         \o unwritten = (message \o fromGdb) \o unwritten
  BY <1>1, StreamTypes, MoveToFront, Zenon
<1> QED BY <1>2 DEF Stream

LEMMA WriteKeepsStream ==
  ASSUME TypeOK, GdbWrites
  PROVE  Stream' = Stream
<1> DEFINE n == IF unwritten[1].kind = "prompt1" THEN Len(unwritten) ELSE 1
<1>1. n \in 0..Len(unwritten)
  BY StreamTypes DEF GdbWrites
<1>2. /\ fromGdb' = fromGdb \o SubSeq(unwritten, 1, n)
      /\ unwritten' = SubSeq(unwritten, n + 1, Len(unwritten))
      /\ message' = message
  BY DEF GdbWrites, readVars
<1> HIDE DEF n
<1>3. (message \o (fromGdb \o SubSeq(unwritten, 1, n))) \o SubSeq(unwritten, n + 1, Len(unwritten))
        = (message \o fromGdb) \o unwritten
  <2>1. message \in Seq(Unit) /\ fromGdb \in Seq(Unit)
    BY StreamTypes
  <2>2. unwritten \in Seq(Unit)
    BY StreamTypes
  <2>3. \A c \in Seq(Unit) : \A i \in 0..Len(c) :
           (message \o (fromGdb \o SubSeq(c, 1, i))) \o SubSeq(c, i + 1, Len(c)) = (message \o fromGdb) \o c
    BY <2>1, MoveToMiddle, Zenon
  <2> QED BY <1>1, <2>2, <2>3, Zenon
<1> QED BY <1>2, <1>3 DEF Stream

LEMMA EmptyStream ==
  ASSUME TypeOK, Stream = <<>>
  PROVE  message = <<>> /\ fromGdb = <<>> /\ unwritten = <<>>
<1>1. Len(Stream) = Len(message \o fromGdb) + Len(unwritten)
  BY StreamTypes DEF Stream
<1>2. Len(message \o fromGdb) = Len(message) + Len(fromGdb)
  BY StreamTypes
<1>3. Len(message) = 0 /\ Len(fromGdb) = 0 /\ Len(unwritten) = 0
  BY <1>1, <1>2, StreamTypes
<1> QED BY <1>3, StreamTypes

(* Everything of the stream belongs to the command its parts belong to.    *)
LEMMA StreamOf ==
  ASSUME TypeOK, NEW k
  PROVE  AllOf(Stream, k) <=> AllOf(message, k) /\ AllOf(fromGdb, k) /\ AllOf(unwritten, k)
<1>1. AllOf(Stream, k) <=> AllOf(message \o fromGdb, k) /\ AllOf(unwritten, k)
  BY StreamTypes, ConcatOf DEF Stream
<1>2. AllOf(message \o fromGdb, k) <=> AllOf(message, k) /\ AllOf(fromGdb, k)
  BY StreamTypes, ConcatOf
<1> QED BY <1>1, <1>2

LEMMA StreamUnprompted ==
  ASSUME TypeOK, Unprompted(Stream)
  PROVE  Unprompted(message) /\ Unprompted(fromGdb) /\ Unprompted(unwritten) /\ Unprompted(message \o fromGdb)
<1>1. Unprompted(message \o fromGdb) /\ Unprompted(unwritten)
  BY StreamTypes, ConcatUnprompted DEF Stream
<1> QED BY <1>1, StreamTypes, ConcatUnprompted

LEMMA EmptyConcat ==
  ASSUME NEW s \in Seq(Unit), NEW t \in Seq(Unit), s \o t = <<>>
  PROVE  s = <<>> /\ t = <<>>
<1>1. Len(s \o t) = Len(s) + Len(t)
  OBVIOUS
<1>2. Len(s) = 0 /\ Len(t) = 0
  BY <1>1
<1> QED BY <1>2

(* A message that has come to the prompt is all there is.                  *)
LEMMA WholeReply ==
  ASSUME TypeOK, ReadsItsReply, thread \in Reading, gdb # "dead",
         NEW m \in Seq(Unit), NEW rest \in Seq(Unit), EndsWithPrompt(m),
         Stream = (m \o rest) \o unwritten
  PROVE  gdb = "prompt" /\ toGdb = <<>> /\ rest = <<>> /\ unwritten = <<>>
<1>1. unwritten \in Seq(Unit) /\ rest \o unwritten \in Seq(Unit)
  BY StreamTypes
<1>2. Stream = m \o (rest \o unwritten)
  <2>1. (m \o rest) \o unwritten = m \o (rest \o unwritten)
    BY <1>1, Concat3, Zenon
  <2> QED BY <2>1
<1>3. ~Unprompted(Stream) /\ Stream # <<>>
  <2>1. ~Unprompted(m)
    BY PromptIsPrompted
  <2>2. ~Unprompted(m \o (rest \o unwritten))
    BY <1>1, <2>1, ConcatUnprompted
  <2> QED BY <1>2, <2>2, EmptyProperties
<1>4. gdb = "prompt" /\ toGdb = <<>> /\ Complete(Stream)
  BY <1>3 DEF ReadsItsReply, ReplyInStream, TypeOK, ControlType
<1>5. rest \o unwritten = <<>>
  BY <1>1, <1>2, <1>4, PromptIsTheEnd
<1> QED BY <1>1, <1>4, <1>5, EmptyConcat

(* While the gdb thread works, it works on the command of the shell.       *)
LEMMA WorkingIsForCommand ==
  ASSUME IInv, thread \in Working
  PROVE  cmd = command /\ cmd \in Command /\ ~hasReply /\ shell \in {"test", "asleep"}
BY DEF IInv, TypeOK, ControlType, Handshake, Working, Resting

LEMMA NoReplyAtWelcome ==
  ASSUME IInv, thread = "welcome"
  PROVE  ~hasReply
BY DEF IInv, TypeOK, ControlType, Handshake, Working, Resting

(* A round of Read, as far as the stream is concerned.                     *)
LEMMA ReadRoundCases ==
  ASSUME TypeOK, NEW after, ReadRound(after), unwritten' = unwritten
  PROVE  \/ /\ thread' = thread /\ Stream' = Stream /\ UNCHANGED reply
         \/ /\ thread' = after
            /\ \E m, rest \in Seq(Unit) :
                 /\ EndsWithPrompt(m)
                 /\ Stream = (m \o rest) \o unwritten
                 /\ message' = <<>> /\ fromGdb' = rest
                 /\ reply' = [reply EXCEPT !.units = m]
         \/ /\ thread' = after /\ gdb = "dead"
            /\ reply' = [reply EXCEPT !.units = message]
<1>1. CASE fromGdb # <<>>
  <2> DEFINE part == SubSeq(fromGdb, 1, Available)
             m == message \o part
             rest == SubSeq(fromGdb, Available + 1, Len(fromGdb))
  <2>1. Available \in 0..Len(fromGdb)
    BY StreamTypes, AvailableType
  <2>2. part \in Seq(Unit) /\ rest \in Seq(Unit)
    BY <2>1, StreamTypes
  <2>3. (m \o rest) \o unwritten = Stream
    BY <2>1, StreamTypes, MoveToFront, Zenon DEF Stream
  <2>4. m \in Seq(Unit)
    <3> HIDE DEF part
    <3> QED BY <2>2, StreamTypes
  <2>5. /\ fromGdb' = rest
        /\ \/ EndsWithPrompt(m) /\ thread' = after /\ message' = <<>> /\ reply' = [reply EXCEPT !.units = m]
           \/ message' = m /\ UNCHANGED <<thread, reply>>
    BY <1>1 DEF ReadRound, EndOfFile
  <2>6. CASE message' = m /\ UNCHANGED <<thread, reply>>
    BY <2>5, <2>6, ReadKeepsStream
  <2> HIDE DEF m, rest
  <2>7. CASE EndsWithPrompt(m) /\ thread' = after /\ message' = <<>> /\ reply' = [reply EXCEPT !.units = m]
    BY <2>2, <2>3, <2>4, <2>5, <2>7
  <2> QED BY <2>5, <2>6, <2>7
<1>2. CASE EndOfFile /\ thread' = after /\ reply' = [reply EXCEPT !.units = message]
  BY <1>2 DEF EndOfFile
<1> QED BY <1>1, <1>2 DEF ReadRound

---------------------------------------------------------------------------
(* Every step keeps the thread reading its reply.                          *)

LEMMA StreamUntouched ==
  ASSUME ReadsItsReply, UNCHANGED <<message, fromGdb, unwritten, toGdb, gdb, current>>,
         thread' \in Reading => UNCHANGED cmd /\ thread \in Reading /\ (thread' = "welcome" <=> thread = "welcome")
  PROVE  ReadsItsReply'
BY DEF ReadsItsReply, ReplyInStream, Asker, Stream, Complete

(* The steps of gdb and the program.                                       *)
LEMMA GdbReadsStep ==
  ASSUME IInv, TypeOK', PipeInv,
         GdbStarts \/ GdbWrites \/ GdbExecutes \/ ProgramPrints \/ ProgramStops \/ GdbDies
  PROVE  ReadsItsReply'
<1> USE DEF shellVars, flagVars, threadVars, readVars, gdbVars, pipeVars
<1> DEFINE pre == message \o fromGdb
<1>1. /\ UNCHANGED <<thread, cmd, message>>
      /\ Asker' = Asker
  BY DEF GdbStarts, GdbWrites, GdbExecutes, ProgramPrints, ProgramStops, GdbDies, Asker
<1> SUFFICES ASSUME thread \in Reading PROVE ReadsItsReply'
  BY <1>1 DEF ReadsItsReply
<1>2. TypeOK /\ pre \in Seq(Unit) /\ Stream \in Seq(Unit) /\ unwritten \in Seq(Unit)
  BY StreamTypes DEF IInv
<1>3. /\ thread # "welcome" => cmd.kind # "quit" /\ cmd \in Command
      /\ AllOf(Stream, Asker) /\ ReplyInStream
  BY DEF PipeInv, ReadsItsReply, IInv, Handshake, Working, Reading
<1>4. AllOf(pre, Asker) /\ AllOf(message, Asker) /\ AllOf(fromGdb, Asker) /\ AllOf(unwritten, Asker)
  BY <1>2, <1>3, StreamOf, StreamTypes, ConcatOf
<1>5. Asker \in 0..MaxCommands
  BY <1>3, ChannelAssumption DEF Asker, Command
<1>6. SUFFICES AllOf(Stream', Asker) /\ ReplyInStream'
  BY <1>1, <1>3 DEF ReadsItsReply
<1>10. CASE GdbStarts
  <2> DEFINE welcome == U("text", 0) \o Prompt(0)
  <2>1. thread = "welcome" /\ toGdb = <<>> /\ message = <<>> /\ fromGdb = <<>>
    BY <1>2, <1>3, <1>10, EmptyStream DEF GdbStarts, ReplyInStream
  <2>2. U("text", 0) \in Seq(Unit) /\ Unprompted(U("text", 0)) /\ AllOf(U("text", 0), 0)
    BY LineProperties, ChannelAssumption DEF UnitKinds
  <2>3. Prompt(0) \in Seq(Unit) /\ Complete(welcome) /\ AllOf(Prompt(0), 0)
    BY <2>2, PromptTypes, PromptCompletes, ChannelAssumption
  <2>4. AllOf(welcome, 0) /\ welcome \in Seq(Unit)
    BY <2>2, <2>3, ConcatOf
  <2> HIDE DEF welcome
  <2>5. Stream' = welcome
    <3>1. unwritten' = welcome /\ message' = <<>> /\ fromGdb' = <<>>
      BY <1>10, <2>1 DEF GdbStarts, welcome
    <3>2. (<<>> \o <<>>) \o welcome = welcome
      BY <2>4
    <3> QED BY <3>1, <3>2 DEF Stream
  <2>6. gdb' = "prompt" /\ toGdb' = <<>>
    BY <1>10, <2>1 DEF GdbStarts
  <2> QED BY <1>1, <2>1, <2>3, <2>4, <2>5, <2>6 DEF ReplyInStream, Asker, welcome
<1>11. CASE GdbWrites
  <2>1. Stream' = Stream
    BY <1>2, <1>11, WriteKeepsStream
  <2>2. UNCHANGED <<gdb, toGdb, current>>
    BY <1>11 DEF GdbWrites
  <2> QED BY <1>1, <1>3, <2>1, <2>2 DEF ReplyInStream, Complete
<1>12. CASE GdbExecutes
  <2>1. thread # "welcome" /\ toGdb = <<cmd>> /\ Stream = <<>>
    BY <1>3, <1>12 DEF GdbExecutes, ReplyInStream
  <2>2. message = <<>> /\ fromGdb = <<>>
    BY <1>2, <2>1, EmptyStream
  <2>3. /\ toGdb' = <<>> /\ current' = cmd.num
        /\ message' = <<>> /\ fromGdb' = <<>>
        /\ cmd.kind = "continue" => gdb' = "running" /\ unwritten' = U("continuing", cmd.num)
        /\ cmd.kind # "continue" => gdb' = gdb /\ unwritten' = U("text", cmd.num) \o Prompt(cmd.num)
    BY <1>3, <1>12, <2>1, <2>2 DEF GdbExecutes
  <2>4. cmd.num = Asker
    BY <2>1 DEF Asker
  <2>5. unwritten' \in Seq(Unit) /\ Stream' = unwritten'
    <3>1. unwritten' \in Seq(Unit)
      BY DEF TypeOK, DataType
    <3>2. ASSUME NEW u \in Seq(Unit) PROVE (<<>> \o <<>>) \o u = u
      OBVIOUS
    <3> QED BY <2>3, <3>1, <3>2 DEF Stream
  <2>6. CASE cmd.kind = "continue"
    <3>1. U("continuing", cmd.num) \in Seq(Unit) /\ Unprompted(U("continuing", cmd.num)) /\ AllOf(U("continuing", cmd.num), cmd.num)
      BY <1>5, <2>4, LineProperties DEF UnitKinds
    <3> QED BY <1>1, <2>1, <2>3, <2>4, <2>5, <2>6, <3>1 DEF ReplyInStream
  <2>7. CASE cmd.kind # "continue"
    <3>1. U("text", cmd.num) \in Seq(Unit) /\ Unprompted(U("text", cmd.num)) /\ AllOf(U("text", cmd.num), cmd.num)
      BY <1>5, <2>4, LineProperties DEF UnitKinds
    <3>2. /\ Prompt(cmd.num) \in Seq(Unit) /\ AllOf(Prompt(cmd.num), cmd.num)
          /\ Complete(U("text", cmd.num) \o Prompt(cmd.num))
      BY <1>5, <2>4, <3>1, PromptTypes, PromptCompletes
    <3>3. AllOf(U("text", cmd.num) \o Prompt(cmd.num), cmd.num)
      BY <3>1, <3>2, ConcatOf
    <3>4. gdb' = "prompt"
      BY <1>12, <2>3, <2>7 DEF GdbExecutes
    <3> QED BY <1>1, <2>1, <2>3, <2>4, <2>5, <2>7, <3>2, <3>3, <3>4 DEF ReplyInStream, Complete
  <2> QED BY <2>6, <2>7
<1>13. CASE ProgramPrints
  <2>1. /\ thread # "welcome" /\ toGdb = <<>> /\ current = cmd.num /\ Unprompted(Stream)
        /\ gdb' = "running" /\ UNCHANGED <<toGdb, current, fromGdb>>
        /\ unwritten' = U("console", current) /\ cmd.num = Asker
    BY <1>3, <1>13 DEF ProgramPrints, ReplyInStream, Asker
  <2>2. U("console", Asker) \in Seq(Unit) /\ Unprompted(U("console", Asker)) /\ AllOf(U("console", Asker), Asker)
    BY <1>5, LineProperties DEF UnitKinds
  <2>3. Stream' = pre \o U("console", Asker)
    BY <1>1, <2>1 DEF Stream
  <2>4. Unprompted(pre)
    BY <1>2, <2>1, StreamUnprompted
  <2> HIDE DEF pre
  <2>5. AllOf(pre \o U("console", Asker), Asker) /\ Unprompted(pre \o U("console", Asker))
    BY <1>2, <1>4, <2>2, <2>4, ConcatOf, ConcatUnprompted
  <2> QED BY <1>1, <2>1, <2>3, <2>5 DEF ReplyInStream
<1>14. CASE ProgramStops
  <2>1. /\ thread # "welcome" /\ toGdb = <<>> /\ current = cmd.num /\ Unprompted(Stream)
        /\ gdb' = "prompt" /\ UNCHANGED <<toGdb, current, fromGdb>> /\ cmd.num = Asker
    BY <1>3, <1>14 DEF ProgramStops, ReplyInStream, Asker
  <2>2. Unprompted(pre)
    BY <1>2, <2>1, StreamUnprompted
  <2>3. \E lines \in Seq(Unit) :
          unwritten' = lines \o Prompt(Asker) /\ Unprompted(lines) /\ AllOf(lines, Asker)
    <3>1. PICK tail \in {<<>>, U("partial", current)} :
            \/ unwritten' = tail \o Report("exit", current) \o Prompt(current)
            \/ \E why \in {"breakpoint", "signal"} :
                 unwritten' = tail \o Report(why, current) \o U("source", current) \o Prompt(current)
      BY <1>14 DEF ProgramStops
    <3>2. ASSUME NEW kind \in UnitKinds, kind # "prompt2"
          PROVE  U(kind, Asker) \in Seq(Unit) /\ Unprompted(U(kind, Asker)) /\ AllOf(U(kind, Asker), Asker)
      BY <1>5, <3>2, LineProperties
    <3>3. tail \in Seq(Unit) /\ Unprompted(tail) /\ AllOf(tail, Asker)
      BY <2>1, <3>2, EmptyProperties, EmptyType DEF UnitKinds
    <3>4. ASSUME NEW kind \in UnitKinds, kind # "prompt2"
          PROVE  /\ tail \o Report(kind, Asker) \in Seq(Unit)
                 /\ Unprompted(tail \o Report(kind, Asker))
                 /\ AllOf(tail \o Report(kind, Asker), Asker)
      <4>1. /\ U(kind, Asker) \in Seq(Unit) /\ Unprompted(U(kind, Asker)) /\ AllOf(U(kind, Asker), Asker)
            /\ U("rest", Asker) \in Seq(Unit) /\ Unprompted(U("rest", Asker)) /\ AllOf(U("rest", Asker), Asker)
        BY <3>2, <3>4 DEF UnitKinds
      <4>2. /\ Report(kind, Asker) \in Seq(Unit) /\ Unprompted(Report(kind, Asker))
            /\ AllOf(Report(kind, Asker), Asker)
        BY <4>1, ConcatOf, ConcatUnprompted DEF Report
      <4> QED BY <3>3, <4>2, ConcatOf, ConcatUnprompted
    <3>5. CASE unwritten' = tail \o Report("exit", current) \o Prompt(current)
      <4>1. /\ tail \o Report("exit", Asker) \in Seq(Unit) /\ Unprompted(tail \o Report("exit", Asker))
            /\ AllOf(tail \o Report("exit", Asker), Asker)
        BY <3>4 DEF UnitKinds
      <4> QED BY <2>1, <3>5, <4>1
    <3>6. ASSUME NEW why \in {"breakpoint", "signal"},
                 unwritten' = tail \o Report(why, current) \o U("source", current) \o Prompt(current)
          PROVE  \E lines \in Seq(Unit) :
                   unwritten' = lines \o Prompt(Asker) /\ Unprompted(lines) /\ AllOf(lines, Asker)
      <4>1. /\ tail \o Report(why, Asker) \in Seq(Unit) /\ Unprompted(tail \o Report(why, Asker))
            /\ AllOf(tail \o Report(why, Asker), Asker)
        BY <3>4 DEF UnitKinds
      <4>2. U("source", Asker) \in Seq(Unit) /\ Unprompted(U("source", Asker)) /\ AllOf(U("source", Asker), Asker)
        BY <3>2 DEF UnitKinds
      <4> DEFINE lines == (tail \o Report(why, Asker)) \o U("source", Asker)
      <4>3. lines \in Seq(Unit) /\ Unprompted(lines) /\ AllOf(lines, Asker)
        <5>1. ASSUME NEW x \in Seq(Unit), NEW y \in Seq(Unit),
                     Unprompted(x), AllOf(x, Asker), Unprompted(y), AllOf(y, Asker)
              PROVE  x \o y \in Seq(Unit) /\ Unprompted(x \o y) /\ AllOf(x \o y, Asker)
          BY <5>1, ConcatOf, ConcatUnprompted
        <5> QED BY <4>1, <4>2, <5>1, Zenon
      <4>4. unwritten' = lines \o Prompt(Asker)
        BY <2>1, <3>6
      <4> HIDE DEF lines
      <4> QED BY <4>3, <4>4
    <3> QED BY <3>1, <3>5, <3>6
  <2>4. PICK lines \in Seq(Unit) :
          unwritten' = lines \o Prompt(Asker) /\ Unprompted(lines) /\ AllOf(lines, Asker)
    BY <2>3
  <2>5. Prompt(Asker) \in Seq(Unit) /\ AllOf(Prompt(Asker), Asker)
    BY <1>5, PromptTypes, PromptCompletes, EmptyProperties, EmptyType
  <2>6. Stream' = pre \o (lines \o Prompt(Asker))
    BY <1>1, <2>1, <2>4 DEF Stream
  <2> HIDE DEF pre
  <2>7. (pre \o lines) \o Prompt(Asker) = pre \o (lines \o Prompt(Asker))
    <3>1. lines \in Seq(Unit)
      OBVIOUS
    <3> QED BY <1>2, <2>5, <3>1, Concat3, Zenon
  <2>8. pre \o lines \in Seq(Unit) /\ Unprompted(pre \o lines) /\ AllOf(pre \o lines, Asker)
    BY <1>2, <1>4, <2>2, <2>4, ConcatOf, ConcatUnprompted
  <2>9. Complete((pre \o lines) \o Prompt(Asker)) /\ AllOf((pre \o lines) \o Prompt(Asker), Asker)
    BY <1>5, <2>5, <2>8, PromptCompletes, ConcatOf
  <2> QED BY <1>1, <2>1, <2>6, <2>7, <2>9 DEF ReplyInStream, Complete
<1>15. CASE GdbDies
  <2>1. gdb' = "dead" /\ unwritten' = <<>> /\ UNCHANGED fromGdb
    BY <1>15 DEF GdbDies
  <2>2. AllOf(message', Asker) /\ AllOf(fromGdb', Asker) /\ AllOf(unwritten', Asker)
    BY <1>1, <1>4, <2>1, EmptyProperties
  <2>3. ASSUME NEW m \in Seq(Unit), NEW f \in Seq(Unit), AllOf(m, Asker), AllOf(f, Asker)
        PROVE  AllOf((m \o f) \o <<>>, Asker)
    BY <2>3, ConcatOf, EmptyType, EmptyProperties
  <2>4. AllOf(Stream', Asker)
    BY <1>1, <1>2, <1>4, <2>1, <2>3, StreamTypes DEF Stream
  <2> QED BY <2>1, <2>4 DEF ReplyInStream
<1> QED BY <1>10, <1>11, <1>12, <1>13, <1>14, <1>15

LEMMA ReadsStep ==
  ASSUME IInv, TypeOK', PipeInv, [Next]_vars
  PROVE  ReadsItsReply'
<1> USE DEF shellVars, flagVars, threadVars, readVars, gdbVars, pipeVars
<1>t. TypeOK /\ ReadsItsReply
  BY DEF IInv, PipeInv
<1>1. ASSUME NEW k \in Kinds, ExecuteCommand(k) PROVE ReadsItsReply'
  BY <1>t, <1>1, StreamUntouched DEF ExecuteCommand
<1>2. CASE PostCommand
  BY <1>t, <1>2, StreamUntouched DEF PostCommand, Reading
<1>3. CASE AwaitReply
  BY <1>t, <1>3, StreamUntouched DEF AwaitReply
<1>4. CASE SpuriousWakeup
  BY <1>t, <1>4, StreamUntouched DEF SpuriousWakeup, Reading
<1>5. CASE ReadWelcome \/ Read
  <2>1. PICK after \in {"test", "reply"} :
          ReadRound(after) /\ unwritten' = unwritten /\ UNCHANGED <<cmd, toGdb, gdb, current>>
    BY <1>5 DEF ReadWelcome, Read
  <2>2. CASE thread' = after
    BY <2>2 DEF ReadsItsReply, Reading
  <2>3. CASE thread' = thread /\ Stream' = Stream
    BY <1>t, <2>1, <2>3 DEF ReadsItsReply, ReplyInStream, Asker, Complete
  <2> QED BY <1>t, <2>1, <2>2, <2>3, ReadRoundCases
<1>6. CASE AwaitCommand
  BY <1>6 DEF AwaitCommand, ReadsItsReply, Reading
<1>7. CASE LockReply
  BY <1>7 DEF LockReply, ReadsItsReply, Reading
<1>8. CASE WriteCommand
  <2> SUFFICES ASSUME thread' \in Reading PROVE ReadsItsReply'
    BY DEF ReadsItsReply
  <2>1. /\ cmd.kind # "quit" /\ thread' # "welcome" /\ cmd' = cmd
        /\ gdb # "dead" /\ thread = "write" /\ toGdb' = Append(toGdb, cmd)
        /\ UNCHANGED <<message, fromGdb, unwritten, gdb, current>>
    BY <1>8 DEF WriteCommand, Reading
  <2>2. /\ gdb = "prompt" /\ toGdb = <<>>
        /\ message = <<>> /\ fromGdb = <<>> /\ unwritten = <<>>
    BY <2>1 DEF PipeInv, QuietBetween, QuietNow
  <2>3. Stream' = <<>>
    BY <2>1, <2>2 DEF Stream
  <2> QED BY <2>1, <2>2, <2>3, EmptyProperties DEF ReadsItsReply, ReplyInStream
<1>9. CASE WriteFails \/ ReadFails
  BY <1>9 DEF WriteFails, ReadFails, ReadsItsReply, Reading
<1>11. CASE ReadContinueReply
  <2>1. Stream' = Stream
    BY <1>t, <1>11, ReadKeepsStream DEF ReadContinueReply
  <2> QED BY <1>t, <1>11, <2>1 DEF ReadContinueReply, ReadsItsReply, ReplyInStream, Asker, Reading, Complete
<1>12. CASE ReadNothing
  BY <1>t, <1>12, StreamUntouched DEF ReadNothing, vars
<1>13. CASE ScanLine
  BY <1>t, <1>13, StreamUntouched DEF ScanLine
<1>14. CASE EndOfChunk
  <2>1. CASE replyState = "prompt"
    BY <1>14, <2>1 DEF EndOfChunk, ReadsItsReply, Reading
  <2>2. CASE replyState # "prompt"
    BY <1>t, <1>14, <2>2, StreamUntouched DEF EndOfChunk, Reading
  <2> QED BY <2>1, <2>2
<1>15. CASE SetReply \/ UnlockReply \/ UnlockCommand
  BY <1>15 DEF SetReply, UnlockReply, UnlockCommand, ReadsItsReply, Reading
<1>18. CASE GdbStarts \/ GdbWrites \/ GdbExecutes \/ ProgramPrints \/ ProgramStops \/ GdbDies
  BY <1>18, GdbReadsStep
<1>24. CASE UNCHANGED vars
  BY <1>t, <1>24, StreamUntouched DEF vars
<1> QED
  BY <1>1, <1>2, <1>3, <1>4, <1>5, <1>6, <1>7, <1>8, <1>9, <1>11, <1>12, <1>13, <1>14, <1>15, <1>18, <1>24
     DEF Next, ShellStep, ThreadStep, GdbStep, Ended

(* Every step leaves the pipes empty between two replies.                  *)
LEMMA QuietStep ==
  ASSUME IInv, PipeInv, [Next]_vars
  PROVE  QuietBetween'
<1> USE DEF shellVars, flagVars, threadVars, readVars, gdbVars, pipeVars
<1>t. TypeOK /\ ReadsItsReply /\ QuietBetween
  BY DEF IInv, PipeInv
<1>0. ASSUME UNCHANGED <<message, fromGdb, unwritten, toGdb, gdb>>, QuietNow' => QuietNow
      PROVE  QuietBetween'
  BY <1>t, <1>0 DEF QuietBetween
<1>1. ASSUME NEW k \in Kinds, ExecuteCommand(k) PROVE QuietBetween'
  BY <1>0, <1>1 DEF ExecuteCommand, QuietNow
<1>2. CASE PostCommand
  BY <1>0, <1>2 DEF PostCommand, QuietNow
<1>3. CASE AwaitReply
  BY <1>0, <1>3 DEF AwaitReply, QuietNow
<1>4. CASE SpuriousWakeup
  BY <1>0, <1>4 DEF SpuriousWakeup, QuietNow
<1>5. CASE ReadWelcome \/ Read
  <2>1. PICK after \in {"test", "reply"} :
          ReadRound(after) /\ unwritten' = unwritten /\ UNCHANGED <<toGdb, gdb>>
    BY <1>5 DEF ReadWelcome, Read
  <2>2. thread \in Reading /\ ~(thread \in {"test", "asleep", "lock", "write", "reply", "unlock", "unlockCommand"})
    BY <1>5 DEF ReadWelcome, Read, Reading
  <2>3. CASE thread' = thread
    BY <2>2, <2>3 DEF QuietBetween, QuietNow
  <2>4. CASE gdb = "dead"
    BY <2>1, <2>4 DEF QuietBetween
  <2>5. ASSUME gdb # "dead", NEW m \in Seq(Unit), NEW rest \in Seq(Unit), EndsWithPrompt(m),
               Stream = (m \o rest) \o unwritten, message' = <<>>, fromGdb' = rest
        PROVE  QuietBetween'
    <3>1. gdb = "prompt" /\ toGdb = <<>> /\ rest = <<>> /\ unwritten = <<>>
      BY <1>t, <2>2, <2>5, WholeReply
    <3> QED BY <2>1, <2>5, <3>1 DEF QuietBetween
  <2> QED BY <1>t, <2>1, <2>3, <2>4, <2>5, ReadRoundCases
<1>6. CASE AwaitCommand
  BY <1>0, <1>6 DEF AwaitCommand, QuietNow
<1>7. CASE LockReply
  BY <1>0, <1>7 DEF LockReply, QuietNow
<1>8. CASE WriteCommand
  <2>1. cmd.kind \in Kinds
    BY <1>8, WorkingIsForCommand DEF WriteCommand, Working, Command
  <2> QED BY <1>8, <2>1 DEF WriteCommand, QuietBetween, QuietNow, Kinds
<1>9. CASE WriteFails \/ ReadFails
  BY <1>9 DEF WriteFails, ReadFails, QuietBetween, QuietNow
<1>11. CASE ReadContinueReply
  BY <1>11 DEF ReadContinueReply, QuietBetween, QuietNow
<1>12. CASE ReadNothing
  BY <1>0, <1>12 DEF ReadNothing, vars, QuietNow
<1>13. CASE ScanLine
  BY <1>0, <1>13 DEF ScanLine, QuietNow
<1>14. CASE EndOfChunk
  <2>1. CASE replyState = "prompt" /\ gdb # "dead"
    <3>1. EndsWithPrompt(message) /\ thread \in Reading
      BY <1>14, <2>1 DEF EndOfChunk, PipeInv, Scanned, Reading
    <3>2. gdb = "prompt" /\ toGdb = <<>> /\ fromGdb = <<>> /\ unwritten = <<>>
      <4>1. Stream = (message \o fromGdb) \o unwritten
        BY DEF Stream
      <4> QED BY <1>t, <2>1, <3>1, <4>1, WholeReply, StreamTypes
    <3> QED BY <1>14, <2>1, <3>2 DEF EndOfChunk, QuietBetween
  <2>2. CASE ~(replyState = "prompt" /\ gdb # "dead")
    BY <1>14, <2>2 DEF EndOfChunk, QuietBetween, QuietNow
  <2> QED BY <2>1, <2>2
<1>15. CASE SetReply
  BY <1>0, <1>15 DEF SetReply, QuietNow
<1>16. CASE UnlockReply
  BY <1>0, <1>16 DEF UnlockReply, QuietNow
<1>17. CASE UnlockCommand
  BY <1>0, <1>17 DEF UnlockCommand, QuietNow
<1>18. CASE GdbStarts
  BY <1>t, <1>18 DEF GdbStarts, QuietBetween, QuietNow
<1>19. CASE GdbWrites
  BY <1>t, <1>19 DEF GdbWrites, QuietBetween, QuietNow
<1>20. CASE GdbExecutes
  BY <1>t, <1>20 DEF GdbExecutes, QuietBetween, QuietNow
<1>21. CASE ProgramPrints
  BY <1>t, <1>21 DEF ProgramPrints, QuietBetween, QuietNow
<1>22. CASE ProgramStops
  BY <1>t, <1>22 DEF ProgramStops, QuietBetween, QuietNow
<1>23. CASE GdbDies
  BY <1>23 DEF GdbDies, QuietBetween
<1>24. CASE UNCHANGED vars
  BY <1>0, <1>24 DEF vars, QuietNow
<1> QED
  BY <1>1, <1>2, <1>3, <1>4, <1>5, <1>6, <1>7, <1>8, <1>9, <1>11, <1>12, <1>13, <1>14, <1>15,
     <1>16, <1>17, <1>18, <1>19, <1>20, <1>21, <1>22, <1>23, <1>24
     DEF Next, ShellStep, ThreadStep, GdbStep, Ended

---------------------------------------------------------------------------
(* The scan of a chunk sees the prompt only at the end of the message.     *)

LEMMA TailOfConcat ==
  ASSUME NEW s \in Seq(Unit), NEW t \in Seq(Unit)
  PROVE  /\ Len(t) <= Len(s \o t)
         /\ \A i \in DOMAIN t : t[i] = (s \o t)[Len(s \o t) - Len(t) + i]
<1>1. Len(s \o t) = Len(s) + Len(t) /\ Len(s) \in Nat /\ Len(t) \in Nat
  OBVIOUS
<1>2. ASSUME NEW i \in 1..Len(t) PROVE t[i] = (s \o t)[Len(s) + i]
  BY <1>1, ConcatProperties
<1>3. Len(s \o t) - Len(t) = Len(s)
  BY <1>1
<1> QED BY <1>1, <1>2, <1>3

LEMMA TailOfTail ==
  ASSUME NEW s \in Seq(Unit), NEW t \in Seq(Unit), NEW n \in 0..Len(t),
         Len(t) <= Len(s), \A i \in DOMAIN t : t[i] = s[Len(s) - Len(t) + i]
  PROVE  LET u == SubSeq(t, n + 1, Len(t)) IN
           /\ Len(u) <= Len(s)
           /\ \A i \in DOMAIN u : u[i] = s[Len(s) - Len(u) + i]
<1> DEFINE u == SubSeq(t, n + 1, Len(t))
<1>1. Len(u) = Len(t) - n /\ Len(s) \in Nat /\ Len(t) \in Nat /\ u \in Seq(Unit)
  OBVIOUS
<1>2. ASSUME NEW i \in 1..Len(t) - n PROVE u[i] = s[Len(s) - Len(u) + i]
  <2>1. u[i] = t[n + i]
    BY <1>1
  <2>2. n + i \in DOMAIN t
    BY <1>1
  <2>3. Len(s) - Len(t) + (n + i) = Len(s) - Len(u) + i
    <3> HIDE DEF u
    <3>1. ASSUME NEW ls \in Nat, NEW lt \in Nat, NEW lu, lu = lt - n
          PROVE  ls - lt + (n + i) = ls - lu + i
      BY <3>1
    <3> QED BY <1>1, <3>1
  <2> HIDE DEF u
  <2> QED BY <2>1, <2>2, <2>3
<1> QED BY <1>1, <1>2

LEMMA LineLengthType ==
  ASSUME NEW c \in Seq(Unit), c # <<>>
  PROVE  /\ LineLength(c) \in 1..3 /\ LineLength(c) <= Len(c)
         /\ "prompt" \in LineKinds(c) =>
              Len(c) >= 2 /\ c[1].kind = "prompt1" /\ c[2].kind = "prompt2"
<1>1. Len(c) \in Nat /\ Len(c) > 0
  OBVIOUS
<1>2. LineLength(c) \in 1..3 /\ LineLength(c) <= Len(c)
  BY <1>1 DEF LineLength
<1>3. ASSUME "prompt" \in LineKinds(c) PROVE c[1].kind = "prompt1" /\ LineLength(c) = 2
  <2>1. CASE c[1].kind = "prompt1" /\ LineLength(c) = 2
    BY <2>1
  <2>2. CASE c[1].kind \in Reports
    BY <1>1, <1>3, <2>2 DEF LineKinds, Reports
  <2>3. CASE c[1].kind \notin Reports /\ ~(c[1].kind = "prompt1" /\ LineLength(c) = 2)
    BY <1>3, <2>3 DEF LineKinds
  <2> QED BY <2>1, <2>2, <2>3
<1>4. ASSUME c[1].kind = "prompt1", LineLength(c) = 2 PROVE Len(c) >= 2 /\ c[2].kind = "prompt2"
  BY <1>1, <1>4 DEF LineLength, Reports
<1> QED BY <1>2, <1>3, <1>4

(* A prompt in the message of a gdb that lives is its end.                 *)
LEMMA PromptInMessage ==
  ASSUME TypeOK, ReadsItsReply, thread \in Reading, gdb # "dead",
         NEW i \in DOMAIN message, message[i].kind = "prompt2"
  PROVE  i = Len(message)
<1>1. /\ Len(message) \in Nat /\ DOMAIN message = 1..Len(message)
      /\ fromGdb \o unwritten \in Seq(Unit) /\ message \in Seq(Unit)
  BY StreamTypes
<1>2. Stream = message \o (fromGdb \o unwritten)
  <2>1. message \in Seq(Unit) /\ fromGdb \in Seq(Unit) /\ unwritten \in Seq(Unit)
    BY StreamTypes
  <2>2. (message \o fromGdb) \o unwritten = message \o (fromGdb \o unwritten)
    BY <2>1, Concat3, Zenon
  <2> QED BY <2>2 DEF Stream
<1> DEFINE rest == fromGdb \o unwritten
<1> HIDE DEF rest
<1>3. /\ Len(Stream) = Len(message) + Len(rest) /\ Len(rest) \in Nat
      /\ Stream[i] = message[i] /\ i \in DOMAIN Stream
  <2>1. ASSUME NEW s \in Seq(Unit), NEW t \in Seq(Unit), NEW j \in 1..Len(s)
        PROVE  Len(s \o t) = Len(s) + Len(t) /\ Len(t) \in Nat /\ (s \o t)[j] = s[j] /\ j \in DOMAIN (s \o t)
    OBVIOUS
  <2>2. rest \in Seq(Unit) /\ Stream = message \o rest
    BY <1>1, <1>2 DEF rest
  <2> QED BY <1>1, <2>1, <2>2
<1>4. ~Unprompted(Stream) /\ Stream # <<>>
  BY <1>3 DEF Unprompted
<1>5. Complete(Stream)
  BY <1>4 DEF ReadsItsReply, ReplyInStream, TypeOK, ControlType
<1>6. i = Len(Stream)
  BY <1>3, <1>5 DEF Complete
<1>7. i \in 1..Len(message)
  BY <1>1
<1>8. ASSUME NEW x \in Nat, NEW y \in Nat, NEW j \in 1..x, j = x + y PROVE j = x
  BY <1>8
<1>9. i = Len(message) + Len(rest)
  BY <1>3, <1>6
<1>10. Len(message) \in Nat /\ Len(rest) \in Nat
  BY <1>1, <1>3
<1> QED BY <1>7, <1>8, <1>9, <1>10, Zenon

LEMMA ScannedStep ==
  ASSUME IInv, PipeInv, [Next]_vars
  PROVE  Scanned'
<1> USE DEF shellVars, flagVars, threadVars, readVars, gdbVars, pipeVars
<1>t. TypeOK /\ ReadsItsReply /\ Scanned
  BY DEF IInv, PipeInv
<1>a. ASSUME UNCHANGED <<message, chunk, replyState, thread>>, gdb' # "dead" => gdb # "dead"
      PROVE  Scanned'
  BY <1>t, <1>a DEF Scanned, EndsWithPrompt
<1>b. ASSUME thread' \notin {"readContinue", "scan"}
      PROVE  Scanned'
  BY <1>b DEF Scanned
<1>1. ASSUME NEW k \in Kinds, ExecuteCommand(k) PROVE Scanned'
  BY <1>a, <1>1 DEF ExecuteCommand
<1>2. CASE PostCommand
  BY <1>a, <1>b, <1>2 DEF PostCommand
<1>3. CASE AwaitReply
  BY <1>a, <1>3 DEF AwaitReply
<1>4. CASE SpuriousWakeup
  BY <1>a, <1>b, <1>4 DEF SpuriousWakeup
<1>5. CASE ReadWelcome \/ Read
  BY <1>b, <1>5 DEF ReadWelcome, Read, ReadRound
<1>6. CASE AwaitCommand
  BY <1>b, <1>6 DEF AwaitCommand
<1>7. CASE LockReply
  BY <1>b, <1>7 DEF LockReply
<1>8. CASE WriteCommand
  BY <1>8 DEF WriteCommand, Scanned
<1>9. CASE WriteFails \/ ReadFails
  BY <1>b, <1>9 DEF WriteFails, ReadFails
<1>11. CASE ReadContinueReply
  <2>1. /\ thread' = "scan" /\ message' = message \o chunk' /\ replyState' # "prompt"
        /\ chunk' = SubSeq(fromGdb, 1, Available)
    BY <1>t, <1>11 DEF ReadContinueReply, Scanned
  <2>2. chunk' \in Seq(Unit) /\ message \in Seq(Unit)
    BY <1>t, <2>1, StreamTypes, AvailableType
  <2>3. ASSUME NEW t \in Seq(Unit)
        PROVE  /\ Len(t) <= Len(message \o t)
               /\ \A i \in DOMAIN t : t[i] = (message \o t)[Len(message \o t) - Len(t) + i]
    BY <2>2, TailOfConcat
  <2>4. /\ Len(chunk') <= Len(message')
        /\ \A i \in DOMAIN chunk' : chunk'[i] = message'[Len(message') - Len(chunk') + i]
    BY <2>1, <2>2, <2>3, Zenon
  <2> QED BY <2>1, <2>4 DEF Scanned
<1>12. CASE ReadNothing
  BY <1>a, <1>12 DEF ReadNothing, vars
<1>13. CASE ScanLine
  <2>1. /\ chunk \in Seq(Unit) /\ message \in Seq(Unit) /\ chunk # <<>>
        /\ thread = "scan" /\ thread' = "scan" /\ message' = message /\ gdb' = gdb
        /\ chunk' = SubSeq(chunk, LineLength(chunk) + 1, Len(chunk))
        /\ \E kind \in LineKinds(chunk) : replyState' = NextReplyState(kind)
    BY <1>t, <1>13 DEF ScanLine, TypeOK, DataType
  <2>2. /\ Len(chunk) <= Len(message)
        /\ \A i \in DOMAIN chunk : chunk[i] = message[Len(message) - Len(chunk) + i]
        /\ replyState = "prompt" /\ gdb # "dead" => EndsWithPrompt(message)
    BY <1>t, <2>1 DEF Scanned
  <2>3. LineLength(chunk) \in 0..Len(chunk)
    BY <2>1, LineLengthType
  <2>4. /\ Len(chunk') <= Len(message)
        /\ \A i \in DOMAIN chunk' : chunk'[i] = message[Len(message) - Len(chunk') + i]
    BY <2>1, <2>2, <2>3, TailOfTail
  <2>5. ASSUME replyState' = "prompt", gdb # "dead" PROVE EndsWithPrompt(message)
    <3>1. CASE replyState = "prompt"
      BY <2>2, <2>5, <3>1
    <3>2. CASE replyState = "start" /\ "prompt" \in LineKinds(chunk)
      <4>1. Len(chunk) >= 2 /\ chunk[1].kind = "prompt1" /\ chunk[2].kind = "prompt2"
        BY <2>1, <3>2, LineLengthType
      <4> DEFINE p == Len(message) - Len(chunk) + 1
      <4>2. /\ Len(message) \in Nat /\ Len(chunk) \in Nat
            /\ 1 \in DOMAIN chunk /\ 2 \in DOMAIN chunk
            /\ p \in DOMAIN message /\ p + 1 \in DOMAIN message
        BY <2>1, <2>2, <4>1
      <4>3. message[p].kind = "prompt1" /\ message[p + 1].kind = "prompt2"
        <5>1. Len(message) - Len(chunk) + 2 = p + 1
          BY <4>2
        <5> QED BY <2>2, <4>1, <4>2, <5>1
      <4>4. p + 1 = Len(message)
        <5> HIDE DEF p
        <5>1. thread \in Reading
          BY <2>1 DEF Reading
        <5> QED BY <1>t, <2>5, <4>2, <4>3, <5>1, PromptInMessage
      <4>5. Len(message) >= 2 /\ Len(message) - 1 = p
        BY <2>1, <2>2, <4>1, <4>2, <4>4
      <4> HIDE DEF p
      <4> QED BY <4>3, <4>4, <4>5 DEF EndsWithPrompt
    <3> QED BY <2>1, <2>5, <3>1, <3>2 DEF NextReplyState
  <2> QED BY <2>1, <2>4, <2>5 DEF Scanned, EndsWithPrompt
<1>14. CASE EndOfChunk
  <2>1. CASE replyState = "prompt"
    BY <1>b, <1>14, <2>1 DEF EndOfChunk
  <2>2. CASE replyState # "prompt"
    BY <1>14, <2>2 DEF EndOfChunk, Scanned
  <2> QED BY <2>1, <2>2
<1>15. CASE SetReply \/ UnlockReply \/ UnlockCommand
  BY <1>b, <1>15 DEF SetReply, UnlockReply, UnlockCommand
<1>18. CASE GdbStarts \/ GdbWrites \/ GdbExecutes \/ ProgramPrints \/ ProgramStops \/ GdbDies
  BY <1>a, <1>18 DEF GdbStarts, GdbWrites, GdbExecutes, ProgramPrints, ProgramStops, GdbDies
<1>24. CASE UNCHANGED vars
  BY <1>a, <1>24 DEF vars
<1> QED
  BY <1>1, <1>2, <1>3, <1>4, <1>5, <1>6, <1>7, <1>8, <1>9, <1>11, <1>12, <1>13, <1>14, <1>15, <1>18, <1>24
     DEF Next, ShellStep, ThreadStep, GdbStep, Ended

(* Every step leaves a reply that is ready the reply to the command.       *)
LEMMA AnsweredStep ==
  ASSUME IInv, PipeInv, [Next]_vars
  PROVE  Answered'
<1> USE DEF shellVars, flagVars, threadVars, readVars, gdbVars, pipeVars
<1>t. TypeOK /\ ReadsItsReply /\ Answered
  BY DEF IInv, PipeInv
<1>a. ASSUME UNCHANGED <<reply, command>>, gdb' # "dead" => gdb # "dead",
             thread' = "reply" \/ hasReply' => thread = "reply" \/ hasReply
      PROVE  Answered'
  BY <1>t, <1>a DEF Answered, GoodReply, AllOf, EndsWithPrompt
<1>b. ASSUME thread' # "reply", ~hasReply' PROVE Answered'
  BY <1>b DEF Answered
<1>1. ASSUME NEW k \in Kinds, ExecuteCommand(k) PROVE Answered'
  BY <1>b, <1>1 DEF ExecuteCommand, IInv, TypeOK, ControlType, Handshake, Resting
<1>2. CASE PostCommand
  BY <1>a, <1>2 DEF PostCommand
<1>3. CASE AwaitReply
  <2>1. CASE hasReply
    BY <1>a, <1>3, <2>1 DEF AwaitReply
  <2>2. CASE ~hasReply
    BY <1>a, <1>3, <2>2 DEF AwaitReply
  <2> QED BY <2>1, <2>2
<1>4. CASE SpuriousWakeup
  BY <1>a, <1>4 DEF SpuriousWakeup
<1>5. CASE ReadWelcome
  BY <1>b, <1>5, NoReplyAtWelcome DEF ReadWelcome, ReadRound
<1>10. CASE Read
  <2>1. /\ ReadRound("reply") /\ unwritten' = unwritten /\ UNCHANGED <<command, hasReply, gdb>>
        /\ thread = "read" /\ thread \in Reading /\ Asker = command.num
    BY <1>10, WorkingIsForCommand DEF Read, Reading, Working, Asker
  <2>2. ~hasReply
    BY <2>1, WorkingIsForCommand DEF Working
  <2>3. CASE thread' = thread
    BY <1>b, <2>1, <2>2, <2>3
  <2>4. AllOf(Stream, command.num)
    BY <1>t, <2>1 DEF ReadsItsReply
  <2>5. ASSUME NEW m \in Seq(Unit), NEW rest \in Seq(Unit), EndsWithPrompt(m),
               Stream = (m \o rest) \o unwritten, reply' = [reply EXCEPT !.units = m]
        PROVE  Answered'
    <3>1. m \o rest \in Seq(Unit) /\ unwritten \in Seq(Unit)
      BY <1>t, StreamTypes
    <3>2. AllOf(m \o rest, command.num)
      BY <2>4, <2>5, <3>1, ConcatOf
    <3>3. AllOf(m, command.num)
      BY <3>2, ConcatOf
    <3>4. reply'.units = m
      BY <1>t, <2>5 DEF TypeOK, DataType
    <3> QED BY <2>1, <2>5, <3>3, <3>4 DEF Answered, GoodReply, AllOf, EndsWithPrompt
  <2>6. ASSUME gdb = "dead", reply' = [reply EXCEPT !.units = message] PROVE Answered'
    <3>1. AllOf(message, command.num)
      BY <1>t, <2>4, StreamOf
    <3>2. reply'.units = message
      BY <1>t, <2>6 DEF TypeOK, DataType
    <3> QED BY <2>1, <2>6, <3>1, <3>2 DEF Answered, GoodReply, AllOf
  <2> QED BY <1>t, <2>1, <2>3, <2>5, <2>6, ReadRoundCases
<1>6. CASE AwaitCommand
  BY <1>a, <1>6 DEF AwaitCommand
<1>7. CASE LockReply
  BY <1>a, <1>7 DEF LockReply
<1>8. CASE WriteCommand
  <2>1. /\ cmd = command /\ cmd.kind \in Kinds /\ ~hasReply
        /\ UNCHANGED <<command, hasReply>> /\ reply'.units = <<>>
    BY <1>8, WorkingIsForCommand DEF WriteCommand, Working, Command
  <2>2. CASE cmd.kind = "quit"
    BY <2>1, <2>2, EmptyProperties DEF Answered, GoodReply, AllOf
  <2>3. CASE cmd.kind # "quit"
    BY <1>b, <1>8, <2>1, <2>3 DEF WriteCommand, Kinds
  <2> QED BY <2>2, <2>3
<1>9. CASE WriteFails \/ ReadFails
  BY <1>a, <1>9 DEF WriteFails, ReadFails
<1>11. CASE ReadContinueReply
  BY <1>a, <1>11 DEF ReadContinueReply
<1>12. CASE ReadNothing
  BY <1>a, <1>12 DEF ReadNothing, vars
<1>13. CASE ScanLine
  BY <1>a, <1>13 DEF ScanLine
<1>14. CASE EndOfChunk
  <2>1. CASE replyState = "prompt"
    <3>1. /\ thread = "scan" /\ thread \in Reading /\ Asker = command.num
          /\ reply'.units = message /\ UNCHANGED <<command, hasReply, gdb>>
      BY <1>14, <2>1, WorkingIsForCommand DEF EndOfChunk, Reading, Working, Asker
    <3>2. AllOf(message, command.num)
      BY <1>t, <3>1, StreamOf DEF ReadsItsReply
    <3>3. gdb # "dead" => EndsWithPrompt(message)
      BY <2>1, <3>1 DEF PipeInv, Scanned
    <3> QED BY <3>1, <3>2, <3>3 DEF Answered, GoodReply, AllOf, EndsWithPrompt
  <2>2. CASE replyState # "prompt"
    BY <1>a, <1>14, <2>2 DEF EndOfChunk
  <2> QED BY <2>1, <2>2
<1>15. CASE SetReply
  BY <1>a, <1>15 DEF SetReply
<1>16. CASE UnlockReply \/ UnlockCommand
  BY <1>a, <1>16 DEF UnlockReply, UnlockCommand
<1>18. CASE GdbStarts \/ GdbWrites \/ GdbExecutes \/ ProgramPrints \/ ProgramStops \/ GdbDies
  BY <1>a, <1>18 DEF GdbStarts, GdbWrites, GdbExecutes, ProgramPrints, ProgramStops, GdbDies
<1>24. CASE UNCHANGED vars
  BY <1>a, <1>24 DEF vars
<1> QED
  BY <1>1, <1>2, <1>3, <1>4, <1>5, <1>6, <1>7, <1>8, <1>9, <1>10, <1>11, <1>12, <1>13, <1>14, <1>15,
     <1>16, <1>18, <1>24
     DEF Next, ShellStep, ThreadStep, GdbStep, Ended

---------------------------------------------------------------------------
LEMMA PipeInit == Init => PipeInv
<1> SUFFICES ASSUME Init PROVE PipeInv
  OBVIOUS
<1>1. Stream = <<>>
  BY DEF Init, Stream
<1> QED BY <1>1, EmptyProperties DEF Init, PipeInv, ReadsItsReply, ReplyInStream, QuietBetween, QuietNow,
       Scanned, Answered, Reading, Asker

LEMMA PipeInductive == Spec => [](IInv /\ PipeInv)
<1>1. IInv /\ PipeInv /\ [Next]_vars => (IInv /\ PipeInv)'
  <2> SUFFICES ASSUME IInv, PipeInv, [Next]_vars PROVE IInv' /\ PipeInv'
    OBVIOUS
  <2>1. IInv' /\ TypeOK'
    BY ControlStep, DataStep, HandshakeStep DEF IInv, TypeOK
  <2> QED BY <2>1, ReadsStep, QuietStep, ScannedStep, AnsweredStep DEF PipeInv
<1> QED BY InitInv, PipeInit, <1>1, PTL DEF Spec

(* The reply that ExecuteCommand is about to return was written by gdb for *)
(* the command it was called with, and unless gdb has died it ends with    *)
(* the prompt: whatever the size of the buffer, wherever the reads cut the *)
(* reply, and however much the program prints before it stops.             *)
THEOREM RepliesBelong == Spec => []ReplyBelongsToCommand
<1>1. IInv /\ PipeInv => ReplyBelongsToCommand
  BY DEF IInv, TypeOK, ControlType, Handshake, PipeInv, Answered, GoodReply, AllOf,
         ReplyBelongsToCommand, Waiting
<1> QED BY PipeInductive, <1>1, PTL

---------------------------------------------------------------------------
(* What the reply says.  A line that reports a signal comes behind lines   *)
(* that leave the scanner in its start state: while it has not been        *)
(* scanned it is ahead of the scanner, in the chunk, in the pipe or in     *)
(* what gdb is going to write, and the scanner has not come to the prompt. *)


Unread == (chunk \o fromGdb) \o unwritten

CalmKinds == {"continuing", "console", "partial"}
CalmUnit == {x \in Unit : x.kind \in CalmKinds}
OtherUnit == {x \in Unit : x.kind # "signal"}
Calm(units) == \A i \in DOMAIN units : units[i] \in CalmUnit
NoSignal(units) == \A i \in DOMAIN units : units[i] \in OtherUnit
Due(units) == \E n \in DOMAIN units :
                units[n].kind = "signal" /\ \A i \in 1..n - 1 : units[i] \in CalmUnit

Scanning == {"readContinue", "scan"}

SignalComes ==
  thread \in Scanning =>
    /\ gdb = "running" => "signal" \notin data /\ replyState = "start" /\ Calm(Unread)
    /\ gdb = "prompt" /\ toGdb # <<>> =>
         "signal" \notin data /\ replyState = "start" /\ Unread = <<>>
    /\ gdb = "prompt" /\ toGdb = <<>> /\ stopped = "signal" =>
         \/ "signal" \in data \/ "signal" \in cut
         \/ replyState = "start" /\ Due(Unread)
    /\ gdb = "prompt" /\ toGdb = <<>> /\ stopped # "signal" =>
         "signal" \notin data /\ NoSignal(Unread)

ChunkScanned == thread # "scan" => chunk = <<>>

(* A chunk that ends inside of the line was cut there.                     *)
CutKnown == chunk # <<>> /\ chunk[Len(chunk)].kind = "signal" => "signal" \in cut

Kinded == /\ thread = "read" => cmd.kind = "plain"
          /\ thread \in Scanning => cmd.kind = "continue"

SignalKnown ==
  (thread = "reply" \/ hasReply) /\ command.kind = "continue" /\ gdb # "dead" =>
    /\ "signal" \in reply.data => stopped = "signal"
    /\ stopped = "signal" /\ "signal" \notin cut => "signal" \in reply.data

LEMMA ConcatCalm ==
  ASSUME NEW s \in Seq(Unit), NEW t \in Seq(Unit)
  PROVE  Calm(s \o t) <=> Calm(s) /\ Calm(t)
<1> HIDE DEF CalmUnit
<1> QED BY ConcatAll, Zenon DEF Calm

LEMMA ConcatNoSignal ==
  ASSUME NEW s \in Seq(Unit), NEW t \in Seq(Unit)
  PROVE  NoSignal(s \o t) <=> NoSignal(s) /\ NoSignal(t)
BY ConcatAll, Zenon DEF NoSignal

LEMMA ConcatFacts ==
  ASSUME NEW s \in Seq(Unit), NEW t \in Seq(Unit)
  PROVE  /\ s \o t \in Seq(Unit) /\ Len(s) \in Nat /\ Len(t) \in Nat
         /\ DOMAIN s = 1..Len(s) /\ DOMAIN t = 1..Len(t)
         /\ DOMAIN (s \o t) = 1..Len(s) + Len(t)
         /\ \A i \in 1..Len(s) : (s \o t)[i] = s[i]
         /\ \A i \in 1..Len(t) : (s \o t)[Len(s) + i] = t[i]
<1>1. /\ s \o t \in Seq(Unit) /\ Len(s \o t) = Len(s) + Len(t)
      /\ \A i \in 1..Len(s) + Len(t) :
           (s \o t)[i] = IF i <= Len(s) THEN s[i] ELSE t[i - Len(s)]
  BY ConcatProperties
<1>2. Len(s) \in Nat /\ Len(t) \in Nat /\ DOMAIN s = 1..Len(s) /\ DOMAIN t = 1..Len(t)
  OBVIOUS
<1>3. DOMAIN (s \o t) = 1..Len(s) + Len(t)
  BY <1>1
<1>4. ASSUME NEW i \in 1..Len(s) PROVE (s \o t)[i] = s[i]
  BY <1>1, <1>2
<1>5. ASSUME NEW i \in 1..Len(t) PROVE (s \o t)[Len(s) + i] = t[i]
  <2>1. Len(s) + i \in 1..Len(s) + Len(t) /\ ~(Len(s) + i <= Len(s)) /\ Len(s) + i - Len(s) = i
    BY <1>2
  <2> QED BY <1>1, <2>1
<1> QED BY <1>1, <1>2, <1>3, <1>4, <1>5

(* A signal line behind calm lines is due.                                 *)
LEMMA ConcatDue ==
  ASSUME NEW s \in Seq(Unit), NEW t \in Seq(Unit)
  PROVE  /\ Calm(s) /\ Due(t) => Due(s \o t)
         /\ Due(s \o t) => Due(s) \/ (Calm(s) /\ Due(t))
<1> DEFINE ls == Len(s)
           lt == Len(t)
           c == s \o t
<1>f. /\ c \in Seq(Unit) /\ ls \in Nat /\ lt \in Nat
      /\ DOMAIN s = 1..ls /\ DOMAIN t = 1..lt /\ DOMAIN c = 1..ls + lt
      /\ \A i \in 1..ls : c[i] = s[i]
      /\ \A i \in 1..lt : c[ls + i] = t[i]
  BY ConcatFacts
<1> HIDE DEF ls, lt, c
<1>1. ASSUME Calm(s), Due(t) PROVE Due(c)
  <2>1. PICK n \in 1..lt : t[n].kind = "signal" /\ \A i \in 1..n - 1 : t[i] \in CalmUnit
    BY <1>f, <1>1 DEF Due
  <2>2. ls + n \in 1..ls + lt /\ c[ls + n].kind = "signal"
    BY <1>f, <2>1
  <2>3. ASSUME NEW i \in 1..(ls + n) - 1 PROVE c[i] \in CalmUnit
    <3>1. CASE i <= ls
      <4>1. i \in 1..ls
        BY <1>f, <3>1
      <4> QED BY <1>1, <1>f, <4>1 DEF Calm
    <3>2. CASE i > ls
      <4>1. i - ls \in 1..n - 1 /\ i - ls \in 1..lt /\ ls + (i - ls) = i
        BY <1>f, <2>1, <3>2
      <4>2. c[ls + (i - ls)] = t[i - ls]
        BY <1>f, <4>1
      <4> QED BY <2>1, <4>1, <4>2
    <3> QED BY <1>f, <3>1, <3>2
  <2> QED BY <1>f, <2>2, <2>3 DEF Due
<1>2. ASSUME Due(c) PROVE Due(s) \/ (Calm(s) /\ Due(t))
  <2>1. PICK n \in 1..ls + lt : c[n].kind = "signal" /\ \A i \in 1..n - 1 : c[i] \in CalmUnit
    BY <1>f, <1>2 DEF Due
  <2>2. CASE n <= ls
    <3>1. n \in 1..ls /\ \A i \in 1..n - 1 : i \in 1..ls
      BY <1>f, <2>2
    <3> QED BY <1>f, <2>1, <3>1 DEF Due
  <2>3. CASE n > ls
    <3>1. n - ls \in 1..lt /\ ls + (n - ls) = n
      BY <1>f, <2>3
    <3>2. t[n - ls].kind = "signal"
      <4>1. c[ls + (n - ls)] = t[n - ls]
        BY <1>f, <3>1
      <4> QED BY <2>1, <3>1, <4>1
    <3>3. ASSUME NEW i \in 1..(n - ls) - 1 PROVE t[i] \in CalmUnit
      <4>1. i \in 1..lt /\ ls + i \in 1..n - 1
        BY <1>f, <3>1
      <4> QED BY <1>f, <2>1, <4>1
    <3>4. ASSUME NEW i \in 1..ls PROVE s[i] \in CalmUnit
      <4>1. i \in 1..n - 1
        BY <1>f, <2>3
      <4> QED BY <1>f, <2>1, <4>1
    <3> QED BY <1>f, <3>1, <3>2, <3>3, <3>4 DEF Due, Calm
  <2> QED BY <1>f, <2>2, <2>3
<1> QED BY <1>1, <1>2 DEF c

LEMMA DueBefore ==
  ASSUME NEW s \in Seq(Unit), NEW t \in Seq(Unit), Due(s)
  PROVE  Due(s \o t)
<1> DEFINE c == s \o t
<1>f. /\ Len(s) \in Nat /\ Len(t) \in Nat /\ DOMAIN s = 1..Len(s)
      /\ DOMAIN c = 1..Len(s) + Len(t) /\ \A i \in 1..Len(s) : c[i] = s[i]
  BY ConcatFacts
<1> HIDE DEF c
<1>1. PICK n \in 1..Len(s) : s[n].kind = "signal" /\ \A i \in 1..n - 1 : s[i] \in CalmUnit
  BY <1>f DEF Due
<1>2. n \in 1..Len(s) + Len(t) /\ \A i \in 1..n - 1 : i \in 1..Len(s)
  BY <1>f
<1>3. Due(c)
  BY <1>f, <1>1, <1>2 DEF Due
<1> QED BY <1>3 DEF c

LEMMA EmptyCalm == Calm(<<>>) /\ NoSignal(<<>>) /\ ~Due(<<>>)
BY DEF Calm, NoSignal, Due

(* One line: what it says of a signal.                                     *)
LEMMA LineCalm ==
  ASSUME NEW kind \in UnitKinds, NEW k \in 0..MaxCommands
  PROVE  /\ U(kind, k) \in Seq(Unit)
         /\ kind \in CalmKinds => Calm(U(kind, k))
         /\ kind # "signal" => NoSignal(U(kind, k))
         /\ kind = "signal" => Due(U(kind, k))
<1>1. U(kind, k) \in Seq(Unit)
  BY UnitTypes DEF U
<1>2. [kind |-> kind, of |-> k] \in Unit
  BY DEF Unit
<1>3. /\ U(kind, k) = <<[kind |-> kind, of |-> k]>>
      /\ DOMAIN U(kind, k) = {1}
      /\ U(kind, k)[1] = [kind |-> kind, of |-> k]
  BY DEF U
<1>4. kind \in CalmKinds => Calm(U(kind, k))
  BY <1>2, <1>3 DEF Calm, CalmUnit
<1>5. kind # "signal" => NoSignal(U(kind, k))
  BY <1>2, <1>3 DEF NoSignal, OtherUnit
<1>6. kind = "signal" => Due(U(kind, k))
  BY <1>3 DEF Due
<1> QED BY <1>1, <1>4, <1>5, <1>6

LEMMA PromptNoSignal ==
  ASSUME NEW k \in 0..MaxCommands
  PROVE  Prompt(k) \in Seq(Unit) /\ NoSignal(Prompt(k))
<1>1. Prompt(k) \in Seq(Unit)
  BY PromptTypes
<1>2. /\ [kind |-> "prompt1", of |-> k] \in OtherUnit
      /\ [kind |-> "prompt2", of |-> k] \in OtherUnit
  BY DEF OtherUnit, Unit, UnitKinds
<1> QED BY <1>1, <1>2 DEF NoSignal, Prompt

(* What gdb writes when the program stops announces a signal, or none.     *)
LEMMA StopReport ==
  ASSUME NEW k \in 0..MaxCommands, NEW tail \in {<<>>, U("partial", k)}
  PROVE  /\ LET r == tail \o Report("exit", k) \o Prompt(k) IN r \in Seq(Unit) /\ NoSignal(r)
         /\ \A why \in {"breakpoint", "signal"} :
              LET r == tail \o Report(why, k) \o U("source", k) \o Prompt(k) IN
                /\ r \in Seq(Unit)
                /\ why = "signal" => Due(r)
                /\ why # "signal" => NoSignal(r)
<1>1. tail \in Seq(Unit) /\ Calm(tail) /\ NoSignal(tail)
  <2>1. CASE tail = <<>>
    BY <2>1, EmptyCalm, EmptyType
  <2>2. CASE tail = U("partial", k)
    <3>1. "partial" \in UnitKinds /\ "partial" \in CalmKinds /\ "partial" # "signal"
      BY DEF UnitKinds, CalmKinds
    <3> QED BY <2>2, <3>1, LineCalm
  <2> QED BY <2>1, <2>2
<1>2. Prompt(k) \in Seq(Unit) /\ NoSignal(Prompt(k))
  BY PromptNoSignal
<1>3. ASSUME NEW kind \in {"exit", "breakpoint", "signal", "source", "rest"}
      PROVE  /\ U(kind, k) \in Seq(Unit)
             /\ kind # "signal" => NoSignal(U(kind, k))
             /\ kind = "signal" => Due(U(kind, k))
  BY LineCalm DEF UnitKinds
<1>4. ASSUME NEW a \in Seq(Unit), NEW b \in Seq(Unit)
      PROVE  /\ a \o b \in Seq(Unit)
             /\ NoSignal(a) /\ NoSignal(b) => NoSignal(a \o b)
             /\ Calm(a) /\ Due(b) => Due(a \o b)
             /\ Due(a) => Due(a \o b)
  BY ConcatNoSignal, ConcatDue, DueBefore
<1>5. ASSUME NEW w \in Seq(Unit), NEW s \in Seq(Unit), NEW p \in Seq(Unit)
      PROVE  /\ (tail \o w) \o p \in Seq(Unit)
             /\ NoSignal(w) /\ NoSignal(p) => NoSignal((tail \o w) \o p)
             /\ ((tail \o w) \o s) \o p \in Seq(Unit)
             /\ Due(w) => Due(((tail \o w) \o s) \o p)
             /\ NoSignal(w) /\ NoSignal(s) /\ NoSignal(p) =>
                  NoSignal(((tail \o w) \o s) \o p)
  <2>1. /\ tail \o w \in Seq(Unit) /\ (Due(w) => Due(tail \o w))
        /\ (NoSignal(w) => NoSignal(tail \o w))
    BY <1>1, <1>4
  <2>2. /\ (tail \o w) \o p \in Seq(Unit)
        /\ (NoSignal(w) /\ NoSignal(p) => NoSignal((tail \o w) \o p))
    BY <1>4, <2>1
  <2>3. /\ (tail \o w) \o s \in Seq(Unit) /\ (Due(w) => Due((tail \o w) \o s))
        /\ (NoSignal(w) /\ NoSignal(s) => NoSignal((tail \o w) \o s))
    BY <1>4, <2>1
  <2>4. /\ ((tail \o w) \o s) \o p \in Seq(Unit)
        /\ (Due(w) => Due(((tail \o w) \o s) \o p))
        /\ (NoSignal(w) /\ NoSignal(s) /\ NoSignal(p) => NoSignal(((tail \o w) \o s) \o p))
    BY <1>4, <2>3
  <2> QED BY <2>2, <2>4
<1>8. ASSUME NEW kind \in {"exit", "breakpoint", "signal"}
      PROVE  /\ Report(kind, k) \in Seq(Unit)
             /\ kind # "signal" => NoSignal(Report(kind, k))
             /\ kind = "signal" => Due(Report(kind, k))
  <2>1. U("rest", k) \in Seq(Unit) /\ NoSignal(U("rest", k))
    BY <1>3
  <2>2. /\ U(kind, k) \in Seq(Unit) /\ (kind # "signal" => NoSignal(U(kind, k)))
        /\ (kind = "signal" => Due(U(kind, k)))
    BY <1>3
  <2> QED BY <1>4, <2>1, <2>2 DEF Report
<1>6. LET r == tail \o Report("exit", k) \o Prompt(k) IN r \in Seq(Unit) /\ NoSignal(r)
  <2>1. Report("exit", k) \in Seq(Unit) /\ NoSignal(Report("exit", k))
    BY <1>8
  <2> QED BY <1>2, <1>5, <2>1
<1>7. ASSUME NEW why \in {"breakpoint", "signal"}
      PROVE  LET r == tail \o Report(why, k) \o U("source", k) \o Prompt(k) IN
                /\ r \in Seq(Unit)
                /\ why = "signal" => Due(r)
                /\ why # "signal" => NoSignal(r)
  <2>1. U("source", k) \in Seq(Unit) /\ NoSignal(U("source", k))
    BY <1>3
  <2>2. /\ Report(why, k) \in Seq(Unit) /\ (why # "signal" => NoSignal(Report(why, k)))
        /\ (why = "signal" => Due(Report(why, k)))
    BY <1>8
  <2> QED BY <1>2, <1>5, <2>1, <2>2
<1> QED BY <1>6, <1>7

(* The scan of a line: only a line that reports a signal says so, and does *)
(* unless it is cut; calm lines leave the scanner as it was.               *)
LEMMA ScanOfLine ==
  ASSUME NEW c \in Seq(Unit), c # <<>>, NEW kind \in LineKinds(c)
  PROVE  LET head == SubSeq(c, 1, LineLength(c)) IN
           /\ Calm(head) => kind \in {"continuing", "console"}
           /\ Due(head) => kind = "signal" \/ (Len(c) = 1 /\ c[1].kind = "signal")
           /\ NoSignal(head) => kind # "signal"
<1> DEFINE head == SubSeq(c, 1, LineLength(c))
<1>1. /\ Len(c) \in Nat /\ Len(c) > 0 /\ c[1] \in Unit
      /\ LineLength(c) \in 1..3 /\ LineLength(c) <= Len(c)
  BY LineLengthType
<1>2. DOMAIN head = 1..LineLength(c) /\ \A i \in 1..LineLength(c) : head[i] = c[i]
  <2>1. ASSUME NEW n \in 1..3, n <= Len(c)
        PROVE  /\ DOMAIN SubSeq(c, 1, n) = 1..n
               /\ \A i \in 1..n : SubSeq(c, 1, n)[i] = c[i]
    BY <1>1, <2>1
  <2> QED BY <1>1, <2>1
<1> HIDE DEF head
<1>3. 1 \in DOMAIN head /\ head[1] = c[1]
  BY <1>1, <1>2
<1>7. kind = "prompt" \/ kind = c[1].kind \/ kind = "console"
  BY DEF LineKinds
<1>4. ASSUME Calm(head) PROVE kind \in {"continuing", "console"}
  <2>1. c[1].kind \in CalmKinds
    BY <1>3, <1>4 DEF Calm, CalmUnit
  <2> QED BY <2>1 DEF LineKinds, CalmKinds, Reports
<1>5. ASSUME Due(head) PROVE kind = "signal" \/ (Len(c) = 1 /\ c[1].kind = "signal")
  <2>1. PICK n \in 1..LineLength(c) : c[n].kind = "signal" /\ \A i \in 1..n - 1 : c[i] \in CalmUnit
    BY <1>1, <1>2, <1>5 DEF Due
  <2>2. CASE n = 1
    <3>1. c[1].kind = "signal" /\ c[1].kind \in Reports /\ c[1].kind # "prompt1"
      BY <2>1, <2>2 DEF Reports
    <3>2. CASE Len(c) = 1
      BY <3>1, <3>2
    <3>3. CASE Len(c) # 1
      <4>1. Len(c) > 1
        <5>1. \A l \in Nat : l > 0 /\ l # 1 => l > 1
          OBVIOUS
        <5> QED BY <1>1, <3>3, <5>1, Zenon
      <4>2. LineKinds(c) = {c[1].kind}
        BY <3>1, <3>3, <4>1 DEF LineKinds
      <4> QED BY <3>1, <4>2
    <3> QED BY <3>2, <3>3
  <2>3. CASE n # 1
    <3>1. c[1].kind \in CalmKinds
      BY <1>1, <2>1, <2>3 DEF CalmUnit
    <3>2. LineLength(c) > 1
      BY <1>1, <2>1, <2>3
    <3>3. c[2].kind = "exit" /\ (LineLength(c) = 3 => c[3].kind = "rest")
      BY <1>1, <3>1, <3>2 DEF LineLength, CalmKinds, Reports
    <3> QED BY <1>1, <2>1, <2>3, <3>3
  <2> QED BY <2>2, <2>3
<1>6. ASSUME NoSignal(head) PROVE kind # "signal"
  <2>1. c[1].kind # "signal"
    BY <1>3, <1>6 DEF NoSignal, OtherUnit
  <2> QED BY <1>7, <2>1
<1> QED BY <1>4, <1>5, <1>6 DEF head

---------------------------------------------------------------------------
(* Lemmas about what has not been scanned.                                 *)

LEMMA UnreadTypes ==
  ASSUME TypeOK
  PROVE  /\ chunk \in Seq(Unit) /\ fromGdb \in Seq(Unit) /\ unwritten \in Seq(Unit)
         /\ chunk \o fromGdb \in Seq(Unit) /\ Unread \in Seq(Unit)
BY DEF TypeOK, DataType, Unread

(* A read of the pipe, and a write to it, move what has not been scanned.  *)
LEMMA ReadKeepsUnread ==
  ASSUME TypeOK, chunk = <<>>, ReadContinueReply
  PROVE  Unread' = Unread
<1>1. /\ chunk' = SubSeq(fromGdb, 1, Available)
      /\ fromGdb' = SubSeq(fromGdb, Available + 1, Len(fromGdb))
      /\ unwritten' = unwritten
  BY DEF ReadContinueReply, gdbVars
<1>2. Available \in 0..Len(fromGdb) /\ fromGdb \in Seq(Unit)
  BY StreamTypes, AvailableType
<1>3. ASSUME NEW s \in Seq(Unit), NEW n \in 0..Len(s)
      PROVE  SubSeq(s, 1, n) \o SubSeq(s, n + 1, Len(s)) = <<>> \o s
  <2>1. <<>> \o s = s
    OBVIOUS
  <2> QED BY <2>1, Cut
<1>4. chunk' \o fromGdb' = chunk \o fromGdb
  BY <1>1, <1>2, <1>3, Zenon
<1> QED BY <1>1, <1>4 DEF Unread

LEMMA WriteKeepsUnread ==
  ASSUME TypeOK, GdbWrites
  PROVE  Unread' = Unread
<1> DEFINE n == IF unwritten[1].kind = "prompt1" THEN Len(unwritten) ELSE 1
<1>1. n \in 0..Len(unwritten)
  BY StreamTypes DEF GdbWrites
<1>2. /\ fromGdb' = fromGdb \o SubSeq(unwritten, 1, n)
      /\ unwritten' = SubSeq(unwritten, n + 1, Len(unwritten))
      /\ chunk' = chunk
  BY DEF GdbWrites, readVars
<1> HIDE DEF n
<1>3. (chunk \o (fromGdb \o SubSeq(unwritten, 1, n))) \o SubSeq(unwritten, n + 1, Len(unwritten))
        = (chunk \o fromGdb) \o unwritten
  <2>1. chunk \in Seq(Unit) /\ fromGdb \in Seq(Unit) /\ unwritten \in Seq(Unit)
    BY UnreadTypes
  <2>2. \A c \in Seq(Unit) : \A i \in 0..Len(c) :
           (chunk \o (fromGdb \o SubSeq(c, 1, i))) \o SubSeq(c, i + 1, Len(c)) = (chunk \o fromGdb) \o c
    BY <2>1, MoveToMiddle, Zenon
  <2> QED BY <1>1, <2>1, <2>2, Zenon
<1> QED BY <1>2, <1>3 DEF Unread

(* A scan takes its line from the front of it.                             *)
LEMMA ScanCutsUnread ==
  ASSUME TypeOK, ScanLine
  PROVE  /\ Unread' \in Seq(Unit) /\ SubSeq(chunk, 1, LineLength(chunk)) \in Seq(Unit)
         /\ Unread = SubSeq(chunk, 1, LineLength(chunk)) \o Unread'
<1> DEFINE h == SubSeq(chunk, 1, LineLength(chunk))
<1>1. /\ chunk' = SubSeq(chunk, LineLength(chunk) + 1, Len(chunk))
      /\ fromGdb' = fromGdb /\ unwritten' = unwritten /\ chunk # <<>>
  BY DEF ScanLine, pipeVars, gdbVars
<1>2. /\ chunk \in Seq(Unit) /\ fromGdb \in Seq(Unit) /\ unwritten \in Seq(Unit)
      /\ LineLength(chunk) \in 0..Len(chunk)
  BY <1>1, UnreadTypes, LineLengthType
<1>3. h \in Seq(Unit) /\ chunk' \in Seq(Unit) /\ h \o chunk' = chunk
  BY <1>1, <1>2, Cut
<1> HIDE DEF h
<1>4. chunk' \o fromGdb \in Seq(Unit) /\ (chunk' \o fromGdb) \o unwritten \in Seq(Unit)
  <2>1. ASSUME NEW a \in Seq(Unit), NEW b \in Seq(Unit) PROVE a \o b \in Seq(Unit)
    OBVIOUS
  <2> QED BY <1>2, <1>3, <2>1
<1>5. (h \o chunk') \o fromGdb = h \o (chunk' \o fromGdb)
  <2>1. chunk' \in Seq(Unit) /\ fromGdb \in Seq(Unit) /\ h \in Seq(Unit)
    BY <1>2, <1>3
  <2> QED BY <2>1, Concat3, Zenon
<1>6. (h \o (chunk' \o fromGdb)) \o unwritten = h \o ((chunk' \o fromGdb) \o unwritten)
  <2>1. chunk' \o fromGdb \in Seq(Unit) /\ unwritten \in Seq(Unit) /\ h \in Seq(Unit)
    BY <1>2, <1>3, <1>4
  <2> QED BY <2>1, Concat3, Zenon
<1>7. Unread = h \o ((chunk' \o fromGdb) \o unwritten)
  BY <1>3, <1>5, <1>6 DEF Unread
<1> QED BY <1>1, <1>3, <1>4, <1>7 DEF Unread, h

(* What gdb begins to write comes behind all else.                         *)
LEMMA WrittenLast ==
  ASSUME TypeOK, TypeOK', unwritten = <<>>, UNCHANGED <<chunk, fromGdb>>
  PROVE  /\ Unread \in Seq(Unit) /\ unwritten' \in Seq(Unit)
         /\ Unread' = Unread \o unwritten'
<1>1. /\ chunk \o fromGdb \in Seq(Unit) /\ Unread \in Seq(Unit)
      /\ unwritten' \in Seq(Unit)
  BY UnreadTypes DEF TypeOK, DataType
<1>2. ASSUME NEW s \in Seq(Unit) PROVE s \o <<>> = s
  OBVIOUS
<1>3. Unread = chunk \o fromGdb
  BY <1>1, <1>2 DEF Unread
<1> QED BY <1>1, <1>3 DEF Unread

---------------------------------------------------------------------------
(* The steps.                                                              *)

SignalInv == SignalComes /\ ChunkScanned /\ CutKnown /\ Kinded /\ SignalKnown

LEMMA SignalInit == Init => SignalInv
BY DEF Init, SignalInv, SignalComes, ChunkScanned, CutKnown, Kinded, SignalKnown, Scanning

LEMMA ChunkScannedStep == ChunkScanned /\ [Next]_vars => ChunkScanned'
BY DEF ChunkScanned, Next, ShellStep, ThreadStep, GdbStep, Ended, ExecuteCommand,
       PostCommand, AwaitReply, SpuriousWakeup, ReadWelcome, Read, ReadRound, AwaitCommand,
       LockReply, WriteCommand, WriteFails, ReadFails, ReadContinueReply, ReadNothing, ScanLine,
       EndOfChunk, SetReply, UnlockReply, UnlockCommand, GdbStarts, GdbWrites, GdbExecutes,
       ProgramPrints, ProgramStops, GdbDies, vars, shellVars, flagVars, threadVars,
       readVars, gdbVars, pipeVars

LEMMA KindedStep == Kinded /\ [Next]_vars => Kinded'
BY DEF Kinded, Scanning, Next, ShellStep, ThreadStep, GdbStep, Ended, ExecuteCommand,
       PostCommand, AwaitReply, SpuriousWakeup, ReadWelcome, Read, ReadRound, AwaitCommand,
       LockReply, WriteCommand, WriteFails, ReadFails, ReadContinueReply, ReadNothing, ScanLine,
       EndOfChunk, SetReply, UnlockReply, UnlockCommand, GdbStarts, GdbWrites, GdbExecutes,
       ProgramPrints, ProgramStops, GdbDies, vars, shellVars, flagVars, threadVars,
       readVars, gdbVars, pipeVars

LEMMA LastOfSuffix ==
  ASSUME NEW c \in Seq(Unit), NEW n \in Nat, n <= Len(c),
         SubSeq(c, n + 1, Len(c)) # <<>>
  PROVE  LET s == SubSeq(c, n + 1, Len(c)) IN s[Len(s)] = c[Len(c)]
<1> DEFINE s == SubSeq(c, n + 1, Len(c))
<1>1. /\ Len(c) \in Nat /\ s \in Seq(Unit) /\ Len(s) = Len(c) - n
      /\ \A i \in 1..Len(c) - n : s[i] = c[n + i]
  OBVIOUS
<1>2. Len(s) # 0
  BY <1>1
<1>3. Len(c) - n \in 1..Len(c) - n /\ n + (Len(c) - n) = Len(c)
  BY <1>1, <1>2
<1> QED BY <1>1, <1>3

(* The last unit of a chunk is that of the read, while the chunk lasts.    *)
LEMMA CutKnownStep ==
  ASSUME IInv, ChunkScanned, CutKnown, [Next]_vars
  PROVE  CutKnown'
<1> USE DEF shellVars, flagVars, threadVars, readVars, gdbVars, pipeVars
<1>a. ASSUME UNCHANGED <<chunk, cut>> PROVE CutKnown'
  BY <1>a DEF CutKnown
<1>1. CASE ReadContinueReply
  <2>1. /\ fromGdb \in Seq(Unit) /\ Available \in Nat /\ Available <= Len(fromGdb)
        /\ chunk' = SubSeq(fromGdb, 1, Available)
        /\ cut' = cut \cup ({fromGdb[Available].kind} \cap Reports)
    BY <1>1, AvailableType DEF ReadContinueReply, IInv, TypeOK, DataType
  <2>2. CASE Available = 0
    BY <2>1, <2>2 DEF CutKnown
  <2>3. CASE Available # 0
    <3>1. Len(chunk') = Available /\ chunk'[Available] = fromGdb[Available]
      BY <2>1, <2>3
    <3> QED BY <2>1, <3>1 DEF CutKnown, Reports
  <2> QED BY <2>2, <2>3
<1>2. CASE ScanLine
  <2>1. /\ chunk \in Seq(Unit) /\ chunk # <<>> /\ cut' = cut
        /\ chunk' = SubSeq(chunk, LineLength(chunk) + 1, Len(chunk))
    BY <1>2 DEF ScanLine, IInv, TypeOK, DataType
  <2>2. LineLength(chunk) \in 1..3 /\ LineLength(chunk) <= Len(chunk)
    BY <2>1, LineLengthType
  <2>3. LineLength(chunk) \in Nat
    BY <2>2
  <2>4. chunk' # <<>> => chunk'[Len(chunk')] = chunk[Len(chunk)]
    BY <2>1, <2>2, <2>3, LastOfSuffix
  <2> QED BY <2>1, <2>4 DEF CutKnown
<1>3. CASE WriteCommand
  BY <1>3 DEF WriteCommand, CutKnown, ChunkScanned
<1>4. CASE EndOfChunk
  BY <1>a, <1>4 DEF EndOfChunk
<1>5. CASE ~(ReadContinueReply \/ ScanLine \/ WriteCommand \/ EndOfChunk)
  <2>1. UNCHANGED <<chunk, cut>>
    BY <1>5 DEF Next, ShellStep, ThreadStep, GdbStep, Ended, ExecuteCommand,
       PostCommand, AwaitReply, SpuriousWakeup, ReadWelcome, Read, AwaitCommand,
       LockReply, WriteFails, ReadFails, ReadNothing, SetReply, UnlockReply, UnlockCommand,
       GdbStarts, GdbWrites, GdbExecutes, ProgramPrints, ProgramStops, GdbDies, vars
  <2> QED BY <1>a, <2>1
<1> QED BY <1>1, <1>2, <1>3, <1>4, <1>5

(* What gdb does while the thread scans a reply.                           *)
LEMMA GdbSignalStep ==
  ASSUME IInv, TypeOK', PipeInv, SignalInv, thread \in Scanning,
         GdbStarts \/ GdbWrites \/ GdbExecutes \/ ProgramPrints \/ ProgramStops \/ GdbDies
  PROVE  SignalComes'
<1> USE DEF shellVars, flagVars, threadVars, readVars, gdbVars, pipeVars
<1>t. /\ TypeOK /\ SignalComes /\ cmd.kind = "continue"
      /\ UNCHANGED <<thread, data, replyState, chunk, cut, cmd>>
  BY DEF IInv, SignalInv, Kinded, GdbStarts, GdbWrites, GdbExecutes, ProgramPrints,
         ProgramStops, GdbDies
<1>r. ReplyInStream /\ thread # "welcome"
  BY DEF PipeInv, ReadsItsReply, Scanning, Reading
<1>1. CASE GdbStarts
  BY <1>r, <1>1 DEF GdbStarts, ReplyInStream
<1>2. CASE GdbWrites
  <2>1. Unread' = Unread /\ UNCHANGED <<gdb, toGdb, stopped>>
    BY <1>t, <1>2, WriteKeepsUnread DEF GdbWrites
  <2> QED BY <1>t, <2>1 DEF SignalComes
<1>3. CASE GdbExecutes
  <2>1. /\ gdb = "prompt" /\ toGdb # <<>> /\ unwritten = <<>> /\ UNCHANGED <<chunk, fromGdb>>
        /\ toGdb = <<cmd>>
    BY <1>r, <1>3 DEF GdbExecutes, ReplyInStream
  <2>2. /\ gdb' = "running"
        /\ unwritten' = U("continuing", cmd.num)
    BY <1>t, <1>3, <2>1 DEF GdbExecutes
  <2>3. "signal" \notin data /\ replyState = "start" /\ Unread = <<>>
    BY <1>t, <2>1 DEF SignalComes
  <2>4. Unread' = Unread \o unwritten' /\ unwritten' \in Seq(Unit)
    BY <1>t, <2>1, WrittenLast
  <2>5. Calm(unwritten')
    <3>1. cmd.num \in 0..MaxCommands
      BY <1>t, <2>1 DEF TypeOK, DataType, Command
    <3>2. "continuing" \in UnitKinds /\ "continuing" \in CalmKinds
      BY DEF UnitKinds, CalmKinds
    <3> QED BY <2>2, <3>1, <3>2, LineCalm
  <2>6. Calm(Unread')
    <3>1. <<>> \o unwritten' = unwritten'
      BY <2>4
    <3> QED BY <2>3, <2>4, <2>5, <3>1
  <2>7. Calm(Unread)'
    BY <2>6 DEF Calm
  <2> QED BY <1>t, <2>2, <2>3, <2>7 DEF SignalComes
<1>4. CASE ProgramPrints
  <2>1. /\ gdb = "running" /\ gdb' = "running" /\ unwritten = <<>>
        /\ UNCHANGED <<chunk, fromGdb>> /\ unwritten' = U("console", current)
    BY <1>4 DEF ProgramPrints
  <2>2. "signal" \notin data /\ replyState = "start" /\ Calm(Unread)
    BY <1>t, <2>1 DEF SignalComes
  <2>3. Unread' = Unread \o unwritten' /\ unwritten' \in Seq(Unit) /\ Unread \in Seq(Unit)
    BY <1>t, <2>1, WrittenLast
  <2>4. Calm(unwritten')
    <3>1. current \in 0..MaxCommands /\ "console" \in UnitKinds /\ "console" \in CalmKinds
      BY <1>t DEF TypeOK, DataType, UnitKinds, CalmKinds
    <3> QED BY <2>1, <3>1, LineCalm
  <2>5. Calm(Unread')
    BY <2>2, <2>3, <2>4, ConcatCalm
  <2>6. Calm(Unread)'
    BY <2>5 DEF Calm
  <2> QED BY <1>t, <2>1, <2>2, <2>6 DEF SignalComes
<1>5. CASE ProgramStops
  <2>1. /\ gdb = "running" /\ gdb' = "prompt" /\ unwritten = <<>>
        /\ UNCHANGED <<chunk, fromGdb, toGdb>>
    BY <1>5 DEF ProgramStops
  <2>2. "signal" \notin data /\ replyState = "start" /\ Calm(Unread) /\ toGdb = <<>>
    BY <1>t, <1>r, <2>1 DEF SignalComes, ReplyInStream
  <2>3. Unread' = Unread \o unwritten' /\ unwritten' \in Seq(Unit) /\ Unread \in Seq(Unit)
    BY <1>t, <2>1, WrittenLast
  <2>4. /\ stopped' = "signal" => Due(unwritten')
        /\ stopped' # "signal" => NoSignal(unwritten')
    <3>1. current \in 0..MaxCommands
      BY <1>t DEF TypeOK, DataType
    <3>2. PICK tail \in {<<>>, U("partial", current)} :
            \/ /\ stopped' = "exit"
               /\ unwritten' = tail \o Report("exit", current) \o Prompt(current)
            \/ \E why \in {"breakpoint", "signal"} :
                 /\ stopped' = why
                 /\ unwritten' = tail \o Report(why, current) \o U("source", current)
                                   \o Prompt(current)
      BY <1>5 DEF ProgramStops
    <3> QED BY <3>1, <3>2, StopReport
  <2>5. NoSignal(Unread)
    BY <2>2 DEF Calm, NoSignal, CalmUnit, OtherUnit, CalmKinds
  <2>6. /\ stopped' = "signal" => Due(Unread')
        /\ stopped' # "signal" => NoSignal(Unread')
    BY <2>2, <2>3, <2>4, <2>5, ConcatDue, ConcatNoSignal
  <2>7. /\ stopped' = "signal" => Due(Unread)'
        /\ stopped' # "signal" => NoSignal(Unread)'
    BY <2>6 DEF Due, NoSignal
  <2> QED BY <1>t, <2>1, <2>2, <2>7 DEF SignalComes
<1>6. CASE GdbDies
  BY <1>6 DEF GdbDies, SignalComes
<1> QED BY <1>1, <1>2, <1>3, <1>4, <1>5, <1>6

(* The scan of a line keeps the signal ahead, or has seen it.              *)
LEMMA LineSignalStep ==
  ASSUME IInv, SignalInv, ScanLine
  PROVE  SignalComes'
<1> DEFINE head == SubSeq(chunk, 1, LineLength(chunk))
<1>t. TypeOK /\ SignalComes /\ CutKnown
  BY DEF IInv, SignalInv
<1>0. /\ thread = "scan" /\ chunk # <<>> /\ chunk \in Seq(Unit)
      /\ UNCHANGED <<gdb, toGdb, stopped, cut>>
  BY <1>t DEF ScanLine, gdbVars, pipeVars, TypeOK, DataType
<1>k. PICK kind \in LineKinds(chunk) :
        replyState' = NextReplyState(kind) /\ data' = NextData(kind)
  BY DEF ScanLine
<1>1. /\ thread = "scan" /\ chunk # <<>> /\ chunk \in Seq(Unit)
      /\ replyState' = NextReplyState(kind) /\ data' = NextData(kind)
      /\ UNCHANGED <<gdb, toGdb, stopped, cut>>
  BY <1>0, <1>k
<1>2. /\ Calm(head) => kind \in {"continuing", "console"}
      /\ Due(head) => kind = "signal" \/ (Len(chunk) = 1 /\ chunk[1].kind = "signal")
      /\ NoSignal(head) => kind # "signal"
  BY <1>0, ScanOfLine
<1>3. head \in Seq(Unit) /\ Unread' \in Seq(Unit) /\ Unread = head \o Unread'
  BY <1>t, ScanCutsUnread
<1>4. Len(chunk) > 0 /\ Len(Unread) > 0
  <2>1. ASSUME NEW s \in Seq(Unit), NEW t \in Seq(Unit), NEW u \in Seq(Unit), s # <<>>
        PROVE  Len(s) > 0 /\ Len((s \o t) \o u) > 0
    <3>1. Len(s) > 0 /\ Len(s \o t) = Len(s) + Len(t) /\ Len(t) \in Nat /\ Len(u) \in Nat
      BY <2>1
    <3>2. ASSUME NEW v \in Seq(Unit) PROVE Len(v \o u) = Len(v) + Len(u)
      OBVIOUS
    <3>3. Len((s \o t) \o u) = Len(s \o t) + Len(u)
      <4>1. s \o t \in Seq(Unit)
        OBVIOUS
      <4> QED BY <3>2, <4>1
    <3> QED BY <3>1, <3>3
  <2>2. chunk \in Seq(Unit) /\ fromGdb \in Seq(Unit) /\ unwritten \in Seq(Unit)
    BY <1>t, UnreadTypes
  <2> QED BY <1>1, <2>1, <2>2 DEF Unread
<1> HIDE DEF head
<1>5. CASE gdb = "running"
  <2>1. "signal" \notin data /\ replyState = "start" /\ Calm(Unread)
    BY <1>t, <1>1, <1>5 DEF SignalComes, Scanning
  <2>2. Calm(head) /\ Calm(Unread')
    BY <1>3, <2>1, ConcatCalm
  <2>3. data' = data /\ replyState' = "start"
    BY <1>1, <1>2, <2>1, <2>2 DEF NextReplyState, NextData
  <2>4. Calm(Unread)'
    BY <2>2 DEF Calm
  <2> QED BY <1>1, <1>5, <2>1, <2>3, <2>4 DEF SignalComes
<1>6. CASE gdb = "prompt" /\ toGdb # <<>>
  BY <1>t, <1>1, <1>4, <1>6 DEF SignalComes, Scanning
<1>7. CASE gdb = "prompt" /\ toGdb = <<>> /\ stopped = "signal"
  <2>1. "signal" \in data \/ "signal" \in cut \/ (replyState = "start" /\ Due(Unread))
    BY <1>t, <1>1, <1>7 DEF SignalComes, Scanning
  <2>2. CASE "signal" \in data \/ "signal" \in cut
    <3>1. "signal" \in data' \/ "signal" \in cut'
      BY <1>1, <2>2 DEF NextData
    <3> QED BY <1>1, <1>7, <3>1 DEF SignalComes
  <2>3. CASE replyState = "start" /\ Due(Unread)
    <3>1. Due(head) \/ (Calm(head) /\ Due(Unread'))
      BY <1>3, <2>3, ConcatDue
    <3>2. CASE Due(head)
      <4>1. "signal" \in data' \/ "signal" \in cut'
        <5>1. CASE kind = "signal"
          BY <1>1, <2>3, <5>1 DEF NextData
        <5>2. CASE Len(chunk) = 1 /\ chunk[1].kind = "signal"
          BY <1>t, <1>1, <5>2 DEF CutKnown
        <5> QED BY <1>2, <3>2, <5>1, <5>2
      <4> QED BY <1>1, <1>7, <4>1 DEF SignalComes
    <3>3. CASE Calm(head) /\ Due(Unread')
      <4>1. replyState' = "start"
        BY <1>1, <1>2, <2>3, <3>3 DEF NextReplyState
      <4>2. Due(Unread)'
        BY <3>3 DEF Due
      <4> QED BY <1>1, <1>7, <4>1, <4>2 DEF SignalComes
    <3> QED BY <3>1, <3>2, <3>3
  <2> QED BY <2>1, <2>2, <2>3
<1>8. CASE gdb = "prompt" /\ toGdb = <<>> /\ stopped # "signal"
  <2>1. "signal" \notin data /\ NoSignal(Unread)
    BY <1>t, <1>1, <1>8 DEF SignalComes, Scanning
  <2>2. NoSignal(head) /\ NoSignal(Unread')
    BY <1>3, <2>1, ConcatNoSignal
  <2>3. "signal" \notin data'
    BY <1>1, <1>2, <2>1, <2>2 DEF NextData
  <2>4. NoSignal(Unread)'
    BY <2>2 DEF NoSignal
  <2> QED BY <1>1, <1>8, <2>3, <2>4 DEF SignalComes
<1>9. CASE gdb \notin {"running", "prompt"}
  BY <1>1, <1>9 DEF SignalComes
<1> QED BY <1>5, <1>6, <1>7, <1>8, <1>9

LEMMA SignalComesStep ==
  ASSUME IInv, TypeOK', PipeInv, SignalInv, [Next]_vars
  PROVE  SignalComes'
<1> USE DEF shellVars, flagVars, threadVars, readVars, gdbVars, pipeVars
<1>t. TypeOK /\ SignalComes /\ ChunkScanned /\ Kinded
  BY DEF IInv, SignalInv
<1>a. ASSUME UNCHANGED <<thread, chunk, fromGdb, unwritten, data, cut, replyState, gdb, toGdb, stopped>>
      PROVE  SignalComes'
  BY <1>t, <1>a DEF SignalComes, Unread, Calm, Due, NoSignal
<1>b. ASSUME thread' \notin Scanning PROVE SignalComes'
  BY <1>b DEF SignalComes
<1>1. ASSUME NEW k \in Kinds, ExecuteCommand(k) PROVE SignalComes'
  BY <1>a, <1>1 DEF ExecuteCommand
<1>2. CASE PostCommand
  BY <1>a, <1>b, <1>2 DEF PostCommand, Scanning
<1>3. CASE AwaitReply
  BY <1>a, <1>3 DEF AwaitReply
<1>4. CASE SpuriousWakeup
  BY <1>a, <1>b, <1>4 DEF SpuriousWakeup, Scanning
<1>5. CASE ReadWelcome \/ Read \/ AwaitCommand \/ LockReply \/ WriteFails
           \/ ReadFails \/ SetReply \/ UnlockReply \/ UnlockCommand
  BY <1>b, <1>5 DEF ReadWelcome, Read, ReadRound, AwaitCommand, LockReply, WriteFails,
     ReadFails, SetReply, UnlockReply, UnlockCommand, Scanning
<1>6. CASE WriteCommand
  <2>1. /\ thread = "write" /\ gdb # "dead" /\ toGdb' = Append(toGdb, cmd)
        /\ replyState' = "start" /\ data' = {}
        /\ UNCHANGED <<gdb, chunk, fromGdb, unwritten>>
    BY <1>6 DEF WriteCommand
  <2>2. /\ gdb = "prompt" /\ toGdb = <<>> /\ fromGdb = <<>> /\ unwritten = <<>>
        /\ chunk = <<>>
    BY <1>t, <2>1 DEF PipeInv, QuietBetween, QuietNow, ChunkScanned
  <2>3. toGdb' # <<>> /\ Unread' = <<>>
    BY <2>1, <2>2 DEF Unread
  <2> QED BY <2>1, <2>2, <2>3 DEF SignalComes
<1>7. CASE ReadContinueReply
  <2>1. /\ thread \in Scanning /\ chunk = <<>>
        /\ UNCHANGED <<data, replyState, gdb, toGdb, stopped>> /\ cut \subseteq cut'
    BY <1>t, <1>7 DEF ReadContinueReply, Scanning, ChunkScanned
  <2>2. Unread' = Unread
    BY <1>t, <1>7, <2>1, ReadKeepsUnread
  <2> QED BY <1>t, <2>1, <2>2 DEF SignalComes, Calm, Due, NoSignal
<1>8. CASE ReadNothing \/ UNCHANGED vars
  BY <1>a, <1>8 DEF ReadNothing, vars
<1>9. CASE ScanLine
  BY <1>9, LineSignalStep
<1>10. CASE EndOfChunk
  <2>1. CASE replyState = "prompt"
    BY <1>b, <1>10, <2>1 DEF EndOfChunk, Scanning
  <2>2. CASE replyState # "prompt"
    BY <1>t, <1>10, <2>2 DEF EndOfChunk, SignalComes, Scanning, Unread, Calm, Due, NoSignal
  <2> QED BY <2>1, <2>2
<1>11. CASE GdbStarts \/ GdbWrites \/ GdbExecutes \/ ProgramPrints \/ ProgramStops \/ GdbDies
  <2>1. CASE thread \in Scanning
    BY <1>11, <2>1, GdbSignalStep
  <2>2. CASE thread \notin Scanning
    BY <1>b, <1>11, <2>2 DEF GdbStarts, GdbWrites, GdbExecutes, ProgramPrints,
       ProgramStops, GdbDies
  <2> QED BY <2>1, <2>2
<1> QED
  BY <1>1, <1>2, <1>3, <1>4, <1>5, <1>6, <1>7, <1>8, <1>9, <1>10, <1>11
     DEF Next, ShellStep, ThreadStep, GdbStep, Ended

(* The program does not run, and cannot stop, while a reply is ready.      *)
LEMMA StoppedWhileAnswered ==
  ASSUME IInv, PipeInv, thread = "reply" \/ hasReply, command.kind = "continue",
         gdb # "dead"
  PROVE  gdb = "prompt"
<1>1. QuietNow
  BY DEF IInv, TypeOK, ControlType, Handshake, Working, Resting, QuietNow
<1> QED BY <1>1 DEF PipeInv, QuietBetween

LEMMA SignalKnownStep ==
  ASSUME IInv, PipeInv, SignalInv, [Next]_vars
  PROVE  SignalKnown'
<1> USE DEF shellVars, flagVars, threadVars, readVars, gdbVars, pipeVars
<1>t. TypeOK /\ SignalComes /\ ChunkScanned /\ Kinded /\ SignalKnown
  BY DEF IInv, SignalInv
<1>a. ASSUME UNCHANGED <<reply, command, stopped, cut>>, gdb' # "dead" => gdb # "dead",
             thread' = "reply" \/ hasReply' => thread = "reply" \/ hasReply
      PROVE  SignalKnown'
  BY <1>t, <1>a DEF SignalKnown
<1>b. ASSUME thread' # "reply", ~hasReply' PROVE SignalKnown'
  BY <1>b DEF SignalKnown
<1>1. ASSUME NEW k \in Kinds, ExecuteCommand(k) PROVE SignalKnown'
  BY <1>b, <1>1 DEF ExecuteCommand, IInv, TypeOK, ControlType, Handshake, Resting
<1>10. CASE ReadContinueReply
  BY <1>b, <1>10, WorkingIsForCommand DEF ReadContinueReply, Working
<1>2. CASE PostCommand \/ SpuriousWakeup \/ AwaitCommand \/ LockReply \/ WriteFails
           \/ ReadFails \/ ReadNothing \/ ScanLine \/ SetReply \/ UnlockReply
           \/ UnlockCommand \/ UNCHANGED vars
  BY <1>a, <1>2 DEF PostCommand, SpuriousWakeup, AwaitCommand, LockReply, WriteFails,
     ReadFails, ReadNothing, ScanLine, SetReply, UnlockReply, UnlockCommand, vars
<1>3. CASE AwaitReply
  BY <1>a, <1>3 DEF AwaitReply
<1>4. CASE ReadWelcome
  BY <1>b, <1>4, NoReplyAtWelcome DEF ReadWelcome, ReadRound
<1>5. CASE Read
  <2>1. command.kind # "continue" /\ command' = command
    BY <1>t, <1>5, WorkingIsForCommand DEF Read, Kinded, Working
  <2> QED BY <2>1 DEF SignalKnown
<1>6. CASE WriteCommand
  <2>1. cmd = command /\ ~hasReply /\ UNCHANGED <<command, hasReply>>
    BY <1>6, WorkingIsForCommand DEF WriteCommand, Working
  <2>2. thread' = "reply" => command.kind # "continue"
    BY <1>6, <2>1 DEF WriteCommand
  <2> QED BY <2>1, <2>2 DEF SignalKnown
<1>7. CASE EndOfChunk
  <2>1. CASE replyState # "prompt"
    BY <1>a, <1>7, <2>1 DEF EndOfChunk
  <2>2. CASE replyState = "prompt"
    <3>1. /\ thread = "scan" /\ chunk = <<>> /\ reply'.data = data
          /\ UNCHANGED <<command, hasReply, gdb, stopped, cut>>
      BY <1>7, <2>2 DEF EndOfChunk
    <3>2. ASSUME gdb # "dead"
          PROVE  /\ "signal" \in data => stopped = "signal"
                 /\ stopped = "signal" /\ "signal" \notin cut => "signal" \in data
      <4>1. EndsWithPrompt(message) /\ thread \in Reading
        BY <2>2, <3>1, <3>2 DEF PipeInv, Scanned, Reading
      <4>2. gdb = "prompt" /\ toGdb = <<>>
        <5>1. message \in Seq(Unit) /\ fromGdb \in Seq(Unit)
          BY <1>t, StreamTypes
        <5> QED BY <1>t, <3>2, <4>1, <5>1, WholeReply DEF PipeInv, Stream
      <4> QED BY <1>t, <2>2, <3>1, <4>2 DEF SignalComes, Scanning
    <3> QED BY <3>1, <3>2 DEF SignalKnown
  <2> QED BY <2>1, <2>2
<1>8. CASE GdbStarts \/ GdbWrites \/ GdbExecutes \/ ProgramPrints \/ GdbDies
  BY <1>a, <1>8 DEF GdbStarts, GdbWrites, GdbExecutes, ProgramPrints, GdbDies
<1>9. CASE ProgramStops
  <2>1. gdb = "running" /\ UNCHANGED <<command, thread, hasReply>>
    BY <1>9 DEF ProgramStops
  <2>2. ~((thread = "reply" \/ hasReply) /\ command.kind = "continue")
    BY <2>1, StoppedWhileAnswered
  <2> QED BY <2>1, <2>2 DEF SignalKnown
<1> QED
  BY <1>1, <1>2, <1>3, <1>4, <1>5, <1>6, <1>7, <1>8, <1>9, <1>10
     DEF Next, ShellStep, ThreadStep, GdbStep, Ended

(* A signal that stopped the program is reported with the reply to the     *)
(* command that ran it, unless a read ended inside of the line that tells  *)
(* of it, and no other is: wherever else the reads cut the reply, and      *)
(* whatever the program printed before, also without a newline.            *)
THEOREM SignalsAreReported == Spec => []SignalReported
<1>1. IInv /\ PipeInv /\ SignalInv /\ (IInv /\ PipeInv)' /\ [Next]_vars => SignalInv'
  <2> SUFFICES ASSUME IInv, PipeInv, SignalInv, IInv', [Next]_vars PROVE SignalInv'
    OBVIOUS
  <2>1. TypeOK' /\ ChunkScanned /\ Kinded /\ CutKnown
    BY DEF IInv, SignalInv
  <2> QED BY <2>1, SignalComesStep, ChunkScannedStep, CutKnownStep, KindedStep, SignalKnownStep DEF SignalInv
<1>2. SignalInv => SignalReported
  BY DEF SignalInv, SignalKnown, SignalReported
<1> QED BY PipeInductive, SignalInit, <1>1, <1>2, PTL DEF Spec

---------------------------------------------------------------------------
(***************************************************************************)
(* The channel implements the abstract command service, for every number   *)
(* of commands, every amount of output and every size of the buffer,       *)
(* provided gdb does not end by itself: every step of the two threads, of  *)
(* the program and of gdb maps to a step of CommandService or to a stutter.*)
(*                                                                         *)
(* Of the steps only ExecuteCommand, SetReply and AwaitReply change what   *)
(* the caller sees.  SetReply is the one that needs PipeInv: the reply it  *)
(* announces has to be the answer to the command.  The others need that    *)
(* gdb is gone only when it was asked to quit.                             *)
(***************************************************************************)

(* The commands are counted, and the service has not been used while gdb   *)
(* says welcome.                                                           *)
Counted ==
  /\ \/ command = None /\ issued = 0
     \/ command \in Command /\ command.num = issued
  /\ thread = "welcome" /\ shell = "idle" => command = None

(* gdb ends because the shell closed the session with the quit command.    *)
QuitSent == gdb = "dead" \/ \E i \in DOMAIN toGdb : toGdb[i].kind = "quit"
OnlyQuitEnds ==
  /\ thread # "stopped" /\ shell # "killed"
  /\ QuitSent => /\ command # None /\ command.kind = "quit" /\ ~hasCommand
                 /\ shell \in {"test", "asleep", "closed"}
                 /\ thread \in {"reply", "unlock", "unlockCommand", "ended"}

ServiceInv == Counted /\ OnlyQuitEnds

LEMMA ServiceInit == Init => ServiceInv
BY DEF Init, ServiceInv, Counted, OnlyQuitEnds, QuitSent

LEMMA CountedStep ==
  ASSUME IInv, ServiceInv, [Next]_vars
  PROVE  Counted'
<1> USE DEF shellVars, flagVars, threadVars, readVars, gdbVars, pipeVars
<1>t. TypeOK /\ Handshake /\ Counted
  BY DEF IInv, ServiceInv
<1>a. ASSUME UNCHANGED <<command, issued>>,
             thread' = "welcome" /\ shell' = "idle" => thread = "welcome" /\ shell = "idle"
      PROVE  Counted'
  BY <1>t, <1>a DEF Counted
<1>1. ASSUME NEW k \in Kinds, ExecuteCommand(k) PROVE Counted'
  <2>1. /\ issued' = issued + 1 /\ command' = [num |-> issued + 1, kind |-> k]
        /\ shell' = "post" /\ issued \in 0..MaxCommands /\ issued < MaxCommands
    BY <1>t, <1>1 DEF ExecuteCommand, TypeOK, DataType
  <2>2. command' \in Command
    BY <2>1, ChannelAssumption DEF Command
  <2> QED BY <2>1, <2>2 DEF Counted
<1>3. CASE AwaitReply
  <2>1. CASE hasReply
    <3>1. thread # "welcome"
      BY <1>t, <1>3, <2>1 DEF AwaitReply, Handshake, Working
    <3> QED BY <1>a, <1>3, <2>1, <3>1 DEF AwaitReply
  <2>2. CASE ~hasReply
    BY <1>a, <1>3, <2>2 DEF AwaitReply
  <2> QED BY <2>1, <2>2
<1>2. CASE PostCommand \/ SpuriousWakeup \/ WriteFails \/ ReadFails \/ SetReply
  BY <1>a, <1>2 DEF PostCommand, SpuriousWakeup, WriteFails, ReadFails, SetReply
<1>4. CASE ReadWelcome \/ Read
  BY <1>a, <1>4 DEF ReadWelcome, Read, ReadRound
<1>5. CASE AwaitCommand \/ LockReply \/ WriteCommand \/ ReadContinueReply \/ ScanLine
  BY <1>a, <1>5 DEF AwaitCommand, LockReply, WriteCommand, ReadContinueReply, ScanLine
<1>6. CASE EndOfChunk \/ UnlockReply \/ UnlockCommand
  BY <1>a, <1>6 DEF EndOfChunk, UnlockReply, UnlockCommand
<1>7. CASE GdbStarts \/ GdbWrites \/ GdbExecutes \/ ProgramPrints \/ ProgramStops \/ GdbDies
  BY <1>a, <1>7 DEF GdbStarts, GdbWrites, GdbExecutes, ProgramPrints, ProgramStops, GdbDies
<1>8. CASE UNCHANGED vars \/ ReadNothing
  BY <1>a, <1>8 DEF ReadNothing, vars
<1> QED
  BY <1>1, <1>2, <1>3, <1>4, <1>5, <1>6, <1>7, <1>8
     DEF Next, ShellStep, ThreadStep, GdbStep, Ended

(* Appending a command to the pipe, and taking its first one.              *)
LEMMA AppendKinds ==
  ASSUME NEW s \in Seq(Command), NEW c \in Command
  PROVE  \A i \in DOMAIN Append(s, c) : Append(s, c)[i].kind = "quit"
           => c.kind = "quit" \/ \E j \in DOMAIN s : s[j].kind = "quit"
OBVIOUS

LEMMA TailKinds ==
  ASSUME NEW s \in Seq(Command), s # <<>>
  PROVE  /\ 1 \in DOMAIN s /\ Head(s) = s[1]
         /\ \A i \in DOMAIN Tail(s) : Tail(s)[i].kind = "quit"
              => \E j \in DOMAIN s : s[j].kind = "quit"
<1>1. /\ Len(s) \in Nat /\ Len(s) > 0 /\ Len(Tail(s)) = Len(s) - 1 /\ Tail(s) \in Seq(Command)
  OBVIOUS
<1>2. ASSUME NEW i \in 1..Len(s) - 1 PROVE Tail(s)[i] = s[i + 1] /\ i + 1 \in DOMAIN s
  BY <1>1
<1> QED BY <1>1, <1>2

LEMMA OnlyQuitEndsStep ==
  ASSUME ~GdbMayDie, ~ReadsMayFail, IInv, ServiceInv, [Next]_vars
  PROVE  OnlyQuitEnds'
<1> USE DEF shellVars, flagVars, threadVars, readVars, gdbVars, pipeVars
<1>t. TypeOK /\ Handshake /\ OnlyQuitEnds /\ Counted
  BY DEF IInv, ServiceInv
<1>a. ASSUME QuitSent' => QuitSent, UNCHANGED <<command, hasCommand, shell, thread>>
      PROVE  OnlyQuitEnds'
  BY <1>t, <1>a DEF OnlyQuitEnds
<1>b. ASSUME UNCHANGED <<gdb, toGdb>> PROVE QuitSent' => QuitSent
  BY <1>b DEF QuitSent
<1>1. ASSUME NEW k \in Kinds, ExecuteCommand(k) PROVE OnlyQuitEnds'
  BY <1>t, <1>b, <1>1 DEF ExecuteCommand, OnlyQuitEnds
<1>2. CASE PostCommand
  BY <1>t, <1>b, <1>2 DEF PostCommand, OnlyQuitEnds
<1>3. CASE AwaitReply
  <2>1. CASE hasReply
    BY <1>t, <1>b, <1>3, <2>1 DEF AwaitReply, OnlyQuitEnds
  <2>2. CASE ~hasReply
    BY <1>t, <1>b, <1>3, <2>2 DEF AwaitReply, OnlyQuitEnds
  <2> QED BY <2>1, <2>2
<1>4. CASE SpuriousWakeup
  BY <1>t, <1>b, <1>4 DEF SpuriousWakeup, OnlyQuitEnds
<1>5. CASE ReadWelcome
  BY <1>t, <1>b, <1>5 DEF ReadWelcome, ReadRound, OnlyQuitEnds
<1>6. CASE AwaitCommand
  <2>1. ~QuitSent' /\ thread' \in {"lock", "asleep"} /\ shell' = shell
    BY <1>t, <1>b, <1>6 DEF AwaitCommand, OnlyQuitEnds
  <2> QED BY <1>t, <2>1 DEF OnlyQuitEnds
<1>7. CASE LockReply
  BY <1>t, <1>b, <1>7 DEF LockReply, OnlyQuitEnds
<1>8. CASE WriteCommand
  <2>1. /\ thread = "write" /\ cmd \in Command /\ cmd = command /\ cmd.kind \in Kinds
        /\ shell \in {"test", "asleep"} /\ ~hasCommand /\ toGdb \in Seq(Command)
    BY <1>t, <1>8, WorkingIsForCommand DEF WriteCommand, Working, IInv, Handshake, TypeOK, DataType, Command
  <2>2. /\ toGdb' = Append(toGdb, cmd)
        /\ UNCHANGED <<shell, command, hasCommand, gdb>>
        /\ cmd.kind = "quit" => thread' = "reply"
        /\ thread' \in {"read", "readContinue", "reply"}
    BY <1>8 DEF WriteCommand
  <2>3. ~QuitSent
    BY <1>t, <2>1 DEF OnlyQuitEnds
  <2>4. QuitSent' => cmd.kind = "quit"
    BY <2>1, <2>2, <2>3, AppendKinds DEF QuitSent
  <2>5. command # None
    BY <2>1, CommandIsNotNone
  <2> QED BY <1>t, <2>1, <2>2, <2>4, <2>5 DEF OnlyQuitEnds
<1>9. CASE WriteFails \/ ReadFails
  BY <1>t, <1>9 DEF WriteFails, ReadFails, OnlyQuitEnds, QuitSent
<1>10. CASE Read
  BY <1>t, <1>b, <1>10 DEF Read, ReadRound, OnlyQuitEnds
<1>11. CASE ReadContinueReply
  BY <1>t, <1>b, <1>11 DEF ReadContinueReply, OnlyQuitEnds
<1>12. CASE ReadNothing \/ UNCHANGED vars
  BY <1>a, <1>b, <1>12 DEF ReadNothing, vars
<1>13. CASE ScanLine
  BY <1>a, <1>b, <1>13 DEF ScanLine
<1>14. CASE EndOfChunk
  BY <1>t, <1>b, <1>14 DEF EndOfChunk, OnlyQuitEnds
<1>15. CASE SetReply
  BY <1>t, <1>b, <1>15 DEF SetReply, OnlyQuitEnds
<1>16. CASE UnlockReply
  BY <1>t, <1>b, <1>16 DEF UnlockReply, OnlyQuitEnds
<1>17. CASE UnlockCommand
  <2>1. ASSUME QuitSent PROVE cmd.kind = "quit"
    BY <1>t, <1>17, <2>1 DEF UnlockCommand, OnlyQuitEnds, Handshake, Working
  <2> QED BY <1>t, <1>b, <1>17, <2>1 DEF UnlockCommand, OnlyQuitEnds
<1>18. CASE GdbStarts \/ GdbWrites \/ ProgramPrints \/ ProgramStops
  BY <1>a, <1>18 DEF GdbStarts, GdbWrites, ProgramPrints, ProgramStops, QuitSent
<1>19. CASE GdbExecutes
  <2>1. toGdb \in Seq(Command) /\ toGdb # <<>> /\ toGdb' = Tail(toGdb)
        /\ (gdb' = "dead" => Head(toGdb).kind = "quit")
        /\ UNCHANGED <<command, hasCommand, shell, thread>>
    BY <1>t, <1>19 DEF GdbExecutes, TypeOK, DataType
  <2>2. QuitSent' => QuitSent
    BY <2>1, TailKinds DEF QuitSent
  <2> QED BY <1>a, <2>1, <2>2
<1>20. CASE GdbDies
  BY <1>20 DEF GdbDies
<1> QED
  BY <1>1, <1>2, <1>3, <1>4, <1>5, <1>6, <1>7, <1>8, <1>9, <1>10, <1>11, <1>12, <1>13, <1>14, <1>15,
     <1>16, <1>17, <1>18, <1>19, <1>20
     DEF Next, ShellStep, ThreadStep, GdbStep, Ended

---------------------------------------------------------------------------
(* What the caller sees of a state.                                        *)

(* A reply that is the command's own, and not empty, is its answer.        *)
LEMMA AnswerOfReply ==
  ASSUME IInv, PipeInv, ServiceInv, thread = "reply"
  PROVE  /\ command \in Command /\ shell \in {"test", "asleep"} /\ ~hasReply
         /\ command.kind # "quit" => AnswerOf(reply.units) = command.num
<1>1. /\ command \in Command /\ shell \in {"test", "asleep"} /\ ~hasReply
  BY WorkingIsForCommand DEF Working, IInv, Handshake, TypeOK, ControlType
<1>2. ASSUME command.kind # "quit" PROVE AnswerOf(reply.units) = command.num
  <2>1. gdb # "dead" /\ reply.units \in Seq(Unit)
    BY <1>2 DEF ServiceInv, OnlyQuitEnds, QuitSent, IInv, TypeOK, DataType
  <2>2. AllOf(reply.units, command.num) /\ EndsWithPrompt(reply.units)
    BY <1>2, <2>1 DEF PipeInv, Answered, GoodReply
  <2>3. reply.units # <<>> /\ 1 \in DOMAIN reply.units
    BY <2>1, <2>2 DEF EndsWithPrompt
  <2> QED BY <2>2, <2>3 DEF AllOf, AnswerOf
<1> QED BY <1>1, <1>2

(* A step that leaves the shell, its command and the flag alone is a       *)
(* stutter; it changes the reply at most while the caller waits, before it *)
(* has called, or after it has closed the service.                         *)
LEMMA Stutters ==
  ASSUME UNCHANGED <<command, hasReply>>,
         shell' = shell \/ {shell, shell'} \subseteq {"post", "test", "asleep"},
         \/ reply' = reply
         \/ phase = "called" \/ command = None \/ command.kind = "quit"
  PROVE  UNCHANGED <<phase, request, answer>>
<1>1. phase' = phase /\ request' = request
  BY DEF phase, request
<1>2. CASE reply' = reply
  BY <1>1, <1>2 DEF answer
<1>3. CASE phase = "called"
  BY <1>1, <1>3 DEF answer
<1>4. CASE command = None
  BY <1>1, <1>4 DEF answer, request
<1>5. CASE command # None /\ command.kind = "quit"
  BY <1>1, <1>5 DEF answer, request
<1> QED BY <1>2, <1>3, <1>4, <1>5

LEMMA ServiceStep ==
  ASSUME ~GdbMayDie, ~ReadsMayFail, IInv, PipeInv, ServiceInv, [Next]_vars
  PROVE  [Service!Next]_(Service!svars)
<1> USE DEF shellVars, flagVars, threadVars, readVars, gdbVars, pipeVars
<1>t. TypeOK /\ ControlType /\ Handshake /\ Counted /\ OnlyQuitEnds /\ None \notin Command
  BY CommandIsNotNone DEF IInv, ServiceInv, TypeOK
<1>s. ASSUME UNCHANGED <<phase, request, answer>> PROVE [Service!Next]_(Service!svars)
  BY <1>s DEF Service!svars
<1>w. ASSUME thread \in Working PROVE phase = "called"
  BY <1>t, <1>w, WorkingIsForCommand DEF Handshake, Working, Resting, phase, OnlyQuitEnds, ControlType, IInv
<1>1. ASSUME NEW k \in Kinds, ExecuteCommand(k) PROVE Service!Call
  <2>1. /\ shell = "idle" /\ command' = [num |-> issued + 1, kind |-> k]
        /\ shell' = "post" /\ ~hasReply' /\ issued' = issued + 1
    BY <1>1 DEF ExecuteCommand
  <2>2. command' # None
    BY <2>1, <1>t, NoneAssumption DEF TypeOK, DataType
  <2>3. request.num = issued
    BY <1>t DEF Counted, request
  <2>4. phase = "idle" /\ phase' = "called"
    BY <2>1 DEF phase
  <2>5. answer' = 0
    BY <2>4 DEF answer
  <2>6. request' = [num |-> request.num + 1, kind |-> k]
    BY <2>1, <2>2, <2>3 DEF request
  <2> QED BY <2>4, <2>5, <2>6 DEF Service!Call
<1>2. CASE PostCommand
  BY <1>s, <1>2, Stutters DEF PostCommand
<1>3. CASE AwaitReply
  <2>1. CASE hasReply
    <3>1. /\ shell = "test" /\ ~hasReply' /\ command \in Command /\ command' = command /\ reply' = reply
          /\ shell' = IF command.kind = "quit" THEN "closed" ELSE "idle"
      BY <1>t, <1>3, <2>1 DEF AwaitReply, Handshake
    <3>2. request = command /\ request' = command
      BY <1>t, <3>1 DEF request
    <3>3. phase = "answered" /\ phase' = IF request.kind \in {"quit"} THEN "closed" ELSE "idle"
      BY <2>1, <3>1, <3>2 DEF phase
    <3>4. answer' = answer
      BY <3>1, <3>2, <3>3 DEF answer
    <3>5. Service!Return
      BY <3>2, <3>3, <3>4 DEF Service!Return
    <3> QED BY <3>5 DEF Service!Next
  <2>2. CASE ~hasReply
    BY <1>s, <1>3, <2>2, Stutters DEF AwaitReply
  <2> QED BY <2>1, <2>2
<1>4. CASE SpuriousWakeup
  BY <1>s, <1>4, Stutters DEF SpuriousWakeup
<1>5. CASE ReadWelcome
  <2>1. phase = "called" \/ command = None \/ command.kind = "quit"
    BY <1>t, <1>5, NoReplyAtWelcome DEF ReadWelcome, Counted, phase, OnlyQuitEnds, ControlType, Handshake, Resting
  <2> QED BY <1>s, <1>5, <2>1, Stutters DEF ReadWelcome
<1>6. CASE AwaitCommand
  BY <1>s, <1>6, Stutters DEF AwaitCommand
<1>7. CASE LockReply
  BY <1>s, <1>7, Stutters DEF LockReply
<1>8. CASE WriteCommand \/ Read \/ EndOfChunk
  <2>1. phase = "called"
    BY <1>w, <1>8 DEF WriteCommand, Read, EndOfChunk, Working
  <2>2. UNCHANGED <<command, hasReply, shell>>
    BY <1>8 DEF WriteCommand, Read, EndOfChunk
  <2> QED BY <1>s, <2>1, <2>2, Stutters
<1>9. CASE WriteFails \/ ReadFails
  BY <1>t, <1>9 DEF WriteFails, ReadFails, OnlyQuitEnds, QuitSent
<1>11. CASE ReadContinueReply \/ ScanLine \/ ReadNothing \/ UNCHANGED vars
  <2>1. UNCHANGED <<command, hasReply, shell, reply>>
    BY <1>11 DEF ReadContinueReply, ScanLine, ReadNothing, vars
  <2> QED BY <1>s, <2>1, Stutters
<1>15. CASE SetReply
  <2>1. /\ thread = "reply" /\ hasReply' /\ command' = command /\ reply' = reply
        /\ shell' = IF shell = "asleep" THEN "test" ELSE shell
    BY <1>15 DEF SetReply
  <2>2. /\ command \in Command /\ shell \in {"test", "asleep"} /\ ~hasReply
        /\ command.kind # "quit" => AnswerOf(reply.units) = command.num
    BY <2>1, AnswerOfReply
  <2>3. request = command /\ request' = command
    BY <1>t, <2>1, <2>2 DEF request
  <2>4. phase = "called" /\ phase' = "answered"
    BY <2>1, <2>2 DEF phase
  <2>5. answer' = request.num
    BY <2>1, <2>2, <2>3, <2>4 DEF answer
  <2>6. Service!Answer
    BY <2>3, <2>4, <2>5 DEF Service!Answer
  <2> QED BY <2>6 DEF Service!Next
<1>16. CASE UnlockReply \/ UnlockCommand
  <2>1. UNCHANGED <<command, hasReply, shell, reply>>
    BY <1>16 DEF UnlockReply, UnlockCommand
  <2> QED BY <1>s, <2>1, Stutters
<1>18. CASE GdbStarts \/ GdbWrites \/ GdbExecutes \/ ProgramPrints \/ ProgramStops \/ GdbDies
  <2>1. UNCHANGED <<command, hasReply, shell, reply>>
    BY <1>18 DEF GdbStarts, GdbWrites, GdbExecutes, ProgramPrints, ProgramStops, GdbDies
  <2> QED BY <1>s, <2>1, Stutters
<1> QED
  BY <1>1, <1>2, <1>3, <1>4, <1>5, <1>6, <1>7, <1>8, <1>9, <1>11, <1>15, <1>16, <1>18
     DEF Next, ShellStep, ThreadStep, GdbStep, Ended, Service!Next

LEMMA ServiceStart == Init => Service!Init
BY DEF Init, Service!Init, phase, request, answer

(* While gdb does not end by itself and no read fails, Gdb::ExecuteCommand keeps what        *)
(* CommandService promises its caller: one answer to each command, its     *)
(* own, before the next command can be given; after quit, no more.         *)
THEOREM ServiceIsImplemented ==
  ASSUME ~GdbMayDie, ~ReadsMayFail PROVE Spec => Service!SafeSpec
<1>1. ServiceInv /\ IInv /\ PipeInv /\ [Next]_vars => ServiceInv'
  BY CountedStep, OnlyQuitEndsStep DEF ServiceInv
<1>2. Spec => [](IInv /\ PipeInv /\ ServiceInv)
  BY PipeInductive, ServiceInit, <1>1, PTL DEF Spec
<1>3. IInv /\ PipeInv /\ ServiceInv /\ [Next]_vars => [Service!Next]_(Service!svars)
  BY ServiceStep
<1> QED BY <1>2, <1>3, ServiceStart, PTL DEF Spec, Service!SafeSpec
===========================================================================

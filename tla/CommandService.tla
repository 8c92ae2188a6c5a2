-------------------------- MODULE CommandService --------------------------
(***************************************************************************)
(* What Gdb::ExecuteCommand promises its caller: a debugger command is     *)
(* handed over, exactly one answer is produced for it, the answer is the   *)
(* answer to that command and no other, and the caller gets it before it   *)
(* can hand over the next command.  After the quit command the service is  *)
(* closed.  GdbChannel is the implementation with two threads, two         *)
(* condition variables and a gdb process behind two pipes.                 *)
(***************************************************************************)
EXTENDS Naturals

CONSTANTS Kinds,     \* kinds of gdb commands
          Closing,   \* the kinds after which the service is closed
          None       \* no command

VARIABLES phase,     \* where the caller is: idle, called, answered, closed
          request,   \* number and kind of the command handed over
          answer     \* number of the command the answer belongs to, 0: no answer

svars == <<phase, request, answer>>

Init == /\ phase = "idle"
        /\ request = [num |-> 0, kind |-> None]
        /\ answer = 0

Call == /\ phase = "idle"
        /\ \E k \in Kinds : request' = [num |-> request.num + 1, kind |-> k]
        /\ phase' = "called"
        /\ answer' = 0

Answer == /\ phase = "called"
          /\ answer' = request.num
          /\ phase' = "answered"
          /\ UNCHANGED request

Return == /\ phase = "answered"
          /\ phase' = IF request.kind \in Closing THEN "closed" ELSE "idle"
          /\ UNCHANGED <<request, answer>>

Next == Call \/ Answer \/ Return

Fairness == WF_svars(Answer) /\ WF_svars(Return)

Spec == Init /\ [][Next]_svars /\ Fairness

(* The safety half, which TLAPS can prove an implementation of.            *)
SafeSpec == Init /\ [][Next]_svars
===========================================================================

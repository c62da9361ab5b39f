------------------------- MODULE MIControllerProofs -------------------------
(***************************************************************************)
(* The controller's safety for any number of tasks, any queue limit and    *)
(* any number of commands, late answers and cancelled calls.               *)
(***************************************************************************)
EXTENDS MIController, TLAPS, FiniteSetTheorems, SequenceTheorems

OnTheWire == {"draining", "reading"}

(* Tokens and serial numbers run in step, so that a token found in a       *)
(* record names one command; and a task's outcome is cleared while it is   *)
(* in execute, so that it is never judged against a later command.         *)
CorrelationInv ==
    /\ nextToken = sent + 1
    /\ \A t \in Tasks : pc[t] \in OnTheWire => token[t] = cmd[t]
    /\ \A i \in 1..Len(stdin) : stdin[i].token = stdin[i].cmd
    /\ \A i \in 1..Len(stdout) :
          stdout[i].kind = "result" => stdout[i].token = stdout[i].cmd
    /\ \A t \in Tasks : pc[t] # "idle" => outcome[t].how = "none"

Inv ==
    /\ TypeOK
    /\ LockIsHeldByTheCommand
    /\ QueueAccounting
    /\ CorrelationInv
    /\ ResultIsOwn

USE DEF OnTheWire

-----------------------------------------------------------------------------
(* The set of tasks in execute is finite, so its cardinality is a number.  *)
LEMMA InExecuteFinite ==
    /\ IsFiniteSet(InExecute)
    /\ Cardinality(InExecute) \in Nat
  BY ControllerAssumption, FS_Subset, FS_CardinalityType DEF InExecute

(* A task that enters execute adds one to the tasks in execute. *)
LEMMA EnterCount ==
    ASSUME TypeOK, NEW t \in Tasks, pc[t] = "idle",
           pc' = [pc EXCEPT ![t] = "waiting"]
    PROVE  Cardinality(InExecute') = Cardinality(InExecute) + 1
  <1>1. InExecute' = InExecute \cup {t} /\ t \notin InExecute
    BY DEF InExecute, TypeOK
  <1> QED
    BY <1>1, InExecuteFinite, FS_AddElement

(* A task that leaves execute takes one away; before, there was one.       *)
LEMMA LeaveCount ==
    ASSUME TypeOK, NEW t \in Tasks, pc[t] # "idle",
           pc' = [pc EXCEPT ![t] = "idle"]
    PROVE  /\ Cardinality(InExecute') = Cardinality(InExecute) - 1
           /\ Cardinality(InExecute) > 0
  <1>1. InExecute' = InExecute \ {t} /\ t \in InExecute
    BY DEF InExecute, TypeOK
  <1>2. IsFiniteSet(InExecute')
    BY <1>1, InExecuteFinite, FS_Subset
  <1>3. Cardinality(InExecute') \in Nat
    BY <1>2, FS_CardinalityType
  <1>4. Cardinality(InExecute') = Cardinality(InExecute) - 1
    BY <1>1, InExecuteFinite, FS_RemoveElement
  <1> QED
    BY <1>3, <1>4, InExecuteFinite

(* A task that moves on inside execute leaves the set as it is.            *)
LEMMA SameCount ==
    ASSUME TypeOK, NEW t \in Tasks, pc[t] # "idle", NEW p, p # "idle",
           pc' = [pc EXCEPT ![t] = p]
    PROVE  InExecute' = InExecute
  BY DEF InExecute, TypeOK

(* The head of a nonempty pipe is one of its records, and what is left     *)
(* after reading it are records of the same pipe.                          *)
LEMMA PipeTail ==
    ASSUME NEW S, NEW s \in Seq(S), s # <<>>
    PROVE  /\ Head(s) \in S /\ Head(s) = s[1] /\ 1 \in 1..Len(s)
           /\ Tail(s) \in Seq(S)
           /\ \A i \in 1..Len(Tail(s)) : /\ i + 1 \in 1..Len(s)
                                         /\ Tail(s)[i] = s[i+1]
  BY HeadTailProperties

(* Writing to a pipe adds one record at its end.                           *)
LEMMA PipeAppend ==
    ASSUME NEW S, NEW s \in Seq(S), NEW e \in S
    PROVE  /\ Append(s, e) \in Seq(S)
           /\ \A i \in 1..Len(Append(s, e)) :
                 \/ i \in 1..Len(s) /\ Append(s, e)[i] = s[i]
                 \/ Append(s, e)[i] = e
  BY AppendProperties

-----------------------------------------------------------------------------
(* The invariant holds when the controller is created.                     *)
LEMMA InitInv == Init => Inv
  <1> SUFFICES ASSUME Init PROVE Inv
    OBVIOUS
  <1>1. TypeOK
    BY DEF Init, TypeOK, NoOutcome, Outcome
  <1>2. InExecute = {}
    BY DEF Init, InExecute
  <1>3. QueueAccounting
    BY <1>2, FS_EmptySet, ControllerAssumption DEF Init, QueueAccounting
  <1>4. LockIsHeldByTheCommand
    BY ControllerAssumption DEF Init, LockIsHeldByTheCommand
  <1>5. CorrelationInv
    BY DEF Init, CorrelationInv
  <1>6. ResultIsOwn
    BY DEF Init, ResultIsOwn, NoOutcome
  <1> QED
    BY <1>1, <1>3, <1>4, <1>5, <1>6 DEF Inv

(* Taking a slot and a place in the line.                                  *)
LEMMA ExecuteInv ==
    ASSUME Inv, NEW t \in Tasks, Execute(t)
    PROVE  Inv'
  <1> USE DEF Inv
  <1>1. TypeOK'
    <2>1. waiters' \in Seq(Tasks)
      BY PipeAppend DEF TypeOK, Execute
    <2>2. queued' \in Nat
      BY DEF TypeOK, Execute
    <2>3. outcome' \in [Tasks -> Outcome]
      BY DEF TypeOK, Execute, NoOutcome, Outcome
    <2>4. pc' \in [Tasks -> {"idle", "waiting", "draining", "reading"}]
      BY DEF TypeOK, Execute
    <2>5. UNCHANGED <<holder, nextToken, token, stdin, stdout, gdbAlive, lines,
                      sent, cmd>>
      BY DEF Execute, gdbVars
    <2> QED
      BY <2>1, <2>2, <2>3, <2>4, <2>5 DEF TypeOK
  <1>2. QueueAccounting'
    <2>1. Cardinality(InExecute') = Cardinality(InExecute) + 1
      BY EnterCount DEF Execute
    <2> QED
      BY <2>1, InExecuteFinite, ControllerAssumption
      DEF QueueAccounting, Execute, QueueFull, TypeOK
  <1>3. LockIsHeldByTheCommand'
    BY DEF LockIsHeldByTheCommand, Execute, TypeOK
  <1>4. CorrelationInv'
    BY DEF CorrelationInv, Execute, gdbVars, TypeOK, NoOutcome
  <1>5. ResultIsOwn'
    BY DEF ResultIsOwn, Execute, TypeOK, NoOutcome
  <1> QED
    BY <1>1, <1>2, <1>3, <1>4, <1>5

(* A full queue refuses the command and changes nothing else.              *)
LEMMA RejectFullInv ==
    ASSUME Inv, NEW t \in Tasks, RejectFull(t)
    PROVE  Inv'
  <1> USE DEF Inv, RejectFull, lockVars, gdbVars
  <1>1. TypeOK'
    BY DEF TypeOK, Outcome
  <1>2. QueueAccounting' /\ LockIsHeldByTheCommand'
    BY DEF QueueAccounting, InExecute, LockIsHeldByTheCommand
  <1>3. CorrelationInv'
    BY DEF CorrelationInv, TypeOK
  <1>4. ResultIsOwn'
    BY DEF ResultIsOwn, TypeOK
  <1> QED
    BY <1>1, <1>2, <1>3, <1>4

(* Getting the lock, a token and the wire.                                 *)
LEMMA AcquireInv ==
    ASSUME Inv, NEW t \in Tasks, Acquire(t)
    PROVE  Inv'
  <1> USE DEF Inv, Acquire, AllocateToken
  <1> DEFINE c == [token |-> nextToken, cmd |-> sent + 1]
  <1>1. c \in Command
    BY DEF TypeOK, Command
  <1>2. waiters' \in Seq(Tasks)
    BY PipeTail DEF TypeOK
  <1>3. stdin' \in Seq(Command)
    BY <1>1, PipeAppend DEF TypeOK
  <1>4. TypeOK'
    BY <1>2, <1>3 DEF TypeOK
  <1>5. QueueAccounting'
    BY SameCount DEF QueueAccounting
  <1>6. LockIsHeldByTheCommand'
    BY ControllerAssumption DEF LockIsHeldByTheCommand, TypeOK
  <1>7. CorrelationInv'
    <2>1. nextToken' = sent' + 1
      BY DEF CorrelationInv, TypeOK
    <2>2. ASSUME NEW u \in Tasks, pc'[u] \in OnTheWire PROVE token'[u] = cmd'[u]
      BY <2>2 DEF CorrelationInv, TypeOK
    <2>3. c.token = c.cmd
      BY DEF CorrelationInv
    <2>4. ASSUME NEW i \in 1..Len(stdin') PROVE stdin'[i].token = stdin'[i].cmd
      BY <1>1, <2>3, PipeAppend DEF CorrelationInv, TypeOK
    <2>5. ASSUME NEW u \in Tasks, pc'[u] # "idle" PROVE outcome'[u].how = "none"
      BY <2>5 DEF CorrelationInv, TypeOK
    <2> QED
      BY <2>1, <2>2, <2>4, <2>5 DEF CorrelationInv
  <1>8. ResultIsOwn'
    BY DEF ResultIsOwn, CorrelationInv, TypeOK
  <1> QED
    BY <1>4, <1>5, <1>6, <1>7, <1>8

(* The command is through to GDB.                                          *)
LEMMA DrainedInv ==
    ASSUME Inv, NEW t \in Tasks, Drained(t)
    PROVE  Inv'
  <1> USE DEF Inv, Drained, lockVars, gdbVars
  <1>1. TypeOK'
    BY DEF TypeOK
  <1>2. QueueAccounting'
    BY SameCount DEF QueueAccounting
  <1>3. LockIsHeldByTheCommand'
    BY DEF LockIsHeldByTheCommand, TypeOK
  <1>4. CorrelationInv'
    BY DEF CorrelationInv, TypeOK
  <1>5. ResultIsOwn'
    BY DEF ResultIsOwn
  <1> QED
    BY <1>1, <1>2, <1>3, <1>4, <1>5

(* Every way execute can end with the lock held: it is enough that an      *)
(* answer, if there is one, is the answer to the task's own command.       *)
LEMMA LeaveInv ==
    ASSUME Inv, NEW t \in Tasks, pc[t] \in OnTheWire,
           NEW how, NEW n, [how |-> how, cmd |-> n] \in Outcome,
           how \in {"done", "error"} => n = cmd[t],
           Leave(t, how, n),
           UNCHANGED <<nextToken, token, stdin, gdbAlive, lines, sent, cmd>>,
           stdout' \in Seq(MIRecord),
           \A i \in 1..Len(stdout') :
              stdout'[i].kind = "result" => stdout'[i].token = stdout'[i].cmd
    PROVE  Inv'
  <1> USE DEF Inv, Leave
  <1>1. Cardinality(InExecute') = queued - 1 /\ queued > 0
    BY LeaveCount DEF QueueAccounting
  <1>2. queued \in Nat /\ queued' = queued - 1
    BY <1>1 DEF TypeOK
  <1>3. TypeOK'
    BY <1>1, <1>2 DEF TypeOK
  <1>4. QueueAccounting'
    BY <1>1, <1>2, ControllerAssumption DEF QueueAccounting
  <1>5. LockIsHeldByTheCommand'
    BY ControllerAssumption DEF LockIsHeldByTheCommand, TypeOK
  <1>6. CorrelationInv'
    BY DEF CorrelationInv, TypeOK
  <1>7. ResultIsOwn'
    <2>1. ASSUME NEW u \in Tasks, outcome'[u].how \in {"done", "error"}
          PROVE  outcome'[u].cmd = cmd'[u]
      <3>1. CASE u = t
        BY <2>1, <3>1 DEF TypeOK
      <3>2. CASE u # t
        BY <2>1, <3>2 DEF ResultIsOwn, TypeOK
      <3> QED
        BY <3>1, <3>2
    <2> QED
      BY <2>1 DEF ResultIsOwn
  <1> QED
    BY <1>3, <1>4, <1>5, <1>6, <1>7

(* Reading one line: the heart of token correlation.                       *)
LEMMA ReadLineInv ==
    ASSUME Inv, NEW t \in Tasks, ReadLine(t)
    PROVE  Inv'
  <1> DEFINE r == Head(stdout)
  <1>1. /\ r \in MIRecord /\ r = stdout[1] /\ 1 \in 1..Len(stdout)
        /\ stdout' \in Seq(MIRecord)
        /\ \A i \in 1..Len(stdout') :
              i + 1 \in 1..Len(stdout) /\ stdout'[i] = stdout[i+1]
    BY PipeTail DEF ReadLine, Inv, TypeOK
  <1>2. \A i \in 1..Len(stdout') :
           stdout'[i].kind = "result" => stdout'[i].token = stdout'[i].cmd
    BY <1>1 DEF Inv, CorrelationInv
  <1>3. /\ pc[t] \in OnTheWire
        /\ UNCHANGED <<nextToken, token, stdin, gdbAlive, lines, sent, cmd>>
    BY DEF ReadLine
  <1>4. CASE IsMyResult(t, r)
    <2>1. Leave(t, r.class, r.cmd)
      BY <1>4 DEF ReadLine
    <2>2. [how |-> r.class, cmd |-> r.cmd] \in Outcome
      BY <1>1 DEF MIRecord, Outcome
    <2>3. r.cmd = cmd[t]
      BY <1>1, <1>3, <1>4 DEF IsMyResult, Inv, CorrelationInv
    <2> HIDE DEF r
    <2> QED
      BY <1>1, <1>2, <1>3, <2>1, <2>2, <2>3, LeaveInv
  <1>5. CASE ~IsMyResult(t, r) /\ r.kind = "garbage"
    <2>1. Leave(t, "parse error", 0)
      BY <1>5 DEF ReadLine
    <2>2. [how |-> "parse error", cmd |-> 0] \in Outcome
      BY DEF Outcome
    <2> QED
      BY <1>1, <1>2, <1>3, <2>1, <2>2, LeaveInv
  <1>6. CASE ~IsMyResult(t, r) /\ r.kind # "garbage"
    <2>1. UNCHANGED <<pc, holder, waiters, queued, outcome>>
      BY <1>6 DEF ReadLine, lockVars
    <2>2. TypeOK'
      BY <1>1, <1>3, <2>1 DEF Inv, TypeOK
    <2>3. QueueAccounting' /\ LockIsHeldByTheCommand' /\ ResultIsOwn'
      BY <1>3, <2>1
      DEF Inv, QueueAccounting, InExecute, LockIsHeldByTheCommand, ResultIsOwn
    <2>4. CorrelationInv'
      BY <1>2, <1>3, <2>1 DEF Inv, CorrelationInv
    <2> QED
      BY <2>2, <2>3, <2>4 DEF Inv
  <1> QED
    BY <1>4, <1>5, <1>6

(* The exits without an answer: timeout, end of file, cancellation.        *)
LEMMA NoAnswerInv ==
    ASSUME Inv, NEW t \in Tasks, Timeout(t) \/ EndOfFile(t) \/ Cancel(t)
    PROVE  Inv'
  <1>1. /\ pc[t] \in OnTheWire
        /\ UNCHANGED <<nextToken, token, stdin, gdbAlive, lines, sent, cmd>>
        /\ UNCHANGED stdout
    BY DEF Timeout, EndOfFile, Cancel, gdbVars
  <1>2. /\ stdout' \in Seq(MIRecord)
        /\ \A i \in 1..Len(stdout') :
              stdout'[i].kind = "result" => stdout'[i].token = stdout'[i].cmd
    BY <1>1 DEF Inv, TypeOK, CorrelationInv
  <1>3. PICK how \in {"timeout", "closed", "cancelled"} : Leave(t, how, 0)
    BY DEF Timeout, EndOfFile, Cancel
  <1>4. [how |-> how, cmd |-> 0] \in Outcome /\ how \notin {"done", "error"}
    BY DEF Outcome
  <1> QED
    BY <1>1, <1>2, <1>3, <1>4, LeaveInv

(* Leaving the line: taking one task out of it keeps it a line of tasks.   *)
LEMMA CancelWaitingInv ==
    ASSUME Inv, NEW t \in Tasks, CancelWaiting(t)
    PROVE  Inv'
  <1> USE DEF Inv
  <1>1. waiters' \in Seq(Tasks)
    <2>1. PICK i \in 1..Len(waiters) :
             waiters' = SubSeq(waiters, 1, i - 1)
                           \o SubSeq(waiters, i + 1, Len(waiters))
      BY DEF CancelWaiting
    <2>2. waiters \in Seq(Tasks) /\ Len(waiters) \in Nat
      BY LenProperties DEF TypeOK
    <2>3. /\ SubSeq(waiters, 1, i - 1) \in Seq(Tasks)
          /\ SubSeq(waiters, i + 1, Len(waiters)) \in Seq(Tasks)
      BY <2>2, SubSeqProperties
    <2> QED
      BY <2>1, <2>3, ConcatProperties
  <1>2. Cardinality(InExecute') = queued - 1 /\ queued > 0
    BY LeaveCount DEF QueueAccounting, CancelWaiting
  <1>3. queued \in Nat /\ queued' = queued - 1
    BY <1>2 DEF TypeOK, CancelWaiting
  <1>4. TypeOK'
    <2>1. queued' \in Nat
      BY <1>2, <1>3
    <2>2. outcome' \in [Tasks -> Outcome]
      BY DEF TypeOK, CancelWaiting, Outcome
    <2>3. pc' \in [Tasks -> {"idle", "waiting", "draining", "reading"}]
      BY DEF TypeOK, CancelWaiting
    <2>4. UNCHANGED <<holder, nextToken, token, stdin, stdout, gdbAlive, lines,
                      sent, cmd>>
      BY DEF CancelWaiting, gdbVars
    <2> QED
      BY <1>1, <2>1, <2>2, <2>3, <2>4 DEF TypeOK
  <1>5. QueueAccounting'
    BY <1>2, <1>3, ControllerAssumption DEF QueueAccounting
  <1>6. LockIsHeldByTheCommand'
    BY DEF LockIsHeldByTheCommand, TypeOK, CancelWaiting
  <1>7. CorrelationInv'
    BY DEF CorrelationInv, TypeOK, CancelWaiting, gdbVars
  <1>8. ResultIsOwn'
    BY DEF ResultIsOwn, TypeOK, CancelWaiting
  <1> QED
    BY <1>4, <1>5, <1>6, <1>7, <1>8

(* What GDB does touches only the pipes, and its answers carry the token   *)
(* of the command they answer.                                             *)
LEMMA GdbInv ==
    ASSUME Inv, GdbAnswers \/ GdbPrints \/ GdbExits
    PROVE  Inv'
  <1> USE DEF taskVars, lockVars
  <1>1. /\ UNCHANGED <<pc, token, cmd, outcome, holder, waiters, queued,
                       nextToken, sent>>
    BY DEF GdbAnswers, GdbPrints, GdbExits
  <1>2. CASE GdbAnswers
    <2>1. /\ Head(stdin) \in Command /\ Head(stdin) = stdin[1]
          /\ 1 \in 1..Len(stdin)
          /\ stdin' \in Seq(Command)
          /\ \A i \in 1..Len(stdin') :
                i + 1 \in 1..Len(stdin) /\ stdin'[i] = stdin[i+1]
      BY <1>2, PipeTail DEF GdbAnswers, Inv, TypeOK
    <2>2. PICK class \in {"done", "error"} :
             stdout' = Append(stdout, [kind |-> "result", class |-> class,
                                       token |-> Head(stdin).token,
                                       cmd |-> Head(stdin).cmd])
      BY <1>2 DEF GdbAnswers
    <2> DEFINE r == [kind |-> "result", class |-> class,
                     token |-> Head(stdin).token, cmd |-> Head(stdin).cmd]
    <2>3. r \in MIRecord /\ r.token = r.cmd
      BY <2>1 DEF MIRecord, Command, Inv, CorrelationInv
    <2>4. stdout' \in Seq(MIRecord)
      BY <2>2, <2>3, PipeAppend DEF Inv, TypeOK
    <2>5. ASSUME NEW i \in 1..Len(stdout'), stdout'[i].kind = "result"
          PROVE  stdout'[i].token = stdout'[i].cmd
      <3>1. \/ i \in 1..Len(stdout) /\ stdout'[i] = stdout[i]
            \/ stdout'[i] = r
        BY <2>2, <2>3, PipeAppend DEF Inv, TypeOK
      <3> QED
        BY <2>3, <2>5, <3>1 DEF Inv, CorrelationInv
    <2>6. CorrelationInv'
      BY <1>1, <2>1, <2>5 DEF Inv, CorrelationInv
    <2>7. TypeOK'
      BY <1>1, <1>2, <2>1, <2>4 DEF Inv, TypeOK, GdbAnswers
    <2> QED
      BY <1>1, <2>6, <2>7
      DEF Inv, QueueAccounting, InExecute, LockIsHeldByTheCommand, ResultIsOwn
  <1>3. CASE GdbPrints
    <2>1. PICK kind \in {"async", "garbage"} :
             stdout' = Append(stdout, [kind |-> kind, class |-> "none",
                                       token |-> 0, cmd |-> 0])
      BY <1>3 DEF GdbPrints
    <2> DEFINE r == [kind |-> kind, class |-> "none", token |-> 0, cmd |-> 0]
    <2>2. r \in MIRecord /\ r.kind # "result" /\ stdout' = Append(stdout, r)
      BY <2>1 DEF MIRecord
    <2> HIDE DEF r
    <2>3. stdout' \in Seq(MIRecord)
      BY <2>2, PipeAppend DEF Inv, TypeOK
    <2>4. ASSUME NEW i \in 1..Len(stdout'), stdout'[i].kind = "result"
          PROVE  stdout'[i].token = stdout'[i].cmd
      <3>0. stdout \in Seq(MIRecord)
        BY DEF Inv, TypeOK
      <3>1. \/ i \in 1..Len(stdout) /\ stdout'[i] = stdout[i]
            \/ stdout'[i] = r
        BY <2>2, <3>0, PipeAppend
      <3> QED
        BY <2>2, <2>4, <3>1 DEF Inv, CorrelationInv
    <2>5. CorrelationInv'
      BY <1>1, <1>3, <2>4 DEF Inv, CorrelationInv, GdbPrints
    <2>6. TypeOK'
      BY <1>1, <1>3, <2>3 DEF Inv, TypeOK, GdbPrints
    <2> QED
      BY <1>1, <2>5, <2>6
      DEF Inv, QueueAccounting, InExecute, LockIsHeldByTheCommand, ResultIsOwn
  <1>4. CASE GdbExits
    BY <1>4 DEF GdbExits, Inv, TypeOK, CorrelationInv, QueueAccounting,
                InExecute, LockIsHeldByTheCommand, ResultIsOwn
  <1> QED
    BY <1>2, <1>3, <1>4

(* Every step of the controller and of GDB preserves the invariant.        *)
LEMMA StepInv == Inv /\ [Next]_vars => Inv'
  <1> SUFFICES ASSUME Inv, [Next]_vars PROVE Inv'
    OBVIOUS
  <1>1. ASSUME NEW t \in Tasks, Execute(t) PROVE Inv'
    BY <1>1, ExecuteInv
  <1>2. ASSUME NEW t \in Tasks, RejectFull(t) PROVE Inv'
    BY <1>2, RejectFullInv
  <1>3. ASSUME NEW t \in Tasks, Acquire(t) PROVE Inv'
    BY <1>3, AcquireInv
  <1>4. ASSUME NEW t \in Tasks, Drained(t) PROVE Inv'
    BY <1>4, DrainedInv
  <1>5. ASSUME NEW t \in Tasks, ReadLine(t) PROVE Inv'
    BY <1>5, ReadLineInv
  <1>6. ASSUME NEW t \in Tasks, Timeout(t) \/ EndOfFile(t) \/ Cancel(t)
        PROVE  Inv'
    BY <1>6, NoAnswerInv
  <1>7. ASSUME NEW t \in Tasks, CancelWaiting(t) PROVE Inv'
    BY <1>7, CancelWaitingInv
  <1>8. CASE GdbAnswers \/ GdbPrints \/ GdbExits
    BY <1>8, GdbInv
  <1>9. CASE UNCHANGED vars
    BY <1>9 DEF vars, Inv, TypeOK, CorrelationInv, QueueAccounting, InExecute,
                LockIsHeldByTheCommand, ResultIsOwn
  <1> QED
    BY <1>1, <1>2, <1>3, <1>4, <1>5, <1>6, <1>7, <1>8, <1>9 DEF Next, TaskStep

(* The invariant holds in every state of the controller.                   *)
THEOREM Invariance == Spec => []Inv
  BY InitInv, StepInv, PTL DEF Spec

(* controller.py:54-103: the controller's variables keep their types.      *)
THEOREM TypeCorrect == Spec => []TypeOK
  <1>1. Inv => TypeOK
    BY DEF Inv
  <1> QED
    BY <1>1, Invariance, PTL

(* controller.py:126: no execute is ever given another command's answer,   *)
(* however many commands timed out or were cancelled before it.            *)
THEOREM ResultCorrelation == Spec => []ResultIsOwn
  <1>1. Inv => ResultIsOwn
    BY DEF Inv
  <1> QED
    BY <1>1, Invariance, PTL

(* controller.py:70: the lock serializes commands and never leaks.         *)
THEOREM LockSafety == Spec => []LockIsHeldByTheCommand
  <1>1. Inv => LockIsHeldByTheCommand
    BY DEF Inv
  <1> QED
    BY <1>1, Invariance, PTL

(* controller.py:92-103: the queue counter is exact and within its limit.  *)
THEOREM QueueSafety == Spec => []QueueAccounting
  <1>1. Inv => QueueAccounting
    BY DEF Inv
  <1> QED
    BY <1>1, Invariance, PTL

-----------------------------------------------------------------------------
(* The pipes: commands are numbered as they are sent, the commands GDB has *)
(* not taken up come after all it has answered, and the holder's command   *)
(* is the last one sent.                                                   *)
WireInv ==
    /\ holder # NoTask => sent > 0 /\ cmd[holder] = sent
    /\ \A i \in 1..Len(stdin) : stdin[i].cmd \in 1..sent
    /\ \A i \in 1..Len(stdout) : stdout[i].cmd \in 0..sent
    /\ \A i \in 1..Len(stdout) :
          stdout[i].cmd # 0 => stdout[i].kind = "result"
    /\ \A i \in 1..Len(stdout) :
          stdout[i].kind = "result" => stdout[i].cmd # 0
    /\ \A i, j \in 1..Len(stdin) : i < j => stdin[i].cmd < stdin[j].cmd
    /\ \A i, j \in 1..Len(stdout) :
          i < j /\ stdout[j].cmd # 0 => stdout[i].cmd < stdout[j].cmd
    /\ \A i \in 1..Len(stdout), j \in 1..Len(stdin) :
          stdout[i].cmd < stdin[j].cmd

LEMMA WireInit == Init => WireInv
  BY ControllerAssumption DEF Init, WireInv

(* Reading a record or giving a command up takes nothing but the head of   *)
(* a pipe away.                                                            *)
LEMMA WireTaken ==
    ASSUME TypeOK, WireInv, UNCHANGED <<stdin, sent, cmd>>,
           holder' \in {holder, NoTask},
           stdout' = stdout \/ (stdout # <<>> /\ stdout' = Tail(stdout))
    PROVE  WireInv'
  <1>1. CASE stdout' = stdout
    BY <1>1 DEF WireInv
  <1>2. CASE stdout # <<>> /\ stdout' = Tail(stdout)
    <2>1. \A i \in 1..Len(stdout') :
             i + 1 \in 1..Len(stdout) /\ stdout'[i] = stdout[i + 1]
      BY <1>2, PipeTail DEF TypeOK
    <2>2. \A i, j \in 1..Len(stdout') :
             i < j /\ stdout'[j].cmd # 0 => stdout'[i].cmd < stdout'[j].cmd
      <3> SUFFICES ASSUME NEW i \in 1..Len(stdout'), NEW j \in 1..Len(stdout'),
                          i < j, stdout'[j].cmd # 0
                   PROVE  stdout'[i].cmd < stdout'[j].cmd
        OBVIOUS
      <3>1. /\ i + 1 \in 1..Len(stdout) /\ stdout'[i] = stdout[i + 1]
            /\ j + 1 \in 1..Len(stdout) /\ stdout'[j] = stdout[j + 1]
        BY <2>1
      <3>2. i + 1 < j + 1
        OBVIOUS
      <3> QED
        BY <3>1, <3>2 DEF WireInv
    <2>3. \A i \in 1..Len(stdout') :
             /\ stdout'[i].cmd \in 0..sent
             /\ stdout'[i].cmd # 0 => stdout'[i].kind = "result"
             /\ stdout'[i].kind = "result" => stdout'[i].cmd # 0
      BY <2>1 DEF WireInv
    <2>4. \A i \in 1..Len(stdout'), j \in 1..Len(stdin) :
             stdout'[i].cmd < stdin[j].cmd
      BY <2>1 DEF WireInv
    <2> QED
      BY <2>2, <2>3, <2>4 DEF WireInv
  <1> QED
    BY <1>1, <1>2

LEMMA WireAcquire ==
    ASSUME Inv, WireInv, NEW t \in Tasks, Acquire(t)
    PROVE  WireInv'
  <1> DEFINE n == Len(stdin)
             c == [token |-> nextToken, cmd |-> sent + 1]
  <1>1. /\ sent \in Nat /\ n \in Nat /\ sent' = sent + 1 /\ stdout' = stdout
        /\ holder' = t /\ cmd'[t] = sent + 1
    BY DEF Acquire, Inv, TypeOK
  <1>2. /\ Len(stdin') = n + 1 /\ stdin'[n + 1].cmd = sent + 1
        /\ \A i \in 1..n : stdin'[i] = stdin[i]
    BY DEF Acquire, Inv, TypeOK
  <1>3. \A i \in 1..Len(stdin') : i \in 1..n \/ i = n + 1
    BY <1>1, <1>2
  <1>4. \A i, j \in 1..Len(stdin') : i < j => stdin'[i].cmd < stdin'[j].cmd
    BY <1>1, <1>2, <1>3 DEF WireInv
  <1>5. \A i \in 1..Len(stdout'), j \in 1..Len(stdin') :
           stdout'[i].cmd < stdin'[j].cmd
    BY <1>1, <1>2, <1>3 DEF WireInv
  <1>6. \A i \in 1..Len(stdin') : stdin'[i].cmd \in 1..sent'
    BY <1>1, <1>2, <1>3 DEF WireInv
  <1> QED
    BY <1>1, <1>4, <1>5, <1>6 DEF WireInv

LEMMA WireAnswers ==
    ASSUME Inv, WireInv, GdbAnswers
    PROVE  WireInv'
  <1> DEFINE n == Len(stdout)
  <1>1. PICK r \in MIRecord :
           /\ stdout' = Append(stdout, r)
           /\ r.kind = "result" /\ r.cmd = Head(stdin).cmd
    <2>1. Head(stdin) \in Command
      BY PipeTail DEF GdbAnswers, Inv, TypeOK
    <2>2. PICK class \in {"done", "error"} :
             stdout' = Append(stdout, [kind |-> "result", class |-> class,
                                       token |-> Head(stdin).token,
                                       cmd |-> Head(stdin).cmd])
      BY DEF GdbAnswers
    <2>3. [kind |-> "result", class |-> class, token |-> Head(stdin).token,
           cmd |-> Head(stdin).cmd] \in MIRecord
      BY <2>1 DEF MIRecord, Command
    <2> QED
      BY <2>2, <2>3
  <1>2. /\ Len(stdout') = n + 1 /\ stdout'[n + 1] = r /\ n \in Nat
        /\ \A i \in 1..n : stdout'[i] = stdout[i]
    BY <1>1 DEF Inv, TypeOK
  <1>3. /\ Head(stdin) = stdin[1] /\ 1 \in 1..Len(stdin)
        /\ stdin' = Tail(stdin) /\ Len(stdin') \in Nat
        /\ \A i \in 1..Len(stdin') :
              i + 1 \in 1..Len(stdin) /\ stdin'[i] = stdin[i + 1]
    BY PipeTail DEF GdbAnswers, Inv, TypeOK
  <1>4. \A i \in 1..Len(stdout') : i \in 1..n \/ i = n + 1
    BY <1>2
  <1>5. r.cmd = stdin[1].cmd /\ r.cmd \in 1..sent /\ sent \in Nat
    BY <1>1, <1>3 DEF WireInv, Inv, TypeOK
  <1>6. UNCHANGED <<holder, sent, cmd>>
    BY DEF GdbAnswers, taskVars, lockVars
  <1>7. \A i \in 1..Len(stdout') : /\ stdout'[i].cmd \in 0..sent
                                   /\ stdout'[i].cmd # 0 => stdout'[i].kind = "result"
                                   /\ stdout'[i].kind = "result" => stdout'[i].cmd # 0
    BY <1>1, <1>2, <1>4, <1>5 DEF WireInv
  <1>8. \A i, j \in 1..Len(stdout') :
           i < j /\ stdout'[j].cmd # 0 => stdout'[i].cmd < stdout'[j].cmd
    BY <1>2, <1>3, <1>4, <1>5 DEF WireInv
  <1>9. \A i \in 1..Len(stdout'), j \in 1..Len(stdin') :
           stdout'[i].cmd < stdin'[j].cmd
    <2> SUFFICES ASSUME NEW i \in 1..Len(stdout'), NEW j \in 1..Len(stdin')
                 PROVE  stdout'[i].cmd < stdin'[j].cmd
      OBVIOUS
    <2>1. j + 1 \in 1..Len(stdin) /\ stdin'[j] = stdin[j + 1] /\ 1 < j + 1
      BY <1>3
    <2>2. CASE i \in 1..n
      BY <1>2, <2>1, <2>2 DEF WireInv
    <2>3. CASE i = n + 1
      <3>1. stdin[1].cmd < stdin[j + 1].cmd
        BY <1>3, <2>1 DEF WireInv
      <3> QED
        BY <1>2, <1>5, <2>1, <2>3, <3>1
    <2> QED
      BY <1>4, <2>2, <2>3
  <1>10. \A i, j \in 1..Len(stdin') : i < j => stdin'[i].cmd < stdin'[j].cmd
    BY <1>3 DEF WireInv
  <1>11. \A i \in 1..Len(stdin') : stdin'[i].cmd \in 1..sent
    BY <1>3 DEF WireInv
  <1> QED
    BY <1>6, <1>7, <1>8, <1>9, <1>10, <1>11 DEF WireInv

LEMMA WirePrints ==
    ASSUME Inv, WireInv, GdbPrints
    PROVE  WireInv'
  <1> DEFINE n == Len(stdout)
  <1>1. PICK r : stdout' = Append(stdout, r) /\ r.kind # "result" /\ r.cmd = 0
    BY DEF GdbPrints
  <1>2. /\ Len(stdout') = n + 1 /\ stdout'[n + 1] = r /\ n \in Nat
        /\ \A i \in 1..n : stdout'[i] = stdout[i]
    BY <1>1 DEF Inv, TypeOK
  <1>3. \A i \in 1..Len(stdout') : i \in 1..n \/ i = n + 1
    BY <1>2
  <1>4. UNCHANGED <<holder, sent, cmd, stdin>> /\ sent \in Nat
    BY DEF GdbPrints, taskVars, lockVars, Inv, TypeOK
  <1>5. \A i \in 1..Len(stdout'), j \in 1..Len(stdin') :
           stdout'[i].cmd < stdin'[j].cmd
    BY <1>1, <1>2, <1>3, <1>4 DEF WireInv
  <1>6. \A i, j \in 1..Len(stdout') :
           i < j /\ stdout'[j].cmd # 0 => stdout'[i].cmd < stdout'[j].cmd
    BY <1>1, <1>2, <1>3, <1>4 DEF WireInv
  <1> QED
    BY <1>1, <1>2, <1>3, <1>4, <1>5, <1>6 DEF WireInv

LEMMA WireStep == Inv /\ WireInv /\ [Next]_vars => WireInv'
  <1> SUFFICES ASSUME Inv, WireInv, [Next]_vars PROVE WireInv'
    OBVIOUS
  <1>1. ASSUME NEW t \in Tasks, Acquire(t) PROVE WireInv'
    BY <1>1, WireAcquire
  <1>2. ASSUME NEW t \in Tasks, ReadLine(t) PROVE WireInv'
    BY <1>2, WireTaken DEF ReadLine, Leave, lockVars, Inv
  <1>3. ASSUME NEW t \in Tasks,
               \/ Execute(t) \/ RejectFull(t) \/ Drained(t) \/ Timeout(t)
               \/ EndOfFile(t) \/ Cancel(t) \/ CancelWaiting(t)
        PROVE  WireInv'
    BY <1>3, WireTaken
    DEF Execute, RejectFull, Drained, Timeout, EndOfFile, Cancel, CancelWaiting,
        Leave, lockVars, gdbVars, taskVars, Inv
  <1>4. CASE GdbAnswers
    BY <1>4, WireAnswers
  <1>5. CASE GdbPrints
    BY <1>5, WirePrints
  <1>6. CASE GdbExits \/ UNCHANGED vars
    BY <1>6, WireTaken DEF GdbExits, taskVars, lockVars, vars, Inv
  <1> QED
    BY <1>1, <1>2, <1>3, <1>4, <1>5, <1>6 DEF Next, TaskStep

LEMMA WireInvariance == Spec => [](Inv /\ WireInv)
  BY InitInv, StepInv, WireInit, WireStep, PTL DEF Spec
-----------------------------------------------------------------------------
(***************************************************************************)
(* The controller implements the exchange its callers see, step by step.   *)
(***************************************************************************)
Owners == Tasks \cup {NoTask}
SeenRecord == [owner : Owners, parses : BOOLEAN]

(* Whom a serial number belongs to. *)
LEMMA OwnerType ==
    ASSUME TypeOK, NEW n
    PROVE  /\ Owner(n) \in Owners
           /\ holder = NoTask => Owner(n) = NoTask
           /\ n = cmd[holder] /\ holder # NoTask => Owner(n) = holder
           /\ n # cmd[holder] => Owner(n) = NoTask
  BY DEF Owner, TypeOK, Owners

(* The pipes as the callers see them, entry by entry. *)
LEMMA SeenPipes ==
    ASSUME TypeOK
    PROVE  /\ Written \in Seq(Owners) /\ Len(Written) = Len(stdin)
           /\ \A i \in 1..Len(stdin) : Written[i] = Owner(stdin[i].cmd)
           /\ Records \in Seq(SeenRecord) /\ Len(Records) = Len(stdout)
           /\ \A i \in 1..Len(stdout) :
                 /\ Records[i].owner = Owner(stdout[i].cmd)
                 /\ Records[i].parses = (stdout[i].kind # "garbage")
           /\ Len(stdin) \in Nat /\ Len(stdout) \in Nat
  <1>1. Len(stdin) \in Nat /\ Len(stdout) \in Nat
    BY LenProperties DEF TypeOK
  <1>2. \A n : Owner(n) \in Owners
    BY OwnerType
  <1> HIDE DEF Owner
  <1>3. Written \in [1..Len(stdin) -> Owners]
    BY <1>2 DEF Written
  <1>4. Records \in [1..Len(stdout) -> SeenRecord]
    BY <1>2 DEF Records, SeenRecord
  <1>5. Written \in Seq(Owners) /\ Len(Written) = Len(stdin)
    BY <1>1, <1>3
  <1>6. Records \in Seq(SeenRecord) /\ Len(Records) = Len(stdout)
    BY <1>1, <1>4
  <1> QED
    BY <1>1, <1>5, <1>6 DEF Written, Records

(* The line as the callers see it, place by place. *)
LEMMA SeenLine ==
    ASSUME TypeOK
    PROVE  /\ waiters \in Seq(Tasks) /\ Line \in Seq(Tasks)
           /\ holder = NoTask => Line = waiters
           /\ holder # NoTask => /\ Len(Line) = Len(waiters) + 1
                                 /\ Line[1] = holder
                                 /\ \A i \in 1..Len(waiters) :
                                       Line[i + 1] = waiters[i]
           /\ Len(waiters) \in Nat
  <1>1. waiters \in Seq(Tasks) /\ Len(waiters) \in Nat
    BY LenProperties DEF TypeOK
  <1>2. CASE holder = NoTask
    BY <1>1, <1>2 DEF Line
  <1>3. CASE holder # NoTask
    <2>1. Line = <<holder>> \o waiters /\ <<holder>> \in Seq(Tasks)
      BY <1>3 DEF Line, TypeOK
    <2>2. Len(<<holder>>) = 1 /\ <<holder>>[1] = holder
      OBVIOUS
    <2> QED
      BY <1>1, <1>3, <2>1, <2>2, ConcatProperties
  <1> QED
    BY <1>1, <1>2, <1>3

(* Init maps to Init. *)
LEMMA SeenInit == Init => Seen!Init
  BY DEF Init, Seen!Init, Line, Phase, Written, Records

(* Taking a slot is taking a place at the end of the line. *)
LEMMA ExecuteIsCall ==
    ASSUME Inv, Inv', NEW t \in Tasks, Execute(t)
    PROVE  Seen!Call(t)
  <1>1. /\ holder' = holder /\ cmd' = cmd /\ stdin' = stdin /\ stdout' = stdout
        /\ gdbAlive' = gdbAlive /\ waiters' = Append(waiters, t)
        /\ pc[t] = "idle" /\ pc' = [pc EXCEPT ![t] = "waiting"]
    BY DEF Execute, gdbVars
  <1>2. TypeOK /\ TypeOK'
    BY DEF Inv
  <1>3. Written' = Written /\ Records' = Records
    BY <1>1 DEF Written, Records, Owner
  <1>4. Line' = Append(Line, t)
    <2>1. CASE holder = NoTask
      BY <1>1, <2>1 DEF Line
    <2>2. CASE holder # NoTask
      <3>1. <<holder>> \in Seq(Tasks) /\ waiters \in Seq(Tasks) /\ <<t>> \in Seq(Tasks)
        BY <1>2, <2>2 DEF TypeOK
      <3>2. <<holder>> \o Append(waiters, t) = Append(<<holder>> \o waiters, t)
        BY <3>1, AppendIsConcat, ConcatAssociative, ConcatProperties
      <3> QED
        BY <1>1, <2>2, <3>2 DEF Line
    <2> QED
      BY <2>1, <2>2
  <1>5. Phase[t] = "idle" /\ Phase' = [Phase EXCEPT ![t] = "waiting"]
    BY <1>1, <1>2 DEF Phase, TypeOK
  <1> QED
    BY <1>1, <1>3, <1>4, <1>5 DEF Seen!Call

(* A refused call and a drained pipe are not seen. *)
LEMMA UnseenSteps ==
    ASSUME Inv, NEW t \in Tasks, RejectFull(t) \/ Drained(t)
    PROVE  UNCHANGED <<Line, Phase, Written, Records, gdbAlive>>
  <1>1. UNCHANGED <<holder, cmd, stdin, stdout, gdbAlive, waiters>>
    BY DEF RejectFull, Drained, lockVars, gdbVars
  <1>2. UNCHANGED <<Line, Written, Records>>
    BY <1>1 DEF Line, Written, Records, Owner
  <1>3. Phase' = Phase
    BY DEF RejectFull, Drained, Phase, Inv, TypeOK
  <1> QED
    BY <1>1, <1>2, <1>3
(* The task that gets the lock was and stays the first in line; whoever    *)
(* owned a record before owns none now.                                    *)
LEMMA AcquireIsSend ==
    ASSUME Inv, Inv', WireInv, NEW t \in Tasks, Acquire(t)
    PROVE  Seen!Send(t)
  <1> DEFINE c == [token |-> nextToken, cmd |-> sent + 1]
  <1>1. /\ holder = NoTask /\ holder' = t /\ waiters # <<>> /\ Head(waiters) = t
        /\ waiters' = Tail(waiters) /\ cmd'[t] = sent + 1 /\ sent \in Nat
        /\ stdin' = Append(stdin, c) /\ stdout' = stdout /\ gdbAlive' = gdbAlive
        /\ pc[t] = "waiting" /\ pc' = [pc EXCEPT ![t] = "draining"]
        /\ t # NoTask
    BY ControllerAssumption DEF Acquire, Inv, TypeOK
  <1>2. TypeOK /\ TypeOK'
    BY DEF Inv
  <1>3. Line = waiters /\ Line' = Line
    <2>1. /\ waiters \in Seq(Tasks) /\ Tail(waiters) \in Seq(Tasks)
          /\ Len(Tail(waiters)) + 1 = Len(waiters) /\ Len(waiters) \in Nat
          /\ Head(waiters) = waiters[1]
          /\ \A i \in 1..Len(Tail(waiters)) : Tail(waiters)[i] = waiters[i + 1]
      BY <1>1, <1>2, HeadTailProperties, LenProperties DEF TypeOK
    <2>2. <<t>> \in Seq(Tasks) /\ Len(<<t>>) = 1 /\ <<t>>[1] = t
      OBVIOUS
    <2>3. <<t>> \o Tail(waiters) = waiters
      <3> DEFINE s == <<t>> \o Tail(waiters)
      <3>1. /\ s \in Seq(Tasks) /\ Len(s) = Len(waiters)
            /\ \A i \in 1..Len(waiters) :
                  s[i] = IF i =< 1 THEN t ELSE Tail(waiters)[i - 1]
        BY <2>1, <2>2, ConcatProperties
      <3>2. \A i \in 1..Len(s) : s[i] = waiters[i]
        BY <1>1, <2>1, <3>1
      <3> QED
        BY <2>1, <3>1, <3>2, SeqEqual
    <2> QED
      BY <1>1, <2>3 DEF Line
  <1>4. Phase[t] = "waiting" /\ Phase' = [Phase EXCEPT ![t] = "reading"]
    BY <1>1, <1>2 DEF Phase, TypeOK
  <1>5. \A n : Owner(n) = NoTask
    BY <1>1 DEF Owner
  <1>6. Written' = Append(Written, t)
    <2>1. /\ Written \in Seq(Owners) /\ Len(Written) = Len(stdin)
          /\ \A i \in 1..Len(stdin) : Written[i] = NoTask
      BY <1>2, <1>5, SeenPipes
    <2>2. /\ Written' \in Seq(Owners) /\ Len(Written') = Len(stdin')
          /\ \A i \in 1..Len(stdin') :
                Written'[i] = IF stdin'[i].cmd = sent + 1 THEN t ELSE NoTask
      <3>1. Written' = [i \in 1..Len(stdin') |->
                          IF stdin'[i].cmd = sent + 1 THEN t ELSE NoTask]
        BY <1>1 DEF Owner, Written
      <3>2. Len(stdin') \in Nat
        BY <1>2, LenProperties DEF TypeOK
      <3>3. Written' \in [1..Len(stdin') -> Owners]
        BY <3>1 DEF Owners
      <3> QED
        BY <3>1, <3>2, <3>3
    <2>3. /\ Len(stdin') = Len(stdin) + 1 /\ stdin'[Len(stdin) + 1] = c
          /\ \A i \in 1..Len(stdin) : stdin'[i] = stdin[i]
      BY <1>1, <1>2 DEF TypeOK
    <2>4. \A i \in 1..Len(stdin) : stdin[i].cmd # sent + 1
      BY <1>1 DEF WireInv
    <2>5. Append(Written, t) \in Seq(Owners) /\ Len(Append(Written, t)) = Len(stdin) + 1
          /\ Append(Written, t)[Len(stdin) + 1] = t
          /\ \A i \in 1..Len(stdin) : Append(Written, t)[i] = Written[i]
      BY <2>1, AppendProperties DEF Owners
    <2>6. c.cmd = sent + 1 /\ Len(stdin) \in Nat
      BY <1>2 DEF TypeOK
    <2>7. \A i \in 1..Len(Written') : Written'[i] = Append(Written, t)[i]
      BY <2>1, <2>2, <2>3, <2>4, <2>5, <2>6
    <2> QED
      BY <2>2, <2>3, <2>5, <2>7, SeqEqual
  <1>7. Records' = Records
    <2>1. \A i \in 1..Len(stdout) : stdout[i].cmd # cmd'[t]
      BY <1>1 DEF WireInv
    <2> QED
      BY <1>1, <2>1 DEF Records, Owner
  <1> QED
    BY <1>1, <1>3, <1>4, <1>6, <1>7 DEF Seen!Send

(* The task on the wire is the first in line and the only owner of records; *)
(* when its execute ends, the line moves up and nobody owns one.            *)
LEMMA LeaveIsEnd ==
    ASSUME Inv, NEW t \in Tasks, pc[t] \in OnTheWire, NEW how, NEW n,
           Leave(t, how, n)
    PROVE  /\ Seen!Ends(t)
           /\ holder = t /\ Phase[t] = "reading"
           /\ \A k : Owner(k) = IF k = cmd[t] THEN t ELSE NoTask
           /\ holder' = NoTask
  <1>1. holder = t /\ t # NoTask /\ holder' = NoTask /\ waiters' = waiters
    BY ControllerAssumption DEF Leave, Inv, LockIsHeldByTheCommand
  <1>2. Line' = waiters
    BY <1>1 DEF Line
  <1>3. /\ waiters \in Seq(Tasks) /\ Len(waiters) \in Nat
        /\ Len(Line) = Len(waiters) + 1 /\ Line[1] = t
        /\ \A i \in 1..Len(waiters) : Line[i + 1] = waiters[i]
    BY <1>1, SeenLine DEF Inv
  <1>4. waiters = Seen!OutOfLine(1)
    BY <1>3 DEF Seen!OutOfLine
  <1>5. Phase[t] = "reading" /\ Phase' = [Phase EXCEPT ![t] = "idle"]
    BY DEF Phase, Leave, Inv, TypeOK
  <1>6. Seen!Ends(t)
    BY <1>2, <1>3, <1>4, <1>5 DEF Seen!Ends
  <1> QED
    BY <1>1, <1>5, <1>6 DEF Owner

(* Giving a command up with the pipes as they are. *)
LEMMA NoAnswerIsGivingUp ==
    ASSUME Inv, Inv', NEW t \in Tasks, Timeout(t) \/ EndOfFile(t) \/ Cancel(t)
    PROVE  Seen!GivesUp(t)
  <1>1. /\ pc[t] \in OnTheWire
        /\ UNCHANGED <<stdin, stdout, gdbAlive>>
    BY DEF Timeout, EndOfFile, Cancel, gdbVars
  <1>2. PICK how \in {"timeout", "closed", "cancelled"} : Leave(t, how, 0)
    BY DEF Timeout, EndOfFile, Cancel
  <1>3. /\ Seen!Ends(t) /\ Phase[t] = "reading" /\ holder' = NoTask
        /\ \A k : Owner(k) = IF k = cmd[t] THEN t ELSE NoTask
    BY <1>1, <1>2, LeaveIsEnd
  <1>4. \A k : Seen!Disowned(Owner(k), t) = NoTask
    BY <1>3 DEF Seen!Disowned
  <1>5. TypeOK /\ TypeOK'
    BY DEF Inv
  <1>6. Written' = [i \in 1..Len(Written) |-> Seen!Disowned(Written[i], t)]
    <2>1. Written' = [i \in 1..Len(stdin) |-> NoTask]
      BY <1>1, <1>3 DEF Written, Owner
    <2> QED
      BY <1>4, <1>5, <2>1, SeenPipes
  <1>7. Records' = Seen!Orphaned(Records, t)
    <2>1. Records' = [i \in 1..Len(stdout) |->
                        [owner |-> NoTask, parses |-> stdout[i].kind # "garbage"]]
      BY <1>1, <1>3 DEF Records, Owner
    <2> QED
      BY <1>4, <1>5, <2>1, SeenPipes DEF Seen!Orphaned, Seen!Record
  <1> QED
    BY <1>1, <1>3, <1>6, <1>7 DEF Seen!GivesUp
(* Reading a record: the caller's own result answers it, a line that does  *)
(* not parse makes it give up, and anything else it reads past.            *)
LEMMA ReadLineIsSeen ==
    ASSUME Inv, Inv', WireInv, NEW t \in Tasks, ReadLine(t)
    PROVE  Seen!Answered(t) \/ Seen!GivesUp(t) \/ Seen!Collect(t)
  <1> DEFINE r == Head(stdout)
             N == Len(stdout)
  <1>1. /\ pc[t] = "reading" /\ stdout # <<>> /\ stdout' = Tail(stdout)
        /\ UNCHANGED <<stdin, gdbAlive, cmd>>
    BY DEF ReadLine
  <1>2. /\ r \in MIRecord /\ r = stdout[1] /\ 1 \in 1..N /\ N \in Nat
        /\ Len(stdout') = N - 1
        /\ \A i \in 1..(N - 1) : stdout'[i] = stdout[i + 1]
    BY <1>1, HeadTailProperties, LenProperties DEF Inv, TypeOK
  <1>3. TypeOK /\ holder = t /\ cmd[t] = sent /\ sent > 0 /\ sent \in Nat
    BY <1>1, ControllerAssumption
    DEF Inv, LockIsHeldByTheCommand, WireInv, TypeOK
  <1>4. Records # <<>> /\ Head(Records) = Records[1]
        /\ Head(Records).owner = Owner(r.cmd)
        /\ Head(Records).parses = (r.kind # "garbage")
    BY <1>2, <1>3, SeenPipes
  <1>5. /\ Len(Tail(Records)) = N - 1
        /\ \A i \in 1..(N - 1) : Tail(Records)[i] = Records[i + 1]
        /\ Tail(Records) \in [1..(N - 1) -> SeenRecord]
    <2>1. Records \in Seq(SeenRecord) /\ Records # <<>> /\ Len(Records) = N
      BY <1>3, <1>4, SeenPipes
    <2>2. /\ Tail(Records) \in Seq(SeenRecord) /\ Len(Tail(Records)) = N - 1
          /\ \A i \in 1..(N - 1) : Tail(Records)[i] = Records[i + 1]
      BY <2>1, HeadTailProperties
    <2>3. Tail(Records) \in [1..Len(Tail(Records)) -> SeenRecord]
      BY <2>2, LenProperties
    <2> QED
      BY <2>2, <2>3
  <1>6. IsMyResult(t, r) <=> r.cmd = cmd[t]
    <2>1. r.kind = "result" <=> r.cmd # 0
      BY <1>2 DEF WireInv
    <2>2. r.kind = "result" => r.token = r.cmd
      BY <1>2 DEF Inv, CorrelationInv
    <2>3. token[t] = cmd[t]
      BY <1>1 DEF Inv, CorrelationInv
    <2> QED
      BY <1>3, <2>1, <2>2, <2>3 DEF IsMyResult
  <1>7. \A k : Owner(k) = IF k = cmd[t] THEN t ELSE NoTask
    BY <1>3 DEF Owner
  <1>8. CASE IsMyResult(t, r)
    <2>1. Leave(t, r.class, r.cmd)
      BY <1>8 DEF ReadLine
    <2> HIDE DEF r
    <2>2. Seen!Ends(t) /\ Phase[t] = "reading" /\ holder' = NoTask
      BY <1>1, <2>1, LeaveIsEnd
    <2>3. Head(Records).owner = t
      BY <1>4, <1>6, <1>7, <1>8
    <2>4. \A i \in 1..(N - 1) : stdout[i + 1].cmd # cmd[t]
      <3> SUFFICES ASSUME NEW i \in 1..(N - 1), stdout[i + 1].cmd = cmd[t]
                   PROVE  FALSE
        OBVIOUS
      <3>1. i + 1 \in 1..N /\ 1 < i + 1
        BY <1>2
      <3>2. stdout[1].cmd < stdout[i + 1].cmd
        BY <1>2, <1>3, <3>1 DEF WireInv
      <3> QED
        BY <1>2, <1>3, <1>6, <1>8, <3>2
    <2>5. Records' = Tail(Records)
      <3>1. Records' = [i \in 1..(N - 1) |->
                          [owner |-> NoTask,
                           parses |-> stdout[i + 1].kind # "garbage"]]
        BY <1>1, <1>2, <2>2 DEF Records, Owner
      <3>2. \A i \in 1..(N - 1) :
               Tail(Records)[i] = [owner |-> NoTask,
                                   parses |-> stdout[i + 1].kind # "garbage"]
        BY <1>2, <1>5, <1>7, <2>4 DEF Records
      <3> QED
        BY <1>5, <3>1, <3>2
    <2>6. Written' = Written
      <3>1. \A i \in 1..Len(stdin) : stdin[i].cmd # cmd[t]
        BY <1>2, <1>3, <1>6, <1>8 DEF WireInv
      <3> QED
        BY <1>1, <1>7, <2>2, <3>1 DEF Written, Owner
    <2> QED
      BY <1>1, <1>4, <2>2, <2>3, <2>5, <2>6 DEF Seen!Answered
  <1>9. CASE ~IsMyResult(t, r) /\ r.kind = "garbage"
    <2>1. Leave(t, "parse error", 0)
      BY <1>9 DEF ReadLine
    <2>2. Seen!Ends(t) /\ Phase[t] = "reading" /\ holder' = NoTask
      BY <1>1, <2>1, LeaveIsEnd
    <2>3. \A k : Seen!Disowned(Owner(k), t) = NoTask
      BY <1>7 DEF Seen!Disowned
    <2>4. Written' = [i \in 1..Len(Written) |-> Seen!Disowned(Written[i], t)]
      <3>1. Written' = [i \in 1..Len(stdin) |-> NoTask]
        BY <1>1, <2>2 DEF Written, Owner
      <3> QED
        BY <1>3, <2>3, <3>1, SeenPipes
    <2>5. Records' = Seen!Orphaned(Tail(Records), t)
      <3>1. Records' = [i \in 1..(N - 1) |->
                          [owner |-> NoTask,
                           parses |-> stdout[i + 1].kind # "garbage"]]
        BY <1>1, <1>2, <2>2 DEF Records, Owner
      <3>2. \A i \in 1..(N - 1) :
               /\ Tail(Records)[i].owner = Owner(stdout[i + 1].cmd)
               /\ Tail(Records)[i].parses = (stdout[i + 1].kind # "garbage")
        BY <1>2, <1>5 DEF Records
      <3> QED
        BY <1>5, <2>3, <3>1, <3>2 DEF Seen!Orphaned, Seen!Record
    <2>6. ~Head(Records).parses
      BY <1>4, <1>9
    <2> QED
      BY <1>1, <1>4, <2>2, <2>4, <2>5, <2>6 DEF Seen!GivesUp
  <1>10. CASE ~IsMyResult(t, r) /\ r.kind # "garbage"
    <2>1. UNCHANGED <<pc, holder, waiters>>
      BY <1>10 DEF ReadLine, lockVars
    <2>2. Line' = Line /\ Phase' = Phase /\ Written' = Written
      BY <1>1, <2>1 DEF Line, Phase, Written, Owner
    <2>3. Records' = Tail(Records)
      <3>1. Records' = [i \in 1..(N - 1) |->
                          [owner |-> Owner(stdout[i + 1].cmd),
                           parses |-> stdout[i + 1].kind # "garbage"]]
        BY <1>1, <1>2, <2>1 DEF Records, Owner
      <3>2. \A i \in 1..(N - 1) :
               Tail(Records)[i] = [owner |-> Owner(stdout[i + 1].cmd),
                                   parses |-> stdout[i + 1].kind # "garbage"]
        BY <1>2, <1>5 DEF Records
      <3> QED
        BY <1>5, <3>1, <3>2
    <2>4. Head(Records).owner # t /\ Head(Records).parses
      BY <1>3, <1>4, <1>6, <1>7, <1>10, ControllerAssumption
    <2>5. Phase[t] = "reading"
      BY <1>1 DEF Phase, Inv, TypeOK
    <2> QED
      BY <1>1, <1>4, <2>2, <2>3, <2>4, <2>5 DEF Seen!Collect
  <1> QED
    BY <1>8, <1>9, <1>10
(* A sequence without its i-th element, place by place. *)
LEMMA Removed ==
    ASSUME NEW S, NEW s \in Seq(S), NEW i \in 1..Len(s), NEW w,
           w = SubSeq(s, 1, i - 1) \o SubSeq(s, i + 1, Len(s))
    PROVE  /\ w \in Seq(S) /\ Len(w) = Len(s) - 1
           /\ \A j \in 1..(Len(s) - 1) : w[j] = s[IF j < i THEN j ELSE j + 1]
  <1> DEFINE a == SubSeq(s, 1, i - 1)
             b == SubSeq(s, i + 1, Len(s))
  <1>1. Len(s) \in Nat /\ i \in Nat /\ 1 =< i /\ i =< Len(s)
    BY LenProperties
  <1>2. a \in Seq(S) /\ Len(a) = i - 1 /\ \A j \in 1..(i - 1) : a[j] = s[j]
    <2>1. \A j \in 1..(i - 1) : s[j] \in S
      BY <1>1, ElementOfSeq
    <2>2. /\ a \in Seq(S) /\ Len(a) = IF 1 =< i - 1 THEN i - 1 - 1 + 1 ELSE 0
          /\ \A j \in 1..(i - 1 - 1 + 1) : a[j] = s[1 + j - 1]
      BY <1>1, <2>1, SubSeqProperties
    <2> QED
      BY <1>1, <2>2
  <1>3. /\ b \in Seq(S) /\ Len(b) = Len(s) - i
        /\ \A j \in 1..(Len(s) - i) : b[j] = s[i + j]
    <2>1. \A j \in (i + 1)..Len(s) : s[j] \in S
      BY <1>1, ElementOfSeq
    <2>2. /\ b \in Seq(S)
          /\ Len(b) = IF i + 1 =< Len(s) THEN Len(s) - (i + 1) + 1 ELSE 0
          /\ \A j \in 1..(Len(s) - (i + 1) + 1) : b[j] = s[(i + 1) + j - 1]
      BY <1>1, <2>1, SubSeqProperties
    <2> QED
      BY <1>1, <2>2, SMTT(30)
  <1> HIDE DEF a, b
  <1>4. w = a \o b
    BY DEF a, b
  <1>5. /\ w \in Seq(S) /\ Len(w) = Len(a) + Len(b)
        /\ \A j \in 1..(Len(a) + Len(b)) :
              w[j] = IF j =< Len(a) THEN a[j] ELSE b[j - Len(a)]
    <2>1. a \in Seq(S) /\ b \in Seq(S)
      BY <1>2, <1>3
    <2>2. /\ a \o b \in Seq(S) /\ Len(a \o b) = Len(a) + Len(b)
          /\ \A j \in 1..(Len(a) + Len(b)) :
                (a \o b)[j] = IF j =< Len(a) THEN a[j] ELSE b[j - Len(a)]
      BY <2>1, ConcatProperties
    <2> QED
      BY <1>4, <2>2
  <1>6. Len(a) + Len(b) = Len(s) - 1
    BY <1>1, <1>2, <1>3
  <1>7. ASSUME NEW j \in 1..(Len(s) - 1)
        PROVE  w[j] = s[IF j < i THEN j ELSE j + 1]
    <2>1. CASE j < i
      <3>1. j =< Len(a) /\ j \in 1..(i - 1)
        BY <1>1, <1>2, <2>1
      <3> QED
        BY <1>2, <1>5, <1>6, <2>1, <3>1
    <2>2. CASE ~(j < i)
      <3>1. /\ ~(j =< Len(a)) /\ j - Len(a) \in 1..(Len(s) - i)
            /\ i + (j - Len(a)) = j + 1
        BY <1>1, <1>2, <2>2
      <3> QED
        BY <1>3, <1>5, <1>6, <2>2, <3>1
    <2> QED
      BY <2>1, <2>2
  <1> QED
    BY <1>5, <1>6, <1>7

(* A cancelled waiter owns nothing; the line closes up behind it. *)
LEMMA CancelWaitingIsGivingUp ==
    ASSUME Inv, Inv', NEW t \in Tasks, CancelWaiting(t)
    PROVE  Seen!GivesUp(t)
  <1>1. /\ pc[t] = "waiting" /\ pc' = [pc EXCEPT ![t] = "idle"]
        /\ UNCHANGED <<holder, cmd, stdin, stdout, gdbAlive>>
    BY DEF CancelWaiting, gdbVars
  <1>2. TypeOK /\ holder # t /\ t # NoTask /\ Len(waiters) \in Nat
    BY <1>1, ControllerAssumption, SeenLine
    DEF Inv, LockIsHeldByTheCommand
  <1>3. PICK i \in 1..Len(waiters) :
           /\ waiters[i] = t
           /\ waiters' = SubSeq(waiters, 1, i - 1)
                            \o SubSeq(waiters, i + 1, Len(waiters))
    BY DEF CancelWaiting
  <1>4. /\ waiters' \in Seq(Tasks) /\ Len(waiters') = Len(waiters) - 1
        /\ \A j \in 1..(Len(waiters) - 1) :
              waiters'[j] = waiters[IF j < i THEN j ELSE j + 1]
    <2>1. waiters \in Seq(Tasks)
      BY <1>2, SeenLine
    <2> QED
      BY <1>3, <2>1, Removed
  <1>5. Phase[t] # "idle" /\ Phase' = [Phase EXCEPT ![t] = "idle"]
    BY <1>1 DEF Phase, Inv, TypeOK
  <1>6. \E k \in 1..Len(Line) : Line[k] = t /\ Line' = Seen!OutOfLine(k)
    <2>1. CASE holder = NoTask
      <3>1. Line = waiters /\ Line' = waiters'
        BY <1>1, <2>1 DEF Line
      <3>2. waiters' \in [1..Len(waiters') -> Tasks]
        BY <1>4, LenProperties
      <3>3. Line' = Seen!OutOfLine(i)
        BY <1>4, <3>1, <3>2 DEF Seen!OutOfLine
      <3> QED
        BY <1>3, <3>1, <3>3
    <2>2. CASE holder # NoTask
      <3> DEFINE w == waiters
                 v == waiters'
      <3>1. /\ Len(Line) = Len(w) + 1 /\ Line[1] = holder
            /\ \A j \in 1..Len(w) : Line[j + 1] = w[j]
        BY <1>2, <2>2, SeenLine
      <3>2. Line' = <<holder>> \o v /\ <<holder>> \in Seq(Tasks)
        BY <1>1, <1>2, <2>2 DEF Line, TypeOK
      <3>3. Len(<<holder>>) = 1 /\ <<holder>>[1] = holder
        OBVIOUS
      <3>4. /\ Line' \in Seq(Tasks) /\ Len(Line') = Len(w)
            /\ \A j \in 1..Len(w) :
                  Line'[j] = IF j =< 1 THEN <<holder>>[j] ELSE v[j - 1]
        <4>1. 1 + (Len(w) - 1) = Len(w)
          BY <1>2
        <4> QED
          BY <1>4, <3>2, <3>3, <4>1, ConcatProperties
      <3>5. Line' \in [1..Len(w) -> Tasks]
        BY <3>4, LenProperties
      <3>6. ASSUME NEW j \in 1..Len(w)
            PROVE  Line'[j] = Line[IF j < i + 1 THEN j ELSE j + 1]
        <4>1. CASE j = 1
          <5>1. Line'[1] = holder
            BY <3>3, <3>4, <4>1
          <5>2. 1 < i + 1
            BY <1>2
          <5> QED
            BY <3>1, <4>1, <5>1, <5>2
        <4>2. CASE j # 1
          <5>1. j - 1 \in 1..(Len(w) - 1) /\ j > 1
            BY <1>2, <4>2
          <5>2. Line'[j] = w[IF j - 1 < i THEN j - 1 ELSE j]
            BY <1>4, <3>4, <5>1
          <5>3. Line[j] = w[j - 1] /\ Line[j + 1] = w[j]
            BY <1>2, <3>1, <5>1
          <5> QED
            BY <1>3, <5>1, <5>2, <5>3
        <4> QED
          BY <4>1, <4>2
      <3>7. Line' = Seen!OutOfLine(i + 1)
        BY <1>2, <3>1, <3>5, <3>6 DEF Seen!OutOfLine
      <3>8. i + 1 \in 1..Len(Line) /\ Line[i + 1] = t
        BY <1>2, <1>3, <3>1
      <3> QED
        BY <3>7, <3>8
    <2> QED
      BY <2>1, <2>2
  <1>7. Seen!Ends(t)
    BY <1>5, <1>6 DEF Seen!Ends
  <1>8. \A k : Seen!Disowned(Owner(k), t) = Owner(k)
    BY <1>2 DEF Owner, Seen!Disowned
  <1>9. Written' = [j \in 1..Len(Written) |-> Seen!Disowned(Written[j], t)]
    <2>1. Written' = [j \in 1..Len(stdin) |-> Owner(stdin[j].cmd)]
      BY <1>1 DEF Written, Owner
    <2> HIDE DEF Owner
    <2> QED
      BY <1>2, <1>8, <2>1, SeenPipes
  <1>10. Records' = Seen!Orphaned(Records, t)
    <2>1. Records' = [j \in 1..Len(stdout) |->
                        [owner |-> Owner(stdout[j].cmd),
                         parses |-> stdout[j].kind # "garbage"]]
      BY <1>1 DEF Records, Owner
    <2> QED
      BY <1>2, <1>8, <2>1, SeenPipes DEF Seen!Orphaned, Seen!Record
  <1> QED
    BY <1>1, <1>5, <1>7, <1>9, <1>10 DEF Seen!GivesUp

(* GDB's answer belongs to the caller whose command it took up. *)
LEMMA GdbAnswersIsSeen ==
    ASSUME Inv, GdbAnswers
    PROVE  Seen!Answers
  <1>1. /\ gdbAlive /\ gdbAlive' = gdbAlive /\ stdin # <<>> /\ stdin' = Tail(stdin)
        /\ UNCHANGED <<pc, cmd, holder, waiters>> /\ TypeOK
    BY DEF GdbAnswers, taskVars, lockVars, Inv
  <1>2. PICK class \in {"done", "error"} :
           stdout' = Append(stdout, [kind |-> "result", class |-> class,
                                     token |-> Head(stdin).token,
                                     cmd |-> Head(stdin).cmd])
    BY DEF GdbAnswers
  <1> DEFINE r == [kind |-> "result", class |-> class,
                   token |-> Head(stdin).token, cmd |-> Head(stdin).cmd]
             N == Len(stdout)
             M == Len(stdin)
  <1>3. /\ Head(stdin) = stdin[1] /\ 1 \in 1..M /\ M \in Nat /\ N \in Nat
        /\ stdin' \in Seq(Command) /\ Len(stdin') = M - 1
        /\ \A i \in 1..(M - 1) : stdin'[i] = stdin[i + 1]
    BY <1>1, HeadTailProperties, LenProperties DEF TypeOK
  <1>4. r \in MIRecord
    <2>1. stdin \in Seq(Command)
      BY <1>1 DEF TypeOK
    <2>2. Head(stdin) \in Command
      BY <1>1, <2>1, HeadTailProperties
    <2> QED
      BY <2>2 DEF MIRecord, Command
  <1>5. /\ Len(stdout') = N + 1 /\ stdout'[N + 1] = r
        /\ \A i \in 1..N : stdout'[i] = stdout[i]
    BY <1>1, <1>2, <1>4, AppendProperties DEF TypeOK
  <1>6. /\ Written \in Seq(Owners) /\ Len(Written) = M
        /\ \A i \in 1..M : Written[i] = Owner(stdin[i].cmd)
        /\ Records \in Seq(SeenRecord) /\ Len(Records) = N
        /\ \A i \in 1..N : Records[i] = [owner |-> Owner(stdout[i].cmd),
                                         parses |-> stdout[i].kind # "garbage"]
    BY <1>1, SeenPipes DEF Records
  <1>7. Written # <<>> /\ Head(Written) = Owner(stdin[1].cmd)
    BY <1>3, <1>6
  <1>8. Written' = Tail(Written)
    <2>1. Written' = [i \in 1..(M - 1) |-> Owner(stdin[i + 1].cmd)]
      BY <1>1, <1>3 DEF Written, Owner
    <2>2. /\ Tail(Written) \in Seq(Owners) /\ Len(Tail(Written)) = M - 1
          /\ \A i \in 1..(M - 1) : Tail(Written)[i] = Written[i + 1]
      BY <1>6, <1>7, HeadTailProperties
    <2>3. Tail(Written) \in [1..(M - 1) -> Owners]
      BY <2>2, LenProperties
    <2>4. \A i \in 1..(M - 1) : Tail(Written)[i] = Owner(stdin[i + 1].cmd)
      BY <1>3, <1>6, <2>2
    <2> QED
      BY <2>1, <2>3, <2>4
  <1>9. Records' = Append(Records, Seen!Record(Head(Written), TRUE))
    <2> DEFINE e == [owner |-> Owner(stdin[1].cmd), parses |-> TRUE]
    <2>1. Seen!Record(Head(Written), TRUE) = e
      BY <1>7 DEF Seen!Record
    <2>2. e \in SeenRecord
      BY <1>1, OwnerType DEF SeenRecord
    <2>3. r.cmd = stdin[1].cmd /\ r.kind # "garbage"
      BY <1>3
    <2>4. Records' = [i \in 1..(N + 1) |->
                        [owner |-> Owner(stdout'[i].cmd),
                         parses |-> stdout'[i].kind # "garbage"]]
      BY <1>1, <1>5 DEF Records, Owner
    <2> HIDE DEF r, e
    <2>5. /\ Append(Records, e) \in Seq(SeenRecord)
          /\ Len(Append(Records, e)) = N + 1 /\ Append(Records, e)[N + 1] = e
          /\ \A i \in 1..N : Append(Records, e)[i] = Records[i]
      BY <1>6, <2>2, AppendProperties
    <2>6. Append(Records, e) \in [1..(N + 1) -> SeenRecord]
      BY <2>5, LenProperties
    <2>7. \A i \in 1..(N + 1) : i \in 1..N \/ i = N + 1
      BY <1>3
    <2>8. \A i \in 1..(N + 1) :
             Append(Records, e)[i] = [owner |-> Owner(stdout'[i].cmd),
                                      parses |-> stdout'[i].kind # "garbage"]
      BY <1>5, <1>6, <2>3, <2>5, <2>7 DEF e
    <2> QED
      BY <2>1, <2>4, <2>6, <2>8
  <1>10. Line' = Line /\ Phase' = Phase
    BY <1>1 DEF Line, Phase
  <1> QED
    BY <1>1, <1>7, <1>8, <1>9, <1>10 DEF Seen!Answers

(* What GDB prints unasked belongs to nobody. *)
LEMMA GdbPrintsIsSeen ==
    ASSUME Inv, WireInv, GdbPrints
    PROVE  Seen!Prints
  <1>1. /\ gdbAlive /\ gdbAlive' = gdbAlive /\ stdin' = stdin
        /\ UNCHANGED <<pc, cmd, holder, waiters>> /\ TypeOK
    BY DEF GdbPrints, taskVars, lockVars, Inv
  <1>2. PICK kind \in {"async", "garbage"} :
           stdout' = Append(stdout, [kind |-> kind, class |-> "none",
                                     token |-> 0, cmd |-> 0])
    BY DEF GdbPrints
  <1> DEFINE r == [kind |-> kind, class |-> "none", token |-> 0, cmd |-> 0]
             N == Len(stdout)
             e == [owner |-> NoTask, parses |-> kind # "garbage"]
  <1>3. r \in MIRecord /\ N \in Nat /\ r.cmd = 0 /\ r.kind = kind
    BY <1>1, LenProperties DEF MIRecord, TypeOK
  <1>4. /\ Len(stdout') = N + 1 /\ stdout'[N + 1] = r
        /\ \A i \in 1..N : stdout'[i] = stdout[i]
    BY <1>1, <1>2, <1>3, AppendProperties DEF TypeOK
  <1>5. Owner(0) = NoTask
    BY <1>1 DEF Owner, WireInv, TypeOK
  <1>6. /\ Records \in Seq(SeenRecord) /\ Len(Records) = N
        /\ \A i \in 1..N : Records[i] = [owner |-> Owner(stdout[i].cmd),
                                         parses |-> stdout[i].kind # "garbage"]
    BY <1>1, SeenPipes DEF Records
  <1>7. Records' = Append(Records, e)
    <2>1. e \in SeenRecord
      BY DEF SeenRecord, Owners
    <2>2. Records' = [i \in 1..(N + 1) |->
                        [owner |-> Owner(stdout'[i].cmd),
                         parses |-> stdout'[i].kind # "garbage"]]
      BY <1>1, <1>4 DEF Records, Owner
    <2> HIDE DEF r, e
    <2>3. /\ Append(Records, e) \in Seq(SeenRecord)
          /\ Len(Append(Records, e)) = N + 1 /\ Append(Records, e)[N + 1] = e
          /\ \A i \in 1..N : Append(Records, e)[i] = Records[i]
      BY <1>6, <2>1, AppendProperties
    <2>4. Append(Records, e) \in [1..(N + 1) -> SeenRecord]
      BY <2>3, LenProperties
    <2>5. \A i \in 1..(N + 1) : i \in 1..N \/ i = N + 1
      BY <1>3
    <2>6. \A i \in 1..(N + 1) :
             Append(Records, e)[i] = [owner |-> Owner(stdout'[i].cmd),
                                      parses |-> stdout'[i].kind # "garbage"]
      BY <1>3, <1>4, <1>5, <1>6, <2>3, <2>5 DEF e
    <2> QED
      BY <2>2, <2>4, <2>6
  <1>8. e = Seen!Record(NoTask, kind # "garbage") /\ (kind # "garbage") \in BOOLEAN
    BY DEF Seen!Record
  <1>9. Line' = Line /\ Phase' = Phase /\ Written' = Written
    BY <1>1 DEF Line, Phase, Written, Owner
  <1> QED
    BY <1>1, <1>7, <1>8, <1>9 DEF Seen!Prints

LEMMA SeenStep ==
    ASSUME Inv, Inv', WireInv, [Next]_vars
    PROVE  [Seen!Next]_<<Line, Phase, Written, Records, gdbAlive>>
  <1>1. ASSUME NEW t \in Tasks, Execute(t) PROVE Seen!Next
    BY <1>1, ExecuteIsCall DEF Seen!Next
  <1>2. ASSUME NEW t \in Tasks, RejectFull(t) \/ Drained(t)
        PROVE  UNCHANGED <<Line, Phase, Written, Records, gdbAlive>>
    BY <1>2, UnseenSteps
  <1>3. ASSUME NEW t \in Tasks, Acquire(t) PROVE Seen!Next
    BY <1>3, AcquireIsSend DEF Seen!Next
  <1>4. ASSUME NEW t \in Tasks, ReadLine(t) PROVE Seen!Next
    BY <1>4, ReadLineIsSeen DEF Seen!Next
  <1>5. ASSUME NEW t \in Tasks, Timeout(t) \/ EndOfFile(t) \/ Cancel(t)
        PROVE  Seen!Next
    BY <1>5, NoAnswerIsGivingUp DEF Seen!Next
  <1>6. ASSUME NEW t \in Tasks, CancelWaiting(t) PROVE Seen!Next
    BY <1>6, CancelWaitingIsGivingUp DEF Seen!Next
  <1>7. CASE GdbAnswers
    BY <1>7, GdbAnswersIsSeen DEF Seen!Next
  <1>8. CASE GdbPrints
    BY <1>8, GdbPrintsIsSeen DEF Seen!Next
  <1>9. CASE GdbExits
    <2>1. Seen!Dies
      BY <1>9 DEF GdbExits, taskVars, lockVars, Seen!Dies, Line, Phase, Written,
                  Records, Owner
    <2> QED
      BY <2>1 DEF Seen!Next
  <1>10. CASE UNCHANGED vars
    BY <1>10 DEF vars, Line, Phase, Written, Records, Owner
  <1> QED
    BY <1>1, <1>2, <1>3, <1>4, <1>5, <1>6, <1>7, <1>8, <1>9, <1>10
    DEF Next, TaskStep

(* controller.py:63-75 and 107-137: for any number of callers, any queue   *)
(* limit, and any number of timeouts, cancelled calls and late answers,    *)
(* what the tokens achieve is the exchange the callers build on.           *)
THEOREM ImplementsExchange == Spec => ExchangeSpec
  <1>1. Inv /\ Inv' /\ WireInv /\ [Next]_vars
           => [Seen!Next]_<<Line, Phase, Written, Records, gdbAlive>>
    BY SeenStep
  <1> QED
    BY <1>1, SeenInit, WireInvariance, PTL DEF Spec, ExchangeSpec, Seen!Spec
=============================================================================

---------------------------- MODULE MIController ----------------------------
(***************************************************************************)
(* The GDB/MI controller of mi/controller.py: tasks call execute, an       *)
(* asyncio lock lets one of them at a time talk to GDB, and tokens         *)
(* correlate the records GDB prints with the command they answer.          *)
(*                                                                         *)
(* GDB is external: it answers the commands in its stdin in order, prints  *)
(* asynchronous records and lines that do not parse when it likes, and may *)
(* die.  A late answer to a command that timed out stays in the pipe and   *)
(* is read by the next command.                                            *)
(*                                                                         *)
(* "sent", "cmd" and the field cmd of a record are history: the serial     *)
(* number of the command, which the code does not have, against which      *)
(* tokens are judged.  Class "done" stands for every result class but      *)
(* "error": the controller returns them all alike.                         *)
(***************************************************************************)
EXTENDS Integers, Sequences, FiniteSets

CONSTANTS
    Tasks,         \* the asyncio tasks that share the controller
    MaxQueued,     \* max_queued_commands
    PipeCapacity,  \* commands stdin takes before drain() has to wait
    MaxCommands,   \* bound: commands ever sent
    MaxLines,      \* bound: unsolicited lines GDB ever prints
    NoTask

ASSUME ControllerAssumption ==
    /\ IsFiniteSet(Tasks)
    /\ MaxQueued \in Nat \ {0}
    /\ PipeCapacity \in Nat
    /\ MaxCommands \in Nat
    /\ MaxLines \in Nat
    /\ NoTask \notin Tasks

VARIABLES
    pc,         \* task -> idle, waiting (lock), draining or reading
    holder,     \* the task holding _lock
    waiters,    \* the tasks waiting for _lock, first come first served
    queued,     \* _queued_commands
    nextToken,  \* _next_token
    token,      \* task -> the token of the command it executes
    stdin,      \* commands GDB has not taken up yet
    stdout,     \* records nobody has read yet
    gdbAlive,   \* the GDB process runs and its pipes are open
    lines,      \* unsolicited lines printed so far
    sent,       \* history: commands sent so far
    cmd,        \* task -> history: serial number of its command
    outcome     \* task -> how its last execute ended, and on which answer

taskVars == <<pc, token, cmd, outcome>>
lockVars == <<holder, waiters, queued>>
gdbVars == <<stdin, stdout, gdbAlive, lines>>
vars == <<pc, holder, waiters, queued, nextToken, token, stdin, stdout,
          gdbAlive, lines, sent, cmd, outcome>>

Command == [token : Nat, cmd : Nat]

MIRecord ==
    [kind : {"result", "async", "garbage"}, class : {"done", "error", "none"},
     token : Nat, cmd : Nat]

Outcome ==
    [how : {"none", "done", "error", "queue full", "parse error", "timeout",
            "closed", "cancelled"},
     cmd : Nat]

NoOutcome == [how |-> "none", cmd |-> 0]

Init ==
    /\ pc = [t \in Tasks |-> "idle"]
    /\ holder = NoTask
    /\ waiters = <<>>
    /\ queued = 0
    /\ nextToken = 1
    /\ token = [t \in Tasks |-> 0]
    /\ stdin = <<>>
    /\ stdout = <<>>
    /\ gdbAlive = TRUE
    /\ lines = 0
    /\ sent = 0
    /\ cmd = [t \in Tasks |-> 0]
    /\ outcome = [t \in Tasks |-> NoOutcome]

-----------------------------------------------------------------------------
(***************************************************************************)
(* execute, from its first await to its end.                               *)
(***************************************************************************)
QueueFull == queued >= MaxQueued

(* The slot is taken before the lock is awaited. *)
Execute(t) ==
    /\ pc[t] = "idle" /\ ~QueueFull
    /\ sent + Len(waiters) < MaxCommands
    /\ queued' = queued + 1
    /\ waiters' = Append(waiters, t)
    /\ pc' = [pc EXCEPT ![t] = "waiting"]
    /\ outcome' = [outcome EXCEPT ![t] = NoOutcome]
    /\ UNCHANGED <<holder, nextToken, token, gdbVars, sent, cmd>>

RejectFull(t) ==
    /\ pc[t] = "idle" /\ QueueFull
    /\ outcome' = [outcome EXCEPT ![t] = [how |-> "queue full", cmd |-> 0]]
    /\ UNCHANGED <<pc, token, cmd, lockVars, nextToken, gdbVars, sent>>

(* Slip: the counter is read and not advanced. *)
SameTokenAgain(t) ==
    /\ token' = [token EXCEPT ![t] = nextToken]
    /\ nextToken' = nextToken

(* _allocate_token *)
AllocateToken(t) ==
    /\ token' = [token EXCEPT ![t] = nextToken]
    /\ nextToken' = nextToken + 1

(* The first waiter gets the lock, allocates its token and writes. *)
Acquire(t) ==
    /\ pc[t] = "waiting" /\ holder = NoTask
    /\ waiters # <<>> /\ Head(waiters) = t
    /\ holder' = t
    /\ waiters' = Tail(waiters)
    /\ AllocateToken(t)
    /\ sent' = sent + 1
    /\ cmd' = [cmd EXCEPT ![t] = sent + 1]
    /\ stdin' = Append(stdin, [token |-> nextToken, cmd |-> sent + 1])
    /\ pc' = [pc EXCEPT ![t] = "draining"]
    /\ UNCHANGED <<queued, stdout, gdbAlive, lines, outcome>>

(* drain() returns once the pipe has room again. *)
Drained(t) ==
    /\ pc[t] = "draining" /\ gdbAlive /\ Len(stdin) =< PipeCapacity
    /\ pc' = [pc EXCEPT ![t] = "reading"]
    /\ UNCHANGED <<lockVars, nextToken, token, gdbVars, sent, cmd, outcome>>

(* Slip: the slot is given back only by commands that got an answer. *)
LeaveKeepsSlot(t, how, n) ==
    /\ holder' = NoTask
    /\ queued' = IF n = 0 THEN queued ELSE queued - 1
    /\ pc' = [pc EXCEPT ![t] = "idle"]
    /\ outcome' = [outcome EXCEPT ![t] = [how |-> how, cmd |-> n]]
    /\ UNCHANGED waiters

(* Slip: the lock block and the finally clause both give the slot back. *)
LeaveReleasesTwice(t, how, n) ==
    /\ holder' = NoTask
    /\ queued' = queued - 2
    /\ pc' = [pc EXCEPT ![t] = "idle"]
    /\ outcome' = [outcome EXCEPT ![t] = [how |-> how, cmd |-> n]]
    /\ UNCHANGED waiters

(* Slip: a command that gets no answer keeps the lock. *)
LeaveKeepsLock(t, how, n) ==
    /\ holder' = IF n = 0 THEN holder ELSE NoTask
    /\ queued' = IF queued > 0 THEN queued - 1 ELSE 0
    /\ pc' = [pc EXCEPT ![t] = "idle"]
    /\ outcome' = [outcome EXCEPT ![t] = [how |-> how, cmd |-> n]]
    /\ UNCHANGED waiters

(* execute ends with the lock held: the async with block frees it and the  *)
(* finally clause gives the slot back.  how is what the caller sees, n the *)
(* command whose answer it was given (0: none).                            *)
Leave(t, how, n) ==
    /\ holder' = NoTask
    /\ queued' = IF queued > 0 THEN queued - 1 ELSE 0
    /\ pc' = [pc EXCEPT ![t] = "idle"]
    /\ outcome' = [outcome EXCEPT ![t] = [how |-> how, cmd |-> n]]
    /\ UNCHANGED waiters

(* Slip: any result record ends the command. *)
AnyResult(t, r) == r.kind = "result"

IsMyResult(t, r) == r.kind = "result" /\ r.token = token[t]

(* One turn of _read_until_result's loop: records that are not this        *)
(* command's result are collected and reading goes on; a line that does    *)
(* not parse raises.                                                       *)
ReadLine(t) ==
    /\ pc[t] = "reading" /\ stdout # <<>>
    /\ stdout' = Tail(stdout)
    /\ LET r == Head(stdout)
       IN  IF IsMyResult(t, r)
           THEN Leave(t, r.class, r.cmd)
           ELSE IF r.kind = "garbage"
                THEN Leave(t, "parse error", 0)
                ELSE UNCHANGED <<pc, lockVars, outcome>>
    /\ UNCHANGED <<nextToken, token, stdin, gdbAlive, lines, sent, cmd>>

(* asyncio.timeout covers the reads and nothing else. *)
Timeout(t) ==
    /\ pc[t] = "reading"
    /\ Leave(t, "timeout", 0)
    /\ UNCHANGED <<nextToken, token, gdbVars, sent, cmd>>

(* readline returns b"", or drain raises on the broken pipe. *)
EndOfFile(t) ==
    /\ ~gdbAlive
    /\ pc[t] = "draining" \/ (pc[t] = "reading" /\ stdout = <<>>)
    /\ Leave(t, "closed", 0)
    /\ UNCHANGED <<nextToken, token, gdbVars, sent, cmd>>

(* The tool call is cancelled while it talks to GDB ... *)
Cancel(t) ==
    /\ pc[t] \in {"draining", "reading"}
    /\ Leave(t, "cancelled", 0)
    /\ UNCHANGED <<nextToken, token, gdbVars, sent, cmd>>

(* ... or while it waits for the lock, wherever it is in the line. *)
CancelWaiting(t) ==
    /\ pc[t] = "waiting"
    /\ \E i \in 1..Len(waiters) :
          /\ waiters[i] = t
          /\ waiters' = SubSeq(waiters, 1, i - 1)
                            \o SubSeq(waiters, i + 1, Len(waiters))
    /\ queued' = IF queued > 0 THEN queued - 1 ELSE 0
    /\ pc' = [pc EXCEPT ![t] = "idle"]
    /\ outcome' = [outcome EXCEPT ![t] = [how |-> "cancelled", cmd |-> 0]]
    /\ UNCHANGED <<holder, nextToken, token, gdbVars, sent, cmd>>

-----------------------------------------------------------------------------
(***************************************************************************)
(* GDB and the pipes.                                                      *)
(***************************************************************************)
GdbAnswers ==
    /\ gdbAlive /\ stdin # <<>>
    /\ stdin' = Tail(stdin)
    /\ \E class \in {"done", "error"} :
          stdout' = Append(stdout, [kind |-> "result", class |-> class,
                                    token |-> Head(stdin).token,
                                    cmd |-> Head(stdin).cmd])
    /\ UNCHANGED <<taskVars, lockVars, nextToken, gdbAlive, lines, sent>>

GdbPrints ==
    /\ gdbAlive /\ lines < MaxLines
    /\ lines' = lines + 1
    /\ \E kind \in {"async", "garbage"} :
          stdout' = Append(stdout, [kind |-> kind, class |-> "none",
                                    token |-> 0, cmd |-> 0])
    /\ UNCHANGED <<taskVars, lockVars, nextToken, stdin, gdbAlive, sent>>

(* GDB exits on its own, or close() terminates it (and kills it when it *)
(* does not react within two seconds).                                  *)
GdbExits ==
    /\ gdbAlive
    /\ gdbAlive' = FALSE
    /\ UNCHANGED <<taskVars, lockVars, nextToken, stdin, stdout, lines, sent>>

TaskStep(t) ==
    \/ Acquire(t) \/ Drained(t) \/ ReadLine(t) \/ Timeout(t) \/ EndOfFile(t)

Next ==
    \/ \E t \in Tasks :
          \/ Execute(t) \/ RejectFull(t)
          \/ TaskStep(t)
          \/ Cancel(t) \/ CancelWaiting(t)
    \/ GdbAnswers
    \/ GdbPrints
    \/ GdbExits

Spec == Init /\ [][Next]_vars

(* The event loop runs every task that can run, and asyncio's timer for a  *)
(* reading task fires in the end even while lines keep coming.             *)
LoopFairness ==
    \A t \in Tasks : WF_vars(TaskStep(t)) /\ WF_vars(Timeout(t))

FairSpec == Spec /\ LoopFairness /\ WF_vars(GdbAnswers)

-----------------------------------------------------------------------------
(***************************************************************************)
(* The exchange the callers see: the holder of the lock is the first in    *)
(* the line, and a record in a pipe is its own if it bears the serial      *)
(* number of its command.                                                  *)
(***************************************************************************)
Line == IF holder = NoTask THEN waiters ELSE <<holder>> \o waiters

Phase == [t \in Tasks |-> IF pc[t] = "draining" THEN "reading" ELSE pc[t]]

Owner(n) == IF holder # NoTask /\ n = cmd[holder] THEN holder ELSE NoTask

Written == [i \in 1..Len(stdin) |-> Owner(stdin[i].cmd)]

Records ==
    [i \in 1..Len(stdout) |->
        [owner |-> Owner(stdout[i].cmd), parses |-> stdout[i].kind # "garbage"]]

Seen == INSTANCE Exchange WITH
    Callers <- Tasks, line <- Line, phase <- Phase,
    stdin <- Written, stdout <- Records, alive <- gdbAlive

(* controller.py:63-75 and 126: what the callers of execute build on, as a *)
(* specification: first come first served, one command at a time, and no   *)
(* caller goes on with an answer to another command, although the tokens,  *)
(* late answers and abandoned commands below it are all it has to tell.    *)
ExchangeSpec == Seen!Spec

(* The values the controller's variables range over. *)
TypeOK ==
    /\ pc \in [Tasks -> {"idle", "waiting", "draining", "reading"}]
    /\ holder \in Tasks \cup {NoTask}
    /\ waiters \in Seq(Tasks)
    /\ queued \in Nat /\ nextToken \in Nat /\ lines \in Nat /\ sent \in Nat
    /\ token \in [Tasks -> Nat] /\ cmd \in [Tasks -> Nat]
    /\ stdin \in Seq(Command) /\ stdout \in Seq(MIRecord)
    /\ gdbAlive \in BOOLEAN
    /\ outcome \in [Tasks -> Outcome]

(* controller.py:126: an answer GDB gave to another command, one that      *)
(* timed out or was cancelled before, is never handed to a caller as the   *)
(* result of its own.                                                      *)
ResultIsOwn ==
    \A t \in Tasks : outcome[t].how \in {"done", "error"} =>
        outcome[t].cmd = cmd[t]

(* controller.py:70: one command at a time is on the wire, and the lock is *)
(* never left with a task that has gone.                                   *)
LockIsHeldByTheCommand ==
    \A t \in Tasks : pc[t] \in {"draining", "reading"} <=> holder = t

InExecute == {t \in Tasks : pc[t] # "idle"}

(* controller.py:92-103: the queue counter counts the commands in execute, *)
(* waiting or on the wire, and stays within the limit.                     *)
QueueAccounting ==
    /\ queued = Cardinality(InExecute)
    /\ queued =< MaxQueued

(* controller.py:28: however GDB behaves short of hanging, every execute   *)
(* ends, with a result or an exception, and the queue behind it moves on.  *)
EveryExecuteEnds == \A t \in Tasks : pc[t] # "idle" ~> pc[t] = "idle"
=============================================================================

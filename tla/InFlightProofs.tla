---------------------------- MODULE InFlightProofs ----------------------------
(***************************************************************************)
(* What is still in flight between an operation and GDB: that with one     *)
(* operation at a time nothing changes a halted target between the reads   *)
(* of an operation, and that a session which says "halted" has no command  *)
(* on its way that starts the target.                                      *)
(***************************************************************************)
EXTENDS DebugSessionProofs, FiniteSetTheorems

(* At most one command or answer is still awaited: by the task that reads, *)
(* and as the last command GDB has to take up.                             *)
OwnInv ==
    /\ \A i \in DOMAIN stdin : stdin[i].owner # NoTask =>
          /\ phase[stdin[i].owner] = "reading"
          /\ stdin[i].cmd = Current(stdin[i].owner)
          /\ i = Len(stdin)
          /\ \A j \in DOMAIN stdout : stdout[j].owner = NoTask
    /\ \A i \in DOMAIN stdout : stdout[i].owner # NoTask =>
          /\ phase[stdout[i].owner] = "reading"
          /\ \A j \in DOMAIN stdout : stdout[j].owner # NoTask => j = i

(* A target is watched for the one operation there is, and what GDB has    *)
(* still to take up from before does not move it.                          *)
Harmless == {"frame", "disassemble"}
Reader == {"read_memory", "compare_write", "debug_snapshot"}

QuietInv ==
    config.limit = 1 =>
        /\ \A t, u \in Tasks : op[t] # "none" /\ op[u] # "none" => t = u
        /\ \A t \in Tasks : window[t] # "none" =>
              /\ window[t] = "open" /\ op[t] \in Reader
              /\ \A i \in DOMAIN stdin :
                    stdin[i].owner = t \/ stdin[i].cmd \in Harmless

(* The answer to a command that stops the target finds it not running, and *)
(* nothing GDB has still to take up starts it.                             *)
Starting == {"continue", "reset-run"}
Stopping == {"interrupt", "step", "reset-halt"}

CleanInv ==
    \A i \in DOMAIN stdout :
        /\ stdout[i].owner # NoTask /\ stdout[i].ok = TRUE
        /\ Current(stdout[i].owner) \in Stopping
        => /\ target # "running"
           /\ \A j \in DOMAIN stdin : stdin[j].cmd \notin Starting

(* resume's command timed out, its interrupt is to come. *)
Interrupting(t) == op[t] = "resume" /\ at[t] = 2

(* While the session says "halted", only a command that is still awaited   *)
(* starts the target.                                                      *)
HonestInv ==
    lost = {} /\ state = "halted" /\ (\A t \in Tasks : ~Interrupting(t)) =>
        /\ gdb = "alive" =>
              \A i \in DOMAIN stdin :
                  stdin[i].cmd \in Starting => stdin[i].owner # NoTask
        /\ target = "running" =>
              \E i \in DOMAIN stdout :
                  /\ stdout[i].owner # NoTask /\ stdout[i].ok = TRUE
                  /\ Current(stdout[i].owner) \in Starting

-----------------------------------------------------------------------------
(***************************************************************************)
(* A task that goes on, closes or ends.                                    *)
(***************************************************************************)

LEMMA OthersStay ==
    ASSUME TaskInv, NEW t \in Tasks, Moving(t)
    PROVE  /\ \A u \in Tasks : u # t =>
                 /\ op'[u] = op[u] /\ at'[u] = at[u]
                 /\ phase'[u] = phase[u] /\ window'[u] = window[u]
           /\ \/ op'[t] = op[t] /\ window'[t] = window[t]
              \/ op'[t] = "none" /\ window'[t] = "none"
  <1>1. CASE MovesOn(t)
    <2>1. /\ op' = op /\ window' = window /\ at' = [at EXCEPT ![t] = at[t] + 1]
          /\ phase' = [phase EXCEPT ![t] = "waiting"]
      BY <1>1 DEF MovesOn, GoOn
    <2> QED
      BY <2>1 DEF TaskInv
  <1>2. CASE MovesToClose(t)
    <2>1. PICK how : /\ op' = op /\ window' = window /\ at' = at
                     /\ phase' = [phase EXCEPT ![t] = how]
      BY <1>2 DEF MovesToClose, Close
    <2> QED
      BY <2>1 DEF TaskInv
  <1>3. CASE MovesOut(t)
    <2>1. /\ op' = [op EXCEPT ![t] = "none"]
          /\ at' = [at EXCEPT ![t] = 1]
          /\ phase' = [phase EXCEPT ![t] = "idle"]
          /\ window' = [window EXCEPT ![t] = "none"]
      BY <1>3 DEF MovesOut, End
    <2> QED
      BY <2>1 DEF TaskInv
  <1> QED
    BY <1>1, <1>2, <1>3 DEF Moving

LEMMA PipeTypes ==
    ASSUME Inv
    PROVE  /\ \A i \in DOMAIN stdin : stdin[i] \in Command
           /\ \A i \in DOMAIN stdout : stdout[i] \in Record
           /\ \A i \in DOMAIN stdin : stdin[i].owner \in Tasks \cup {NoTask}
           /\ \A i \in DOMAIN stdout : stdout[i].owner \in Tasks \cup {NoTask}
           /\ DOMAIN stdin = 1..Len(stdin) /\ Len(stdin) \in Nat
           /\ DOMAIN stdout = 1..Len(stdout) /\ Len(stdout) \in Nat
           /\ NoTask \notin Tasks
  <1>1. /\ \A i \in DOMAIN stdin : stdin[i] \in Command
        /\ \A i \in DOMAIN stdout : stdout[i] \in Record
        /\ DOMAIN stdin = 1..Len(stdin) /\ Len(stdin) \in Nat
        /\ DOMAIN stdout = 1..Len(stdout) /\ Len(stdout) \in Nat
    BY DEF Inv, StopInv
  <1> QED
    BY <1>1, SessionAssumption DEF Command, Record, SessionAssumption

LEMMA Orphans ==
    ASSUME Inv, NEW t \in Tasks,
           stdin' = Orphaned(stdin, t), stdout' = Orphaned(stdout, t)
    PROVE  /\ DOMAIN stdin' = DOMAIN stdin /\ DOMAIN stdout' = DOMAIN stdout
           /\ Len(stdin') = Len(stdin)
           /\ \A i \in DOMAIN stdin :
                 /\ stdin'[i].cmd = stdin[i].cmd
                 /\ stdin'[i].owner = IF stdin[i].owner = t THEN NoTask ELSE stdin[i].owner
           /\ \A i \in DOMAIN stdout :
                 stdout'[i].owner = IF stdout[i].owner = t THEN NoTask ELSE stdout[i].owner
  <1>1. /\ \A i \in DOMAIN stdin : stdin[i] \in Command
        /\ \A i \in DOMAIN stdout : stdout[i] \in Record
        /\ DOMAIN stdin = 1..Len(stdin) /\ Len(stdin) \in Nat
    BY PipeTypes
  <1>2. /\ stdin' = [i \in DOMAIN stdin |->
                       IF stdin[i].owner = t THEN [stdin[i] EXCEPT !.owner = NoTask]
                       ELSE stdin[i]]
        /\ stdout' = [i \in DOMAIN stdout |->
                       IF stdout[i].owner = t THEN [stdout[i] EXCEPT !.owner = NoTask]
                       ELSE stdout[i]]
    BY DEF Orphaned
  <1>3. DOMAIN stdin' = DOMAIN stdin /\ DOMAIN stdout' = DOMAIN stdout
    BY <1>2
  <1>4. Len(stdin') = Len(stdin)
    BY <1>1, <1>3
  <1>5. \A i \in DOMAIN stdin :
           /\ stdin'[i].cmd = stdin[i].cmd
           /\ stdin'[i].owner = IF stdin[i].owner = t THEN NoTask ELSE stdin[i].owner
    BY <1>1, <1>2 DEF Command
  <1>6. \A i \in DOMAIN stdout :
           stdout'[i].owner = IF stdout[i].owner = t THEN NoTask ELSE stdout[i].owner
    BY <1>1, <1>2 DEF Record
  <1> QED
    BY <1>3, <1>4, <1>5, <1>6

LEMMA OwnOrphaned ==
    ASSUME Inv, OwnInv, NEW t \in Tasks, Moving(t),
           stdin' = Orphaned(stdin, t), stdout' = Orphaned(stdout, t)
    PROVE  OwnInv'
  <1>1. /\ DOMAIN stdin' = DOMAIN stdin /\ DOMAIN stdout' = DOMAIN stdout
        /\ Len(stdin') = Len(stdin)
        /\ \A i \in DOMAIN stdin :
              /\ stdin'[i].cmd = stdin[i].cmd
              /\ stdin'[i].owner = IF stdin[i].owner = t THEN NoTask ELSE stdin[i].owner
        /\ \A i \in DOMAIN stdout :
              stdout'[i].owner = IF stdout[i].owner = t THEN NoTask ELSE stdout[i].owner
    BY Orphans
  <1>2. \A u \in Tasks : u # t =>
           op'[u] = op[u] /\ at'[u] = at[u] /\ phase'[u] = phase[u]
    BY OthersStay DEF Inv
  <1>3. /\ \A i \in DOMAIN stdin : stdin[i].owner \in Tasks \cup {NoTask}
        /\ \A i \in DOMAIN stdout : stdout[i].owner \in Tasks \cup {NoTask}
    BY PipeTypes
  <1>4. \A i \in DOMAIN stdin : stdin'[i].owner # NoTask =>
           /\ stdin[i].owner # t /\ stdin[i].owner \in Tasks
           /\ stdin'[i].owner = stdin[i].owner
    BY <1>1, <1>3
  <1>5. \A i \in DOMAIN stdout : stdout'[i].owner # NoTask =>
           /\ stdout[i].owner # t /\ stdout[i].owner \in Tasks
           /\ stdout'[i].owner = stdout[i].owner
    BY <1>1, <1>3
  <1>6. \A i \in DOMAIN stdin' : stdin'[i].owner # NoTask =>
          /\ phase'[stdin'[i].owner] = "reading"
          /\ stdin'[i].cmd = Script[op'[stdin'[i].owner]][at'[stdin'[i].owner]]
          /\ i = Len(stdin')
          /\ \A j \in DOMAIN stdout' : stdout'[j].owner = NoTask
    BY <1>1, <1>2, <1>4, <1>5 DEF OwnInv, Current
  <1>7. \A i \in DOMAIN stdout' : stdout'[i].owner # NoTask =>
          /\ phase'[stdout'[i].owner] = "reading"
          /\ \A j \in DOMAIN stdout' : stdout'[j].owner # NoTask => j = i
    BY <1>1, <1>2, <1>5 DEF OwnInv
  <1> QED
    BY <1>6, <1>7 DEF OwnInv, Current

LEMMA QuietMoves ==
    ASSUME Inv, QuietInv, config' = config, NEW t \in Tasks, Moving(t), op[t] # "none",
           config.limit = 1 /\ window'[t] # "none" =>
              \A i \in DOMAIN stdin' : stdin'[i].owner = t \/ stdin'[i].cmd \in Harmless
    PROVE  QuietInv'
  <1> SUFFICES ASSUME config.limit = 1
               PROVE  QuietInv'
    BY DEF QuietInv
  <1>1. /\ \A u \in Tasks : u # t =>
              /\ op'[u] = op[u] /\ at'[u] = at[u]
              /\ phase'[u] = phase[u] /\ window'[u] = window[u]
        /\ \/ op'[t] = op[t] /\ window'[t] = window[t]
           \/ op'[t] = "none" /\ window'[t] = "none"
    BY OthersStay DEF Inv
  <1>2. \A u \in Tasks : u # t => op[u] = "none" /\ window[u] = "none"
    BY DEF QuietInv, Reader
  <1>3. \A u, v \in Tasks : op'[u] # "none" /\ op'[v] # "none" => u = v
    BY <1>1, <1>2
  <1>4. \A u \in Tasks : window'[u] # "none" =>
              /\ window'[u] = "open" /\ op'[u] \in Reader
              /\ \A i \in DOMAIN stdin' :
                    stdin'[i].owner = u \/ stdin'[i].cmd \in Harmless
    BY <1>1, <1>2 DEF QuietInv
  <1> QED
    BY <1>3, <1>4 DEF QuietInv

-----------------------------------------------------------------------------
(***************************************************************************)
(* Every action preserves the invariant.                                   *)
(***************************************************************************)
Watched == OwnInv' /\ QuietInv'

(* An operation begins when no other is open. *)
LEMMA StartsWatched ==
    ASSUME Inv, OwnInv, QuietInv, NEW t \in Tasks, NEW o \in Operation, Starts(t, o),
           config.limit = 1 => \A u \in Tasks : op[u] = "none"
    PROVE  Watched
  <1>1. /\ op[t] = "none" /\ phase[t] = "idle"
        /\ op' = [op EXCEPT ![t] = o]
        /\ phase' = [phase EXCEPT ![t] = "waiting"]
        /\ UNCHANGED <<config, at, stdin, stdout, window>>
    BY DEF Starts, Inv, TaskInv
  <1>2. /\ \A u \in Tasks : u # t =>
              op'[u] = op[u] /\ at'[u] = at[u] /\ phase'[u] = phase[u]
    BY <1>1 DEF Inv, TaskInv
  <1>3. /\ \A i \in DOMAIN stdin : stdin[i].owner # NoTask =>
              stdin[i].owner \in Tasks /\ stdin[i].owner # t
        /\ \A i \in DOMAIN stdout : stdout[i].owner # NoTask =>
              stdout[i].owner \in Tasks /\ stdout[i].owner # t
    BY <1>1, PipeTypes DEF OwnInv
  <1>4. OwnInv'
    BY <1>1, <1>2, <1>3 DEF OwnInv, Current
  <1>5. QuietInv'
    <2> SUFFICES ASSUME config.limit = 1
                 PROVE  QuietInv'
      BY <1>1 DEF QuietInv
    <2>1. \A u \in Tasks : op[u] = "none" /\ window[u] = "none"
      BY DEF QuietInv, Reader
    <2>2. \A u \in Tasks : window'[u] = "none"
      BY <1>1, <2>1
    <2>3. \A u, v \in Tasks : op'[u] # "none" /\ op'[v] # "none" => u = v
      BY <1>2, <2>1
    <2> QED
      BY <2>2, <2>3 DEF QuietInv
  <1> QED
    BY <1>4, <1>5 DEF Watched

LEMMA ConnectWatched ==
    ASSUME Inv, OwnInv, QuietInv, NEW t \in Tasks, Connect(t)
    PROVE  Watched
  <1>1. "connect_target" \in Operation
    BY DEF Operation, Script
  <1>2. Starts(t, "connect_target") /\ \A u \in Tasks : op[u] = "none"
    BY DEF Connect, Inv, StartInv
  <1> QED
    BY <1>1, <1>2, StartsWatched

LEMMA BeginWatched ==
    ASSUME Inv, OwnInv, QuietInv, NEW t \in Tasks, NEW o \in Calls, Begin(t, o)
    PROVE  Watched
  <1>1. o \in Operation /\ Starts(t, o) /\ Cardinality(Busy) < config.limit
    BY SessionAssumption DEF SessionAssumption, Begin, FreeSlot
  <1>2. ASSUME config.limit = 1, NEW u \in Tasks
        PROVE  op[u] = "none"
    <2>1. IsFiniteSet(Busy)
      BY SessionAssumption, FS_Subset DEF SessionAssumption, Busy
    <2>2. Busy = {}
      BY <1>1, <1>2, <2>1, FS_CardinalityType, FS_EmptySet
    <2> QED
      BY <2>2 DEF Busy
  <1> QED
    BY <1>1, <1>2, StartsWatched

LEMMA ResetAtOnceWatched ==
    ASSUME Inv, OwnInv, QuietInv, NEW t \in Tasks, NEW o \in Calls, ResetAtOnce(t, o)
    PROVE  Watched
  <1>1. UNCHANGED <<config, op, at, phase, stdin, stdout, window>>
    BY DEF ResetAtOnce
  <1> QED
    BY <1>1 DEF Watched, OwnInv, QuietInv, Current

LEMMA SendWatched ==
    ASSUME Inv, OwnInv, QuietInv, NEW t \in Tasks, Send(t)
    PROVE  Watched
  <1> DEFINE c == [cmd |-> Current(t), owner |-> t]
  <1>1. /\ UNCHANGED <<config, op, at, stdout, window>>
        /\ phase[t] = "waiting" /\ line # <<>> /\ line[1] = t
        /\ phase' = [phase EXCEPT ![t] = "reading"]
        /\ stdin' = Append(stdin, c)
    BY DEF Send, HasLock, Inv, LineInv
  <1>2. phase'[t] = "reading" /\ op[t] # "none"
    BY <1>1 DEF Inv, TaskInv
  <1>3. \A u \in Tasks : phase[u] # "reading"
    BY <1>1 DEF Inv, LineInv
  <1>4. /\ \A i \in DOMAIN stdin : stdin[i].owner = NoTask
        /\ \A i \in DOMAIN stdout : stdout[i].owner = NoTask
    BY <1>3, PipeTypes DEF OwnInv
  <1>5. c.owner = t /\ c.cmd = Current(t)
    OBVIOUS
  <1> HIDE DEF c
  <1>6. /\ DOMAIN stdin' = 1..Len(stdin) + 1 /\ Len(stdin') = Len(stdin) + 1
        /\ \A i \in 1..Len(stdin) : stdin'[i] = stdin[i]
        /\ stdin'[Len(stdin) + 1] = c
        /\ DOMAIN stdin = 1..Len(stdin) /\ Len(stdin) \in Nat
    BY <1>1 DEF Inv, StopInv
  <1>7. \A i \in DOMAIN stdin' : \/ i = Len(stdin') /\ stdin'[i] = c
                                 \/ i \in DOMAIN stdin /\ stdin'[i] = stdin[i]
    BY <1>6
  <1>8. OwnInv'
    BY <1>1, <1>2, <1>4, <1>5, <1>7 DEF OwnInv, Current
  <1>9. QuietInv'
    BY <1>1, <1>2, <1>5, <1>7 DEF QuietInv, Reader
  <1> QED
    BY <1>8, <1>9 DEF Watched

LEMMA ReadLineWatched ==
    ASSUME Inv, OwnInv, QuietInv, NEW t \in Tasks, ReadLine(t)
    PROVE  Watched
  <1> DEFINE r == Head(stdout)
  <1>1. /\ phase[t] = "reading" /\ stdout # <<>> /\ stdout' = Tail(stdout)
        /\ UNCHANGED <<config, stdin>>
        /\ \/ r.owner = t /\ Answered(t, r.ok)
           \/ Collect(t, r)
    BY DEF ReadLine
  <1>2. op[t] \in Operation /\ at[t] \in DOMAIN Script[op[t]] /\ op[t] # "none"
    BY <1>1 DEF Inv, TaskInv, Operation, Script
  <1>3. /\ r = stdout[1] /\ 1 \in DOMAIN stdout
        /\ DOMAIN stdout' = 1..Len(stdout) - 1
        /\ \A i \in DOMAIN stdout' : /\ stdout'[i] = stdout[i + 1]
                                     /\ i + 1 \in DOMAIN stdout /\ i + 1 # 1
        /\ \A i, j \in DOMAIN stdout' : i + 1 = j + 1 => i = j
    BY <1>1 DEF Inv, StopInv
  <1> HIDE DEF r
  <1>4. CASE r.owner = t /\ Answered(t, r.ok)
    <2>1. t # NoTask
      BY PipeTypes
    <2>2. /\ \A i \in DOMAIN stdin : stdin[i].owner = NoTask
          /\ \A i \in DOMAIN stdout' : stdout'[i].owner = NoTask
      BY <1>3, <1>4, <2>1 DEF OwnInv
    <2>3. OwnInv'
      BY <1>1, <2>2 DEF OwnInv
    <2>4. Moving(t)
      BY <1>1, <1>2, <1>4, AnsweredResult, ResultMoves DEF Alive
    <2>5. config.limit = 1 /\ window'[t] # "none" =>
             \A i \in DOMAIN stdin' : stdin'[i].owner = t \/ stdin'[i].cmd \in Harmless
      <3>1. window'[t] = window[t] \/ window'[t] = "none"
        BY <2>4, OthersStay DEF Inv
      <3> QED
        BY <1>1, <3>1 DEF QuietInv
    <2>6. QuietInv'
      BY <1>1, <1>2, <2>4, <2>5, QuietMoves
    <2> QED
      BY <2>3, <2>6 DEF Watched
  <1>5. CASE Collect(t, r)
    <2>1. UNCHANGED <<op, at, phase, window>>
      BY <1>5 DEF Collect
    <2>2. OwnInv'
      BY <1>1, <1>3, <2>1 DEF OwnInv, Current
    <2>3. QuietInv'
      BY <1>1, <2>1 DEF QuietInv
    <2> QED
      BY <2>2, <2>3 DEF Watched
  <1> QED
    BY <1>1, <1>4, <1>5

(* What a failed command leaves under observation is a snapshot that goes *)
(* on without its frame or its disassembly.                               *)
LEMMA RaisedCloses ==
    ASSUME Inv, NEW t \in Tasks, op[t] # "none", NEW why, Raised(t, why)
    PROVE  \/ window'[t] = "none"
           \/ op[t] \in {"resume", "disconnect_target"}
           \/ Current(t) \in Harmless
  <1>1. \/ op[t] = "resume"
        \/ op[t] = "resume_unattended" /\ Settle(t, "unknown")
        \/ Current(t) \in {"frame", "disassemble"}
        \/ Current(t) = "exit"
        \/ End(t, "raised")
    BY Zenon DEF Raised, UnattendedTimedOut, ExitFailed
  <1>2. \A v : End(t, v) => window'[t] = "none"
    BY DEF End, Inv, TaskInv
  <1>3. Current(t) = "exit" => op[t] = "disconnect_target"
    <2>1. op[t] \in Operation /\ at[t] \in DOMAIN Script[op[t]]
      BY DEF Inv, TaskInv
    <2> QED
      BY <2>1, Scripts DEF Current
  <1> QED
    BY <1>1, <1>2, <1>3 DEF Settle, Harmless

LEMMA FailsWatched ==
    ASSUME Inv, OwnInv, QuietInv, NEW t \in Tasks, NEW why, Fails(t, why)
    PROVE  Watched
  <1>1. /\ phase[t] \in {"waiting", "reading"} /\ Raised(t, why)
        /\ stdin' = Orphaned(stdin, t) /\ stdout' = Orphaned(stdout, t)
        /\ config' = config
    BY DEF Fails
  <1>2. op[t] \in Operation /\ at[t] \in DOMAIN Script[op[t]] /\ op[t] # "none"
    BY <1>1 DEF Inv, TaskInv, Operation, Script
  <1>3. Moving(t)
    BY <1>1, <1>2, RaisedResult, ResultMoves
  <1>4. config.limit = 1 /\ window'[t] # "none" =>
           \A i \in DOMAIN stdin' : stdin'[i].owner = t \/ stdin'[i].cmd \in Harmless
    <2> SUFFICES ASSUME config.limit = 1, window'[t] # "none", NEW i \in DOMAIN stdin'
                 PROVE  stdin'[i].cmd \in Harmless
      OBVIOUS
    <2>1. window[t] # "none"
      BY <1>3, OthersStay DEF Inv
    <2>2. op[t] \in Reader /\ \A j \in DOMAIN stdin :
             stdin[j].owner = t \/ stdin[j].cmd \in Harmless
      BY <2>1 DEF QuietInv
    <2>3. Current(t) \in Harmless
      BY <1>1, <1>2, <2>2, RaisedCloses DEF Reader
    <2>4. i \in DOMAIN stdin /\ stdin'[i].cmd = stdin[i].cmd
      BY <1>1, Orphans
    <2>5. t # NoTask
      BY PipeTypes
    <2> QED
      BY <2>2, <2>3, <2>4, <2>5 DEF OwnInv
  <1> QED
    BY <1>1, <1>2, <1>3, <1>4, OwnOrphaned, QuietMoves DEF Watched

LEMMA CancelWatched ==
    ASSUME Inv, OwnInv, QuietInv, NEW t \in Tasks, Cancel(t)
    PROVE  Watched
  <1>1. /\ phase[t] \in {"waiting", "reading"}
        /\ stdin' = Orphaned(stdin, t) /\ stdout' = Orphaned(stdout, t)
        /\ config' = config
        /\ \/ op[t] = "disconnect_target" /\ Close(t, "closing-cancelled")
           \/ End(t, "cancelled")
    BY DEF Cancel
  <1>2. op[t] # "none"
    BY <1>1 DEF Inv, TaskInv
  <1>3. Moving(t)
    BY <1>1 DEF Moving, MovesToClose, MovesOut, Closing
  <1>4. config.limit = 1 => window'[t] = "none"
    <2>1. End(t, "cancelled") => window'[t] = "none"
      BY DEF End, Inv, TaskInv
    <2>2. config.limit = 1 /\ op[t] = "disconnect_target" => window[t] = "none"
      BY DEF QuietInv, Reader
    <2> QED
      BY <1>1, <2>1, <2>2 DEF Close
  <1> QED
    BY <1>1, <1>2, <1>3, <1>4, OwnOrphaned, QuietMoves DEF Watched

LEMMA LastCloseWatched ==
    ASSUME Inv, OwnInv, QuietInv, NEW t \in Tasks, phase[t] \in Closing,
           NEW v \in {"returned", "raised", "cancelled"}, End(t, v),
           UNCHANGED <<config, stdin, stdout>>
    PROVE  Watched
  <1>1. op[t] # "none" /\ phase[t] # "reading"
    BY DEF Inv, TaskInv, Closing
  <1>2. Moving(t)
    BY DEF Moving, MovesOut
  <1>3. \A u \in Tasks : u # t =>
           op'[u] = op[u] /\ at'[u] = at[u] /\ phase'[u] = phase[u]
    BY <1>2, OthersStay DEF Inv
  <1>4. /\ \A i \in DOMAIN stdin : stdin[i].owner # NoTask =>
              stdin[i].owner \in Tasks /\ stdin[i].owner # t
        /\ \A i \in DOMAIN stdout : stdout[i].owner # NoTask =>
              stdout[i].owner \in Tasks /\ stdout[i].owner # t
    BY <1>1, PipeTypes DEF OwnInv
  <1>5. OwnInv'
    BY <1>3, <1>4 DEF OwnInv, Current
  <1>6. window'[t] = "none"
    BY DEF End, Inv, TaskInv
  <1> QED
    BY <1>1, <1>2, <1>5, <1>6, QuietMoves DEF Watched

LEMMA TailOf ==
    ASSUME Inv, stdin # <<>>, stdin' = Tail(stdin)
    PROVE  /\ Head(stdin) = stdin[1] /\ 1 \in DOMAIN stdin
           /\ Len(stdin') = Len(stdin) - 1 /\ DOMAIN stdin' = 1..Len(stdin) - 1
           /\ \A i \in DOMAIN stdin' : /\ stdin'[i] = stdin[i + 1]
                                       /\ i + 1 \in DOMAIN stdin /\ i + 1 # 1
           /\ 1 = Len(stdin) => DOMAIN stdin' = {}
  BY DEF Inv, StopInv

(* GDB takes up a command and prints its answer. *)
LEMMA TakenUpOwn ==
    ASSUME Inv, OwnInv, UNCHANGED taskVars, stdin # <<>>, stdin' = Tail(stdin),
           NEW ok, NEW n, Printed(Head(stdin).owner, ok, n)
    PROVE  OwnInv'
  <1> DEFINE c == Head(stdin)
             r == [owner |-> c.owner, ok |-> ok, frame |-> n]
  <1>1. /\ c = stdin[1] /\ 1 \in DOMAIN stdin
        /\ Len(stdin') = Len(stdin) - 1 /\ Len(stdin) \in Nat
        /\ DOMAIN stdin' = 1..Len(stdin) - 1
        /\ \A i \in DOMAIN stdin' : /\ stdin'[i] = stdin[i + 1]
                                    /\ i + 1 \in DOMAIN stdin /\ i + 1 # 1
        /\ 1 = Len(stdin) => DOMAIN stdin' = {}
    BY TailOf, PipeTypes
  <1>2. stdout' = Append(stdout, r) /\ r.owner = c.owner
    BY DEF Printed
  <1>3. UNCHANGED <<op, at, phase>>
    BY DEF taskVars
  <1> HIDE DEF c, r
  <1>4. /\ DOMAIN stdout' = 1..Len(stdout) + 1
        /\ \A i \in 1..Len(stdout) : stdout'[i] = stdout[i]
        /\ stdout'[Len(stdout) + 1] = r
        /\ DOMAIN stdout = 1..Len(stdout) /\ Len(stdout) \in Nat
    BY <1>2 DEF Inv, StopInv
  <1>5. \A i \in DOMAIN stdout' :
           \/ i = Len(stdout) + 1 /\ stdout'[i].owner = c.owner
           \/ i \in DOMAIN stdout /\ stdout'[i] = stdout[i]
    BY <1>2, <1>4
  <1>6. CASE c.owner = NoTask
    BY <1>1, <1>3, <1>5, <1>6 DEF OwnInv, Current
  <1>7. CASE c.owner # NoTask
    <2>1. /\ phase[c.owner] = "reading" /\ DOMAIN stdin' = {}
          /\ \A j \in DOMAIN stdout : stdout[j].owner = NoTask
      BY <1>1, <1>7 DEF OwnInv
    <2> QED
      BY <1>3, <1>5, <2>1 DEF OwnInv
  <1> QED
    BY <1>6, <1>7

LEMMA GdbRefusesWatched ==
    ASSUME Inv, OwnInv, QuietInv, GdbRefuses
    PROVE  Watched
  <1>1. /\ UNCHANGED <<config, taskVars, window, op>>
        /\ stdin # <<>> /\ stdin' = Tail(stdin)
        /\ Printed(Head(stdin).owner, FALSE, 0)
    BY DEF GdbRefuses, taskVars
  <1>2. OwnInv'
    BY <1>1, TakenUpOwn
  <1>3. QuietInv'
    BY <1>1, TailOf DEF QuietInv
  <1> QED
    BY <1>2, <1>3 DEF Watched

LEMMA GdbExecutesWatched ==
    ASSUME Inv, OwnInv, QuietInv, GdbExecutes
    PROVE  Watched
  <1> DEFINE c == Head(stdin)
  <1>1. /\ UNCHANGED <<config, taskVars, op>>
        /\ stdin # <<>> /\ stdin' = Tail(stdin)
        /\ Printed(c.owner, TRUE, IF c.cmd = "frame" THEN stops ELSE 0)
        /\ window' = Observed(c)
    BY DEF GdbExecutes, taskVars
  <1>2. OwnInv'
    BY <1>1, TakenUpOwn
  <1>3. /\ c = stdin[1] /\ 1 \in DOMAIN stdin
        /\ \A i \in DOMAIN stdin' : stdin'[i] = stdin[i + 1] /\ i + 1 \in DOMAIN stdin
        /\ 1 = Len(stdin) => DOMAIN stdin' = {}
        /\ NoTask \notin Tasks
    BY <1>1, TailOf, PipeTypes
  <1> HIDE DEF c
  <1>4. QuietInv'
    <2> SUFFICES ASSUME config.limit = 1
                 PROVE  QuietInv'
      BY <1>1 DEF QuietInv
    <2>1. \A t, u \in Tasks : op'[t] # "none" /\ op'[u] # "none" => t = u
      BY <1>1 DEF QuietInv
    <2>2. ASSUME NEW t \in Tasks, window'[t] # "none"
          PROVE  /\ window'[t] = "open" /\ op'[t] \in Reader
                 /\ \A i \in DOMAIN stdin' :
                       stdin'[i].owner = t \/ stdin'[i].cmd \in Harmless
      <3>1. window'[t] =
              IF t = c.owner
              THEN IF c.cmd = "read" /\ target = "halted" /\ window[t] = "none"
                   THEN "open" ELSE window[t]
              ELSE IF window[t] = "open" /\ (c.cmd = "write" \/ Effect(c.cmd) # target)
                   THEN "torn" ELSE window[t]
        BY <1>1 DEF Observed
      <3>2. CASE window[t] = "none"
        <4>1. t = c.owner /\ c.cmd = "read" /\ window'[t] = "open"
          BY <2>2, <3>1, <3>2
        <4>2. phase[t] = "reading" /\ Current(t) = "read" /\ DOMAIN stdin' = {}
          BY <1>3, <4>1 DEF OwnInv
        <4>3. op[t] \in Operation /\ at[t] \in DOMAIN Script[op[t]]
          BY <4>2 DEF Inv, TaskInv
        <4>4. op[t] \in {"read_memory", "set_breakpoint", "write_memory",
                         "compare_write", "debug_snapshot"}
          BY <4>2, <4>3, Scripts DEF Current
        <4>5. op[t] # "set_breakpoint" /\ op[t] # "write_memory"
          <5>1. Script["set_breakpoint"] = <<"break">> /\ Script["write_memory"] = <<"write">>
            BY DEF Script
          <5> QED
            BY <4>2, <4>3, <5>1 DEF Current
        <4> QED
          BY <1>1, <4>1, <4>2, <4>4, <4>5 DEF Reader
      <3>3. CASE window[t] # "none"
        <4>1. /\ window[t] = "open" /\ op[t] \in Reader
              /\ \A i \in DOMAIN stdin : stdin[i].owner = t \/ stdin[i].cmd \in Harmless
          BY <3>3 DEF QuietInv
        <4>2. c.owner # t => c.cmd \in Harmless
          BY <1>3, <4>1
        <4>3. c.cmd \in Harmless => c.cmd # "write" /\ Effect(c.cmd) = target
          BY DEF Harmless, Effect
        <4>4. window'[t] = "open"
          BY <3>1, <4>1, <4>2, <4>3
        <4> QED
          BY <1>1, <1>3, <4>1, <4>4
      <3> QED
        BY <3>2, <3>3
    <2> QED
      BY <2>1, <2>2 DEF QuietInv
  <1> QED
    BY <1>2, <1>4 DEF Watched

LEMMA HaltsWatched ==
    ASSUME Inv, OwnInv, QuietInv, Halts
    PROVE  Watched
  <1> DEFINE r == [owner |-> NoTask, ok |-> TRUE, frame |-> stops + 1]
  <1>1. /\ UNCHANGED <<config, op, at, phase, window, stdin>>
        /\ stdout' = Append(stdout, r) /\ r.owner = NoTask
    BY DEF Halts, Printed, taskVars
  <1> HIDE DEF r
  <1>2. \A i \in DOMAIN stdout' :
           \/ stdout'[i].owner = NoTask
           \/ i \in DOMAIN stdout /\ stdout'[i] = stdout[i]
    BY <1>1 DEF Inv, StopInv
  <1>3. OwnInv'
    BY <1>1, <1>2 DEF OwnInv, Current
  <1>4. QuietInv'
    BY <1>1 DEF QuietInv
  <1> QED
    BY <1>3, <1>4 DEF Watched

LEMMA QuietStutter ==
    ASSUME Inv, OwnInv, QuietInv,
           UNCHANGED <<config, op, at, phase, window, stdin, stdout>>
    PROVE  Watched
  BY DEF Watched, OwnInv, QuietInv, Current

-----------------------------------------------------------------------------

LEMMA WatchedStep ==
    ASSUME Inv, OwnInv, QuietInv, [Next]_vars
    PROVE  Watched
  <1>1. ASSUME NEW t \in Tasks, Connect(t)
        PROVE  Watched
    BY <1>1, ConnectWatched
  <1>2. ASSUME NEW t \in Tasks, NEW o \in Calls, Begin(t, o) \/ ResetAtOnce(t, o)
        PROVE  Watched
    BY <1>2, BeginWatched, ResetAtOnceWatched
  <1>3. ASSUME NEW t \in Tasks, TaskStep(t) \/ Fails(t, "garbage")
        PROVE  Watched
    <2>1. CASE Send(t)
      BY <2>1, SendWatched
    <2>2. CASE ReadLine(t)
      BY <2>2, ReadLineWatched
    <2>3. CASE Closed(t)
      <3>1. /\ phase[t] \in Closing /\ UNCHANGED <<config, stdin, stdout>>
            /\ \E v \in {"returned", "raised", "cancelled"} : End(t, v)
        BY <2>3 DEF Closed, Closing
      <3> QED
        BY <3>1, LastCloseWatched
    <2>4. CASE Fails(t, "timeout") \/ Fails(t, "closed") \/ Fails(t, "garbage")
      BY <2>4, FailsWatched
    <2> QED
      BY <1>3, <2>1, <2>2, <2>3, <2>4 DEF TaskStep
  <1>4. ASSUME NEW t \in Tasks, Cancel(t) \/ CancelClosing(t)
        PROVE  Watched
    <2>1. CASE Cancel(t)
      BY <2>1, CancelWatched
    <2>2. CASE CancelClosing(t)
      <3>1. /\ phase[t] \in Closing /\ UNCHANGED <<config, stdin, stdout>>
            /\ End(t, "cancelled")
        BY <2>2 DEF CancelClosing
      <3> QED
        BY <3>1, LastCloseWatched
    <2> QED
      BY <1>4, <2>1, <2>2
  <1>5. CASE GdbRefuses \/ GdbExecutes
    BY <1>5, GdbRefusesWatched, GdbExecutesWatched
  <1>6. CASE TargetStops \/ HitsBreakpoint
    BY <1>6, HaltsWatched DEF TargetStops, HitsBreakpoint
  <1>7. CASE GdbDies
    BY <1>7, QuietStutter DEF GdbDies, taskVars
  <1>8. CASE UNCHANGED vars
    BY <1>8, QuietStutter DEF vars
  <1> QED
    BY <1>1, <1>2, <1>3, <1>4, <1>5, <1>6, <1>7, <1>8 DEF Next

LEMMA InFlight == Spec => [](Inv /\ OwnInv /\ QuietInv)
  <1>1. Init => OwnInv /\ QuietInv
    BY DEF Init, OwnInv, QuietInv
  <1>2. Inv /\ OwnInv /\ QuietInv /\ [Next]_vars => OwnInv' /\ QuietInv'
    BY WatchedStep DEF Watched
  <1> QED
    BY SessionInvariant, <1>1, <1>2, PTL DEF Spec

(* safety-model.md "active operations per session: 1": with that limit no  *)
(* command, not even a late one of an operation that timed out, changes a  *)
(* halted target between the reads of a snapshot or between the compare    *)
(* and the write of a compare-before-write, for any tasks and operations.  *)
THEOREM Undisturbed == Spec => []OperationIsUndisturbed
  <1>1. QuietInv => OperationIsUndisturbed
    BY DEF QuietInv, OperationIsUndisturbed
  <1> QED
    BY InFlight, <1>1, PTL

-----------------------------------------------------------------------------
(***************************************************************************)
(* A session that says "halted".                                           *)
(***************************************************************************)
Faithful == CleanInv' /\ HonestInv'

LEMMA NeverHalted ==
    ASSUME NEW s \in TargetState, NEW u \in {"unknown", "degraded", "running"}
    PROVE  Moved(s, u).state # "halted"
  BY DEF Moved, can_transition, LEGAL_TRANSITIONS, TargetState, Returns, Raises

LEMMA StartingOps ==
    ASSUME NEW t \in Tasks, op[t] \in Operation, at[t] \in DOMAIN Script[op[t]]
    PROVE  /\ Current(t) \in Starting =>
                 \/ op[t] = "resume" /\ at[t] = 1 /\ Current(t) = "continue"
                 \/ op[t] = "resume_unattended" /\ Current(t) = "continue"
                 \/ op[t] = "reset_run" /\ Current(t) = "reset-run"
           /\ Interrupting(t) => Current(t) = "interrupt"
           /\ Current(t) = "continue" => op[t] \in {"resume", "resume_unattended"}
  BY Scripts DEF Current, Starting, Interrupting

LEMMA RaisedHalted ==
    ASSUME state \in TargetState, NEW t \in Tasks, NEW why,
           op[t] \in Operation, at[t] \in DOMAIN Script[op[t]],
           at \in [Tasks -> Nat],
           Raised(t, why), state' = "halted", ~Interrupting(t)'
    PROVE  /\ state = "halted" /\ ~Interrupting(t)
           /\ why = "timeout" => Current(t) # "continue"
  <1> DEFINE A == op[t] = "resume" /\ at[t] = 1 /\ why = "timeout"
             B == op[t] = "resume_unattended" /\ why = "timeout"
             C == op[t] = "resume" /\ at[t] = 2
  <1>1. \/ A /\ GoOn(t)
        \/ B /\ Settle(t, "unknown")
        \/ C /\ Settle(t, "degraded")
        \/ ~A /\ ~B /\ ~C /\ UNCHANGED state
    <2>1. \/ A /\ GoOn(t)
          \/ B /\ Settle(t, "unknown")
          \/ C /\ Settle(t, "degraded")
          \/ Current(t) \in {"frame", "disassemble", "exit"} /\ UNCHANGED state
          \/ ~A /\ ~B /\ ~C /\ UNCHANGED state
      BY Zenon DEF Raised, UnattendedTimedOut, ExitFailed
    <2>2. Current(t) \in {"frame", "disassemble", "exit"} => ~A /\ ~B /\ ~C
      BY Scripts DEF Current
    <2> QED
      BY <2>1, <2>2
  <1>2. CASE A /\ GoOn(t)
    <2>1. op' = op /\ at'[t] = 2
      BY <1>2 DEF GoOn
    <2> QED
      BY <1>2, <2>1 DEF Interrupting
  <1>3. CASE Settle(t, "unknown") \/ Settle(t, "degraded")
    BY <1>3, NeverHalted DEF Settle
  <1>4. CASE ~A /\ ~B /\ ~C /\ UNCHANGED state
    BY <1>4, Scripts DEF Current, Interrupting
  <1> QED
    BY <1>1, <1>2, <1>3, <1>4

LEMMA AnsweredHalted ==
    ASSUME state \in TargetState, NEW t \in Tasks, NEW ok \in BOOLEAN,
           op[t] \in Operation, at[t] \in DOMAIN Script[op[t]],
           at \in [Tasks -> Nat],
           Answered(t, ok), state' = "halted", ~Interrupting(t)'
    PROVE  \/ ok = TRUE /\ Current(t) \in Stopping
           \/ /\ state = "halted" /\ ~Interrupting(t)
              /\ ~ (ok = TRUE /\ Current(t) \in Starting)
  <1>1. \/ ok /\ Success(t).ok /\ state' = Success(t).state
        \/ ~ (ok /\ Success(t).ok) /\ Raised(t, "error")
    BY Zenon DEF Answered
  <1>2. Current(t) \in Starting => Success(t) = Moved(state, "running")
    BY DEF Starting, Success, Successor
  <1>3. CASE ok /\ Success(t).ok /\ state' = Success(t).state
    <2>1. Current(t) \notin Starting
      BY <1>2, <1>3, NeverHalted
    <2>2. CASE Current(t) \in Stopping
      BY <1>3, <2>2
    <2>3. CASE Current(t) = "target-select"
      <3>1. Success(t) = Moved(state, "unknown")
        BY <2>3 DEF Success, Successor
      <3> QED
        BY <1>3, <3>1, NeverHalted
    <2>4. CASE Current(t) \notin Stopping /\ Current(t) # "target-select"
      <3>1. Success(t) = Returns(state)
        BY <2>1, <2>4 DEF Success, Successor, Starting, Stopping
      <3>2. state = "halted"
        BY <1>3, <3>1, Moves
      <3>3. ~Interrupting(t)
        BY <2>4, StartingOps DEF Stopping
      <3> QED
        BY <2>1, <3>2, <3>3
    <2> QED
      BY <2>2, <2>3, <2>4
  <1>4. CASE ~ (ok /\ Success(t).ok) /\ Raised(t, "error")
    <2>1. state = "halted" /\ ~Interrupting(t)
      BY <1>4, RaisedHalted
    <2>2. Current(t) \in Starting => Success(t).ok = TRUE
      BY <1>2, <2>1 DEF Moved, can_transition, LEGAL_TRANSITIONS, TargetState, Returns
    <2> QED
      BY <1>4, <2>1, <2>2
  <1> QED
    BY <1>1, <1>3, <1>4

LEMMA CleanOrphaned ==
    ASSUME Inv, CleanInv, NEW t \in Tasks, Moving(t), target' = target,
           stdin' = Orphaned(stdin, t), stdout' = Orphaned(stdout, t)
    PROVE  CleanInv'
  <1>1. \A u \in Tasks : u # t => op'[u] = op[u] /\ at'[u] = at[u]
    BY OthersStay DEF Inv
  <1>2. /\ DOMAIN stdin' = DOMAIN stdin /\ DOMAIN stdout' = DOMAIN stdout
        /\ \A i \in DOMAIN stdin : stdin'[i].cmd = stdin[i].cmd
        /\ \A i \in DOMAIN stdout :
              stdout'[i].owner = IF stdout[i].owner = t THEN NoTask ELSE stdout[i].owner
    BY Orphans
  <1>3. \A i \in DOMAIN stdout : stdout'[i].ok = stdout[i].ok
    <2>1. stdout' = [i \in DOMAIN stdout |->
                       IF stdout[i].owner = t THEN [stdout[i] EXCEPT !.owner = NoTask]
                       ELSE stdout[i]]
      BY DEF Orphaned
    <2> QED
      BY <2>1, PipeTypes DEF Record
  <1>4. \A i \in DOMAIN stdout' : stdout'[i].owner # NoTask =>
           /\ stdout[i].owner \in Tasks /\ stdout[i].owner # t
           /\ stdout'[i].owner = stdout[i].owner
    BY <1>2, PipeTypes
  <1>5. ASSUME NEW i \in DOMAIN stdout', stdout'[i].owner # NoTask, stdout'[i].ok = TRUE,
               Script[op'[stdout'[i].owner]][at'[stdout'[i].owner]] \in Stopping
        PROVE  /\ target' # "running"
               /\ \A j \in DOMAIN stdin' : stdin'[j].cmd \notin Starting
    <2>1. /\ stdout[i].owner # NoTask /\ stdout[i].ok = TRUE /\ i \in DOMAIN stdout
          /\ Current(stdout[i].owner) \in Stopping
      BY <1>1, <1>2, <1>3, <1>4, <1>5 DEF Current
    <2> QED
      BY <1>2, <2>1 DEF CleanInv
  <1> QED
    BY <1>5 DEF CleanInv, Current

(* t gives up its command, or its place in the line. *)
LEMMA HonestOrphaned ==
    ASSUME Inv, OwnInv, HonestInv, NEW t \in Tasks, Moving(t),
           target' = target, gdb' = gdb, lost' = {} => lost = {},
           stdin' = Orphaned(stdin, t), stdout' = Orphaned(stdout, t),
           lost' = {} /\ state' = "halted" /\ ~Interrupting(t)' =>
              /\ state = "halted" /\ ~Interrupting(t)
              /\ phase[t] = "reading" /\ Current(t) \in Starting =>
                    gdb = "dead" /\ stdout = <<>>
    PROVE  HonestInv'
  <1>1. \A u \in Tasks : u # t => op'[u] = op[u] /\ at'[u] = at[u]
    BY OthersStay DEF Inv
  <1>2. /\ DOMAIN stdin' = DOMAIN stdin /\ DOMAIN stdout' = DOMAIN stdout
        /\ \A i \in DOMAIN stdin :
              /\ stdin'[i].cmd = stdin[i].cmd
              /\ stdin'[i].owner = IF stdin[i].owner = t THEN NoTask ELSE stdin[i].owner
        /\ \A i \in DOMAIN stdout :
              stdout'[i].owner = IF stdout[i].owner = t THEN NoTask ELSE stdout[i].owner
    BY Orphans
  <1>3. \A i \in DOMAIN stdout : stdout'[i].ok = stdout[i].ok
    <2>1. stdout' = [i \in DOMAIN stdout |->
                       IF stdout[i].owner = t THEN [stdout[i] EXCEPT !.owner = NoTask]
                       ELSE stdout[i]]
      BY DEF Orphaned
    <2> QED
      BY <2>1, PipeTypes DEF Record
  <1> SUFFICES ASSUME lost' = {}, state' = "halted",
                      \A u \in Tasks : ~ (op'[u] = "resume" /\ at'[u] = 2)
               PROVE  /\ gdb' = "alive" =>
                            \A i \in DOMAIN stdin' :
                               stdin'[i].cmd \in Starting => stdin'[i].owner # NoTask
                      /\ target' = "running" =>
                            \E i \in DOMAIN stdout' :
                               /\ stdout'[i].owner # NoTask /\ stdout'[i].ok = TRUE
                               /\ Script[op'[stdout'[i].owner]][at'[stdout'[i].owner]]
                                     \in Starting
    BY DEF HonestInv, Interrupting, Current
  <1>4. ~Interrupting(t)'
    BY DEF Interrupting
  <1>5. /\ state = "halted" /\ ~Interrupting(t) /\ lost = {}
        /\ phase[t] = "reading" /\ Current(t) \in Starting => gdb = "dead" /\ stdout = <<>>
    BY <1>4
  <1>6. \A u \in Tasks : ~Interrupting(u)
    BY <1>1, <1>5 DEF Interrupting
  <1>7. /\ gdb = "alive" =>
              \A i \in DOMAIN stdin :
                 stdin[i].cmd \in Starting => stdin[i].owner # NoTask
        /\ target = "running" =>
              \E i \in DOMAIN stdout :
                 /\ stdout[i].owner # NoTask /\ stdout[i].ok = TRUE
                 /\ Current(stdout[i].owner) \in Starting
    BY <1>5, <1>6 DEF HonestInv
  <1>8. ASSUME gdb' = "alive", NEW i \in DOMAIN stdin', stdin'[i].cmd \in Starting
        PROVE  stdin'[i].owner # NoTask
    <2>1. stdin[i].owner # NoTask /\ stdin[i].cmd \in Starting
      BY <1>2, <1>7, <1>8
    <2>2. stdin[i].owner # t
      BY <1>2, <1>5, <1>8, <2>1 DEF OwnInv
    <2> QED
      BY <1>2, <2>1, <2>2
  <1>9. ASSUME target' = "running"
        PROVE  \E i \in DOMAIN stdout' :
                  /\ stdout'[i].owner # NoTask /\ stdout'[i].ok = TRUE
                  /\ Script[op'[stdout'[i].owner]][at'[stdout'[i].owner]] \in Starting
    <2>1. PICK i \in DOMAIN stdout : /\ stdout[i].owner # NoTask /\ stdout[i].ok = TRUE
                                     /\ Current(stdout[i].owner) \in Starting
      BY <1>7, <1>9
    <2>2. stdout # <<>> /\ phase[stdout[i].owner] = "reading"
      BY <2>1 DEF OwnInv
    <2>3. stdout[i].owner # t
      BY <1>5, <2>1, <2>2
    <2>4. stdout[i].owner \in Tasks
      BY <2>1, PipeTypes
    <2>5. /\ stdout'[i].owner = stdout[i].owner /\ stdout'[i].ok = TRUE
          /\ i \in DOMAIN stdout'
          /\ Script[op'[stdout[i].owner]][at'[stdout[i].owner]] \in Starting
      BY <1>1, <1>2, <1>3, <2>1, <2>3, <2>4 DEF Current
    <2> QED
      BY <2>1, <2>5
  <1> QED
    BY <1>8, <1>9

LEMMA FailsFaithful ==
    ASSUME Inv, OwnInv, CleanInv, HonestInv, NEW t \in Tasks,
           NEW why \in {"timeout", "closed", "garbage"}, Fails(t, why)
    PROVE  Faithful
  <1>1. /\ phase[t] \in {"waiting", "reading"} /\ Raised(t, why)
        /\ stdin' = Orphaned(stdin, t) /\ stdout' = Orphaned(stdout, t)
        /\ UNCHANGED <<gdb, target>>
        /\ lost' = {} => lost = {}
        /\ why = "closed" /\ phase[t] = "reading" => gdb = "dead" /\ stdout = <<>>
        /\ why # "closed" => lost' = GivenUp(t, why)
    BY DEF Fails, GivenUp, targetVars
  <1>2. op[t] \in Operation /\ at[t] \in DOMAIN Script[op[t]] /\ at \in [Tasks -> Nat]
    BY <1>1 DEF Inv, TaskInv
  <1>3. Moving(t)
    BY <1>1, <1>2, RaisedResult, ResultMoves
  <1>4. lost' = {} /\ state' = "halted" /\ ~Interrupting(t)' =>
           /\ state = "halted" /\ ~Interrupting(t)
           /\ phase[t] = "reading" /\ Current(t) \in Starting =>
                 gdb = "dead" /\ stdout = <<>>
    <2> SUFFICES ASSUME lost' = {}, state' = "halted", ~Interrupting(t)'
                 PROVE  /\ state = "halted" /\ ~Interrupting(t)
                        /\ phase[t] = "reading" /\ Current(t) \in Starting =>
                              gdb = "dead" /\ stdout = <<>>
      OBVIOUS
    <2>1. /\ state = "halted" /\ ~Interrupting(t)
          /\ why = "timeout" => Current(t) # "continue"
      BY <1>1, <1>2, RaisedHalted DEF Inv, SessionInv
    <2>2. ASSUME phase[t] = "reading", Current(t) \in Starting
          PROVE  why = "closed"
      BY <1>1, <2>1, <2>2 DEF GivenUp, Starting
    <2> QED
      BY <1>1, <2>1, <2>2
  <1>5. CleanInv'
    BY <1>1, <1>3, CleanOrphaned
  <1>6. HonestInv'
    BY <1>1, <1>3, <1>4, HonestOrphaned
  <1> QED
    BY <1>5, <1>6 DEF Faithful

LEMMA CancelFaithful ==
    ASSUME Inv, OwnInv, CleanInv, HonestInv, NEW t \in Tasks, Cancel(t)
    PROVE  Faithful
  <1>1. /\ stdin' = Orphaned(stdin, t) /\ stdout' = Orphaned(stdout, t)
        /\ UNCHANGED <<state, gdb, target>>
        /\ lost' = {} => lost = {}
        /\ lost' = GivenUp(t, "cancelled")
        /\ \/ op[t] = "disconnect_target" /\ Close(t, "closing-cancelled")
           \/ End(t, "cancelled")
    BY DEF Cancel, GivenUp, targetVars
  <1>2. Moving(t)
    BY <1>1 DEF Moving, MovesToClose, MovesOut, Closing
  <1>3. lost' = {} /\ state' = "halted" /\ ~Interrupting(t)' =>
           /\ state = "halted" /\ ~Interrupting(t)
           /\ phase[t] = "reading" /\ Current(t) \in Starting =>
                 gdb = "dead" /\ stdout = <<>>
    BY <1>1 DEF GivenUp, Starting, Interrupting
  <1>4. CleanInv'
    BY <1>1, <1>2, CleanOrphaned
  <1>5. HonestInv'
    BY <1>1, <1>2, <1>3, HonestOrphaned
  <1> QED
    BY <1>4, <1>5 DEF Faithful

LEMMA ReadLineFaithful ==
    ASSUME Inv, OwnInv, CleanInv, HonestInv, NEW t \in Tasks, ReadLine(t)
    PROVE  Faithful
  <1> DEFINE r == Head(stdout)
  <1>1. /\ phase[t] = "reading" /\ stdout # <<>> /\ stdout' = Tail(stdout)
        /\ UNCHANGED <<stdin, gdb, target, lost>>
        /\ \/ r.owner = t /\ Answered(t, r.ok)
           \/ r.owner # t /\ Collect(t, r)
    BY DEF ReadLine, targetVars
  <1>2. /\ op[t] \in Operation /\ at[t] \in DOMAIN Script[op[t]]
        /\ at \in [Tasks -> Nat] /\ state \in TargetState
    BY <1>1 DEF Inv, SessionInv, TaskInv
  <1>3. /\ r = stdout[1] /\ 1 \in DOMAIN stdout
        /\ DOMAIN stdout = 1..Len(stdout) /\ Len(stdout) \in Nat
        /\ DOMAIN stdout' = 1..Len(stdout) - 1
        /\ \A i \in DOMAIN stdout' : /\ stdout'[i] = stdout[i + 1]
                                     /\ i + 1 \in DOMAIN stdout /\ i + 1 # 1
    BY <1>1 DEF Inv, StopInv
  <1>4. r.ok \in BOOLEAN /\ r.owner \in Tasks \cup {NoTask} /\ t # NoTask
    <2>1. r \in Record
      BY <1>3, PipeTypes
    <2> QED
      BY <2>1, PipeTypes DEF Record
  <1> HIDE DEF r
  <1>5. CASE r.owner = t /\ Answered(t, r.ok)
    <2>1. /\ \A i \in DOMAIN stdin : stdin[i].owner = NoTask
          /\ \A i \in DOMAIN stdout' : stdout'[i].owner = NoTask
          /\ \A i \in DOMAIN stdout : stdout[i].owner # NoTask => stdout[i] = r
      BY <1>3, <1>4, <1>5 DEF OwnInv
    <2>2. CleanInv'
      BY <2>1 DEF CleanInv
    <2>3. Moving(t)
      BY <1>1, <1>2, <1>5, AnsweredResult, ResultMoves DEF Alive
    <2>4. ASSUME lost = {}, state' = "halted", \A u \in Tasks : ~Interrupting(u)'
          PROVE  /\ gdb = "alive" =>
                       \A i \in DOMAIN stdin : stdin[i].cmd \notin Starting
                 /\ target # "running"
      <3>1. \A u \in Tasks : u # t => op'[u] = op[u] /\ at'[u] = at[u]
        BY <2>3, OthersStay DEF Inv
      <3>2. \/ r.ok = TRUE /\ Current(t) \in Stopping
            \/ /\ state = "halted" /\ ~Interrupting(t)
               /\ ~ (r.ok = TRUE /\ Current(t) \in Starting)
        BY <1>2, <1>4, <1>5, <2>4, AnsweredHalted
      <3>3. CASE r.ok = TRUE /\ Current(t) \in Stopping
        BY <1>3, <1>4, <1>5, <3>3 DEF CleanInv
      <3>4. CASE /\ state = "halted" /\ ~Interrupting(t)
                 /\ ~ (r.ok = TRUE /\ Current(t) \in Starting)
        <4>1. \A u \in Tasks : ~Interrupting(u)
          BY <2>4, <3>1, <3>4 DEF Interrupting
        <4>2. /\ gdb = "alive" =>
                    \A i \in DOMAIN stdin :
                       stdin[i].cmd \in Starting => stdin[i].owner # NoTask
              /\ target = "running" =>
                    \E i \in DOMAIN stdout :
                       /\ stdout[i].owner # NoTask /\ stdout[i].ok = TRUE
                       /\ Current(stdout[i].owner) \in Starting
          BY <2>4, <3>4, <4>1 DEF HonestInv
        <4>3. target # "running"
          BY <1>5, <2>1, <3>4, <4>2
        <4> QED
          BY <2>1, <4>2, <4>3
      <3> QED
        BY <3>2, <3>3, <3>4
    <2>5. HonestInv'
      BY <1>1, <2>4 DEF HonestInv
    <2> QED
      BY <2>2, <2>5 DEF Faithful
  <1>6. CASE r.owner # t /\ Collect(t, r)
    <2>1. UNCHANGED <<op, at, phase, state>>
      BY <1>6 DEF Collect
    <2>2. r.owner = NoTask
      <3>1. r.owner \in Tasks => phase[r.owner] = "reading"
        BY <1>3, PipeTypes DEF OwnInv
      <3> QED
        BY <1>1, <1>4, <1>6, <3>1 DEF Inv, LineInv
    <2>3. CleanInv'
      BY <1>1, <1>3, <2>1 DEF CleanInv, Current
    <2>4. \A i \in DOMAIN stdout : stdout[i].owner # NoTask =>
             i - 1 \in DOMAIN stdout' /\ stdout'[i - 1] = stdout[i]
      BY <1>3, <2>2
    <2>5. HonestInv'
      BY <1>1, <2>1, <2>4 DEF HonestInv, Interrupting, Current
    <2> QED
      BY <2>3, <2>5 DEF Faithful
  <1> QED
    BY <1>1, <1>5, <1>6

(* An operation begins: nothing is in flight for it yet. *)
LEMMA StartsFaithful ==
    ASSUME Inv, OwnInv, CleanInv, HonestInv, NEW t \in Tasks, NEW o \in Operation,
           Starts(t, o), state' = state \/ state' # "halted"
    PROVE  Faithful
  <1>1. /\ op[t] = "none" /\ phase[t] = "idle" /\ at[t] = 1
        /\ op' = [op EXCEPT ![t] = o]
        /\ UNCHANGED <<at, stdin, stdout, gdb, target, lost>>
    BY DEF Starts, targetVars, Inv, TaskInv
  <1>2. /\ \A u \in Tasks : u # t => op'[u] = op[u] /\ at'[u] = at[u]
        /\ at'[t] = 1
    BY <1>1 DEF Inv, TaskInv
  <1>3. \A i \in DOMAIN stdout : stdout[i].owner # NoTask =>
           stdout[i].owner \in Tasks /\ stdout[i].owner # t
    BY <1>1, PipeTypes DEF OwnInv
  <1>4. \A i \in DOMAIN stdout : stdout[i].owner # NoTask =>
           Script[op'[stdout[i].owner]][at'[stdout[i].owner]] = Current(stdout[i].owner)
    BY <1>2, <1>3 DEF Current
  <1>5. \A u \in Tasks : Interrupting(u) => Interrupting(u)'
    BY <1>1, <1>2 DEF Interrupting
  <1>6. CleanInv'
    BY <1>1, <1>4 DEF CleanInv, Current
  <1>7. HonestInv'
    BY <1>1, <1>4, <1>5 DEF HonestInv, Current
  <1> QED
    BY <1>6, <1>7 DEF Faithful

LEMMA BeginFaithful ==
    ASSUME Inv, OwnInv, CleanInv, HonestInv, NEW t \in Tasks, NEW o,
           \/ Connect(t) /\ o = "connect_target"
           \/ o \in Calls /\ Begin(t, o)
    PROVE  Faithful
  <1>1. "connect_target" \in Operation
    BY DEF Operation, Script
  <1>2. o \in Operation /\ Starts(t, o) /\ (state' = state \/ state' # "halted")
    BY <1>1, SessionAssumption DEF SessionAssumption, Connect, Begin
  <1> QED
    BY <1>2, StartsFaithful

LEMMA ResetAtOnceFaithful ==
    ASSUME CleanInv, NEW t \in Tasks, NEW o, ResetAtOnce(t, o)
    PROVE  Faithful
  <1>1. /\ lost' # {} /\ UNCHANGED <<op, at, stdin, stdout, target>>
    BY DEF ResetAtOnce, targetVars
  <1> QED
    BY <1>1 DEF Faithful, CleanInv, HonestInv, Current

(* The command that is sent is the only one in flight. *)
LEMMA SendFaithful ==
    ASSUME Inv, OwnInv, CleanInv, HonestInv, NEW t \in Tasks, Send(t)
    PROVE  Faithful
  <1> DEFINE c == [cmd |-> Current(t), owner |-> t]
  <1>1. /\ UNCHANGED <<state, op, at, stdout, gdb, target, lost>>
        /\ phase[t] = "waiting" /\ line # <<>> /\ line[1] = t
        /\ stdin' = Append(stdin, c)
    BY DEF Send, HasLock, targetVars, Inv, LineInv
  <1>2. \A u \in Tasks : phase[u] # "reading"
    BY <1>1 DEF Inv, LineInv
  <1>3. \A i \in DOMAIN stdout : stdout[i].owner = NoTask
    BY <1>2, PipeTypes DEF OwnInv
  <1>4. c.owner # NoTask
    BY PipeTypes
  <1> HIDE DEF c
  <1>5. \A i \in DOMAIN stdin' :
           \/ stdin'[i] = c
           \/ i \in DOMAIN stdin /\ stdin'[i] = stdin[i]
    BY <1>1 DEF Inv, StopInv
  <1>6. CleanInv'
    BY <1>1, <1>3 DEF CleanInv
  <1>7. HonestInv'
    BY <1>1, <1>3, <1>4, <1>5 DEF HonestInv, Interrupting
  <1> QED
    BY <1>6, <1>7 DEF Faithful

LEMMA LastCloseFaithful ==
    ASSUME Inv, OwnInv, CleanInv, HonestInv, NEW t \in Tasks, phase[t] \in Closing,
           NEW v \in {"returned", "raised", "cancelled"}, End(t, v),
           gdb' = "dead", state' \in {state, "disconnected"},
           UNCHANGED <<stdin, stdout, target, lost>>
    PROVE  Faithful
  <1>1. phase[t] # "reading" /\ ~Interrupting(t)
    BY DEF Inv, TaskInv, Closing, Interrupting
  <1>2. Moving(t)
    BY DEF Moving, MovesOut
  <1>3. \A u \in Tasks : u # t => op'[u] = op[u] /\ at'[u] = at[u]
    BY <1>2, OthersStay DEF Inv
  <1>4. \A i \in DOMAIN stdout : stdout[i].owner # NoTask =>
           Script[op'[stdout[i].owner]][at'[stdout[i].owner]] = Current(stdout[i].owner)
    <2>1. \A i \in DOMAIN stdout : stdout[i].owner # NoTask =>
             stdout[i].owner \in Tasks /\ stdout[i].owner # t
      BY <1>1, PipeTypes DEF OwnInv
    <2> QED
      BY <1>3, <2>1 DEF Current
  <1>5. (\A u \in Tasks : ~Interrupting(u)') => \A u \in Tasks : ~Interrupting(u)
    BY <1>1, <1>3 DEF Interrupting
  <1>6. CleanInv'
    BY <1>4 DEF CleanInv, Current
  <1>7. HonestInv'
    BY <1>4, <1>5 DEF HonestInv, Current
  <1> QED
    BY <1>6, <1>7 DEF Faithful


LEMMA PrintedPipe ==
    ASSUME Inv, NEW owner, NEW ok, NEW n, Printed(owner, ok, n)
    PROVE  /\ \A i \in DOMAIN stdout : i \in DOMAIN stdout' /\ stdout'[i] = stdout[i]
           /\ \A i \in DOMAIN stdout' :
                 \/ i \in DOMAIN stdout /\ stdout'[i] = stdout[i]
                 \/ stdout'[i].owner = owner /\ stdout'[i].ok = ok
           /\ Len(stdout) + 1 \in DOMAIN stdout'
           /\ stdout'[Len(stdout) + 1].owner = owner
           /\ stdout'[Len(stdout) + 1].ok = ok
  <1> DEFINE r == [owner |-> owner, ok |-> ok, frame |-> n]
  <1>1. stdout' = Append(stdout, r) /\ r.owner = owner /\ r.ok = ok
    BY DEF Printed
  <1> HIDE DEF r
  <1>2. /\ DOMAIN stdout' = 1..Len(stdout) + 1
        /\ \A i \in 1..Len(stdout) : stdout'[i] = stdout[i]
        /\ stdout'[Len(stdout) + 1] = r
        /\ DOMAIN stdout = 1..Len(stdout) /\ Len(stdout) \in Nat
    BY <1>1 DEF Inv, StopInv
  <1>3. Len(stdout) + 1 \in DOMAIN stdout'
    BY <1>2
  <1> QED
    BY <1>1, <1>2, <1>3

LEMMA GdbRefusesFaithful ==
    ASSUME Inv, CleanInv, HonestInv, GdbRefuses
    PROVE  Faithful
  <1>1. /\ UNCHANGED <<state, op, at, gdb, target, lost>>
        /\ stdin # <<>> /\ stdin' = Tail(stdin)
        /\ Printed(Head(stdin).owner, FALSE, 0)
    BY DEF GdbRefuses, taskVars, targetVars
  <1>2. \A i \in DOMAIN stdin' : stdin'[i] = stdin[i + 1] /\ i + 1 \in DOMAIN stdin
    BY <1>1, TailOf
  <1>3. /\ \A i \in DOMAIN stdout : i \in DOMAIN stdout' /\ stdout'[i] = stdout[i]
        /\ \A i \in DOMAIN stdout' : stdout'[i].ok = TRUE =>
              i \in DOMAIN stdout /\ stdout'[i] = stdout[i]
    BY <1>1, PrintedPipe
  <1>4. CleanInv'
    BY <1>1, <1>2, <1>3 DEF CleanInv, Current
  <1>5. HonestInv'
    BY <1>1, <1>2, <1>3 DEF HonestInv, Interrupting, Current
  <1> QED
    BY <1>4, <1>5 DEF Faithful

LEMMA Effects ==
    ASSUME NEW cmd
    PROVE  /\ cmd \notin Starting /\ target # "running" => Effect(cmd) # "running"
           /\ cmd \in Stopping => Effect(cmd) # "running"
  BY DEF Effect, Starting, Stopping

(* Only a command that is still awaited starts the target, and then its    *)
(* answer is on the way.                                                   *)
LEMMA GdbExecutesFaithful ==
    ASSUME Inv, OwnInv, CleanInv, HonestInv, GdbExecutes
    PROVE  Faithful
  <1> DEFINE c == Head(stdin)
  <1>1. /\ UNCHANGED <<state, op, at, phase, lost>>
        /\ gdb = "alive" /\ stdin # <<>> /\ stdin' = Tail(stdin)
        /\ Printed(c.owner, TRUE, IF c.cmd = "frame" THEN stops ELSE 0)
        /\ target' = Effect(c.cmd)
    BY DEF GdbExecutes, taskVars
  <1>2. /\ c = stdin[1] /\ 1 \in DOMAIN stdin
        /\ \A i \in DOMAIN stdin' : stdin'[i] = stdin[i + 1] /\ i + 1 \in DOMAIN stdin
        /\ 1 = Len(stdin) => DOMAIN stdin' = {}
    BY <1>1, TailOf
  <1>3. /\ \A i \in DOMAIN stdout : i \in DOMAIN stdout' /\ stdout'[i] = stdout[i]
        /\ \A i \in DOMAIN stdout' :
              \/ i \in DOMAIN stdout /\ stdout'[i] = stdout[i]
              \/ stdout'[i].owner = c.owner
        /\ \E i \in DOMAIN stdout' : stdout'[i].owner = c.owner /\ stdout'[i].ok = TRUE
    <2>1. PICK n : Printed(c.owner, TRUE, n)
      BY <1>1
    <2> HIDE DEF c
    <2>2. \A i \in DOMAIN stdout : i \in DOMAIN stdout' /\ stdout'[i] = stdout[i]
      BY <2>1, PrintedPipe
    <2>3. \A i \in DOMAIN stdout' :
             \/ i \in DOMAIN stdout /\ stdout'[i] = stdout[i]
             \/ stdout'[i].owner = c.owner
      BY <2>1, PrintedPipe
    <2>4. /\ Len(stdout) + 1 \in DOMAIN stdout'
          /\ stdout'[Len(stdout) + 1].owner = c.owner
          /\ stdout'[Len(stdout) + 1].ok = TRUE
      BY <2>1, PrintedPipe
    <2> QED
      BY <2>2, <2>3, <2>4
  <1> HIDE DEF c
  <1>4. CASE c.owner = NoTask
    <2>1. CleanInv'
      <3> SUFFICES ASSUME NEW i \in DOMAIN stdout', stdout'[i].owner # NoTask,
                          stdout'[i].ok = TRUE, Current(stdout'[i].owner) \in Stopping
                   PROVE  /\ target' # "running"
                          /\ \A j \in DOMAIN stdin' : stdin'[j].cmd \notin Starting
        BY <1>1 DEF CleanInv, Current
      <3>1. i \in DOMAIN stdout /\ stdout'[i] = stdout[i]
        BY <1>3, <1>4
      <3>2. target # "running" /\ \A j \in DOMAIN stdin : stdin[j].cmd \notin Starting
        BY <3>1 DEF CleanInv
      <3> QED
        BY <1>1, <1>2, <3>2, Effects
    <2>2. HonestInv'
      <3> SUFFICES ASSUME lost = {}, state = "halted", \A t \in Tasks : ~Interrupting(t)
                   PROVE  /\ \A i \in DOMAIN stdin' :
                                stdin'[i].cmd \in Starting => stdin'[i].owner # NoTask
                          /\ target' = "running" =>
                               \E i \in DOMAIN stdout' :
                                  /\ stdout'[i].owner # NoTask /\ stdout'[i].ok = TRUE
                                  /\ Current(stdout'[i].owner) \in Starting
        BY <1>1 DEF HonestInv, Interrupting, Current
      <3>1. /\ \A i \in DOMAIN stdin :
                  stdin[i].cmd \in Starting => stdin[i].owner # NoTask
            /\ target = "running" =>
                  \E i \in DOMAIN stdout :
                     /\ stdout[i].owner # NoTask /\ stdout[i].ok = TRUE
                     /\ Current(stdout[i].owner) \in Starting
        BY <1>1 DEF HonestInv
      <3>2. c.cmd \notin Starting
        BY <1>2, <1>4, <3>1
      <3>3. target' = "running" => target = "running"
        BY <1>1, <3>2, Effects
      <3> QED
        BY <1>2, <1>3, <3>1, <3>3
    <2> QED
      BY <2>1, <2>2 DEF Faithful
  <1>5. CASE c.owner # NoTask
    <2>1. /\ c.cmd = Current(c.owner) /\ DOMAIN stdin' = {}
          /\ \A j \in DOMAIN stdout : stdout[j].owner = NoTask
      BY <1>2, <1>5 DEF OwnInv
    <2>2. \A i \in DOMAIN stdout' : stdout'[i].owner # NoTask => stdout'[i].owner = c.owner
      BY <1>3, <2>1
    <2>3. CleanInv'
      BY <1>1, <2>1, <2>2, Effects DEF CleanInv, Current
    <2>4. HonestInv'
      <3> SUFFICES ASSUME lost = {}, state = "halted", \A t \in Tasks : ~Interrupting(t),
                          target' = "running"
                   PROVE  Current(c.owner) \in Starting
        BY <1>1, <1>3, <1>5, <2>1 DEF HonestInv, Interrupting, Current
      <3>1. target # "running"
        BY <2>1 DEF HonestInv
      <3> QED
        BY <1>1, <2>1, <3>1, Effects
    <2> QED
      BY <2>3, <2>4 DEF Faithful
  <1> QED
    BY <1>4, <1>5

LEMMA HaltsFaithful ==
    ASSUME Inv, CleanInv, HonestInv, Halts
    PROVE  Faithful
  <1>1. /\ UNCHANGED <<state, op, at, stdin, gdb, lost>> /\ target' = "halted"
        /\ Printed(NoTask, TRUE, stops + 1)
    BY DEF Halts, taskVars
  <1>2. \A i \in DOMAIN stdout' : stdout'[i].owner # NoTask =>
           i \in DOMAIN stdout /\ stdout'[i] = stdout[i]
    BY <1>1, PrintedPipe
  <1>3. CleanInv'
    BY <1>1, <1>2 DEF CleanInv, Current
  <1>4. HonestInv'
    BY <1>1 DEF HonestInv, Interrupting
  <1> QED
    BY <1>3, <1>4 DEF Faithful

LEMMA FaithfulStutter ==
    ASSUME CleanInv, HonestInv, gdb' \in {gdb, "dead"},
           UNCHANGED <<state, op, at, stdin, stdout, target, lost>>
    PROVE  Faithful
  BY DEF Faithful, CleanInv, HonestInv, Interrupting, Current

-----------------------------------------------------------------------------

LEMMA FaithfulStep ==
    ASSUME Inv, OwnInv, CleanInv, HonestInv, [Next]_vars
    PROVE  Faithful
  <1>1. ASSUME NEW t \in Tasks, Connect(t)
        PROVE  Faithful
    BY <1>1, BeginFaithful
  <1>2. ASSUME NEW t \in Tasks, NEW o \in Calls, Begin(t, o) \/ ResetAtOnce(t, o)
        PROVE  Faithful
    BY <1>2, BeginFaithful, ResetAtOnceFaithful
  <1>3. ASSUME NEW t \in Tasks, TaskStep(t) \/ Fails(t, "garbage")
        PROVE  Faithful
    <2>1. CASE Send(t)
      BY <2>1, SendFaithful
    <2>2. CASE ReadLine(t)
      BY <2>2, ReadLineFaithful
    <2>3. CASE Closed(t)
      <3>1. /\ phase[t] \in Closing /\ gdb' = "dead" /\ state' = "disconnected"
            /\ UNCHANGED <<stdin, stdout, target, lost>>
            /\ \E v \in {"returned", "raised", "cancelled"} : End(t, v)
        BY <2>3 DEF Closed, Closing
      <3> QED
        BY <3>1, LastCloseFaithful
    <2>4. CASE Fails(t, "timeout") \/ Fails(t, "closed") \/ Fails(t, "garbage")
      BY <2>4, FailsFaithful
    <2> QED
      BY <1>3, <2>1, <2>2, <2>3, <2>4 DEF TaskStep
  <1>4. ASSUME NEW t \in Tasks, Cancel(t) \/ CancelClosing(t)
        PROVE  Faithful
    <2>1. CASE Cancel(t)
      BY <2>1, CancelFaithful
    <2>2. CASE CancelClosing(t)
      <3>1. /\ phase[t] \in Closing /\ gdb' = "dead"
            /\ UNCHANGED <<state, stdin, stdout, target, lost>>
            /\ End(t, "cancelled")
        BY <2>2 DEF CancelClosing
      <3> QED
        BY <3>1, LastCloseFaithful
    <2> QED
      BY <1>4, <2>1, <2>2
  <1>5. CASE GdbRefuses \/ GdbExecutes
    BY <1>5, GdbRefusesFaithful, GdbExecutesFaithful
  <1>6. CASE TargetStops \/ HitsBreakpoint
    BY <1>6, HaltsFaithful DEF TargetStops, HitsBreakpoint
  <1>7. CASE GdbDies
    BY <1>7, FaithfulStutter DEF GdbDies, taskVars
  <1>8. CASE UNCHANGED vars
    BY <1>8, FaithfulStutter DEF vars
  <1> QED
    BY <1>1, <1>2, <1>3, <1>4, <1>5, <1>6, <1>7, <1>8 DEF Next

(* A target that runs behind a halted session was started by a command     *)
(* whose operation is still open.                                          *)
LEMMA HonestEnough ==
    ASSUME Inv, OwnInv, HonestInv
    PROVE  HaltedIsHonest
  <1> SUFFICES ASSUME lost = {}, state = "halted", target = "running",
                      \A t \in Busy : op[t] \notin {"resume", "resume_unattended",
                                                    "reset_run"}
               PROVE  FALSE
    BY DEF HaltedIsHonest, Honest
  <1>1. \A t \in Tasks : ~Interrupting(t)
    BY DEF Interrupting, Busy
  <1>2. PICK i \in DOMAIN stdout : /\ stdout[i].owner # NoTask
                                   /\ Current(stdout[i].owner) \in Starting
    BY <1>1 DEF HonestInv
  <1>3. stdout[i].owner \in Tasks /\ phase[stdout[i].owner] = "reading"
    BY <1>2, PipeTypes DEF OwnInv
  <1> DEFINE u == stdout[i].owner
  <1>4. op[u] # "none" /\ op[u] \in Operation /\ at[u] \in DOMAIN Script[op[u]]
    BY <1>3 DEF Inv, TaskInv
  <1>5. op[u] \in {"resume", "resume_unattended", "reset_run"}
    BY <1>2, <1>3, <1>4, StartingOps
  <1> QED
    BY <1>3, <1>4, <1>5 DEF Busy

(* session.py:97: a session that says "halted", with no resume and no      *)
(* reset-run open, has a target that is not running, unless a command that *)
(* starts the target was given up other than by resume's own timeout; for  *)
(* any tasks, operations and limits.                                       *)
THEOREM HaltedHonesty == Spec => []HaltedIsHonest
  <1>1. Init => CleanInv /\ HonestInv
    BY DEF Init, CleanInv, HonestInv
  <1>2. Inv /\ OwnInv /\ CleanInv /\ HonestInv /\ [Next]_vars =>
           CleanInv' /\ HonestInv'
    BY FaithfulStep DEF Faithful
  <1>3. Inv /\ OwnInv /\ HonestInv => HaltedIsHonest
    BY HonestEnough
  <1> QED
    BY InFlight, <1>1, <1>2, <1>3, PTL DEF Spec


=============================================================================

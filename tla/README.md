# ProbeMCP in TLA+

ProbeMCP is an MCP server that lets a client debug embedded targets through
GDB/MI. This directory models the part of it that decides *who may do what to
which target, when, and what is left behind when something goes wrong*: the
tool service, the policy engine, the confirmation tokens, the resource limits,
the session table, the debug session down to its MI commands, the GDB/MI
controller and parser, the audit log, the lab inventory and the fault analyzer.
TLC checks small instances of the models; TLAPS proves the central properties
for every instance.

## 1. Inventory

The server is one asyncio event loop. Every tool call is a task; tasks
interleave only where they suspend. GDB is a subprocess per session.

| Component (under `src/src/probemcp`) | State | Operations | Talks to | Hard part | Correct when |
|---|---|---|---|---|---|
| Tool service `mcp_server/service.py` | active call and operation counters, snapshots | 17 tool handlers, `_with_session`, `_evaluate`, `_audit` | everything below | awaits between check and use, cancellation, failing audit | calls in flight are authorized, slots exact, sessions exclusive |
| MCP application `mcp_server/app.py`, `schemas.py`, `tools.py` | none | one wrapper per tool, resources | service | schema errors escape the envelope; a second table of permissions | the registry says what the engine does |
| Session manager `sessions/manager.py` | session id -> session | add, get, remove | service | sessions removed while in use | registered = alive |
| Policy engine `safety/policy.py` | none | `evaluate` | service | a cascade of early returns | allows what the documented rules allow a request, less two guards of production hardware |
| Confirmation store `safety/confirmation.py` | token -> record | issue, verify | service | replay, expiry, wrong request | one use, for what it was issued |
| Limits `safety/limits.py` | none | five checks | service | boundaries | limits hold |
| Debug session `debug/session.py`, `state.py`, backends, snapshots | state machine, connection | connect, halt, resume, step, reset, memory, breakpoints, snapshot, disconnect | controller | timeouts leave the target's real state unknown; several operations, each of several commands | the state never claims too much, reads belong together, every operation ends |
| MI controller `mi/controller.py` | lock, queue counter, token counter, pipes | execute, close | GDB | timeouts and late answers, cancellation, a GDB that hangs or dies | answers are never mixed up, lock and slots always come back |
| MI parser `mi/parser.py` | position | parse | controller | recursion, escapes, torn lines | what GDB prints is read back, anything else raises |
| MI commands `mi/commands.py` | none | build, serialize | session | quoting | one command per operation step |
| Fault analyzer `analyzers/cortexm` | none | analyze | snapshot | bit fields, substring tests | names the bits the architecture defines, concludes only from evidence |
| Audit log `audit/logger.py` | file or table | append, read | service | crash inside an append, shared file | an append that returned can be read back |
| Lab inventory `lab/inventory.py` | targets, leases | add, acquire, release | nobody yet | expiry, late release | one owner per target |
| Config, CLI, SVD, symbols, RTOS, privacy | none | loading, parsing, formatting | - | - | - |

`PROJECT.json` lists the components with their status, and the hazards at the
lines where they bite.

## 2. Modules

| Module | Models | Notes |
|---|---|---|
| `SafetyPolicy` | `safety/policy.py` | pure operators; `Evaluate` keeps the order of the early returns; `RequestRules` are the documented rules of a request, `ProductionGuard` is what the engine refuses beyond them |
| `FaultAnalyzer` | `analyzers/cortexm/fault_analyzer.py` | a register is the set of its bits; the architecture's bit positions are the reference |
| `Decisions` | `mcp_server/tools.py`, and the two above | the inputs of both decisions, and how one changes into another |
| `MIParser` | `mi/parser.py`, `mi/records.py` | the descent rule by rule, as functions of the position |
| `MIPrinter` | GDB's MI output (external) | strings, tuples and lists printed one after the other, with the value a client should be handed beside the text; the parser is judged by it |
| `MIGrammar` | - | the grammar the parser accepts, said by how a line splits |
| `ConfirmationStore` | `safety/confirmation.py` | `records` is `_records`; the other variables are history, against which tokens are judged; it is also an abstract specification the service implements |
| `SessionContract` | `debug/state.py` and what `debug/session.py` promises | for each operation the set of outcomes (returned or raised, state left) some answer of GDB leads to |
| `SessionSpec` | that promise as a specification | calls open at the same time, each ending at one instant with an outcome of the contract |
| `DebugSession` | `debug/session.py`, `backends/`, `snapshots/service.py`, the choice of commands of `mi/commands.py` | implements `SessionSpec`, and keeps to `Exchange` |
| `ToolService` | `mcp_server/service.py`, `sessions/manager.py`, `safety/limits.py`, the entry points of `app.py` | composes `ConfirmationStore`, `SafetyPolicy` and `SessionContract` |
| `Exchange` | what `execute` of `mi/controller.py` promises | one command of the holder at a time, commands taken up in the order sent, an answer read by its own caller or by nobody |
| `MIController` | `mi/controller.py` | tasks, lock, queue, pipes, GDB as environment; implements `Exchange` |
| `AuditLog` | `audit/logger.py` | pieces of a file, servers that are killed |
| `LabInventory` | `lab/inventory.py` | leases and a clock |
| `MCParts`, `MCToolService`, `MCDebugSession` | - | instances for TLC: requests, inputs, configurations, symmetry |
| `*Proofs` (8 modules) | - | theorems and proofs, see section 4; those about `ConfirmationStore` are the first part of `ToolServiceProofs` |

The models are composed along the code's own layers. `ToolService` takes from a
session only what `SessionContract` says; `DebugSession` shows that the session
keeps to it. Of the controller `DebugSession` keeps only the line of tasks and
the pipe: an answer belongs to the task that still awaits it or to nobody.
`Exchange` says what that abstraction may do, and both sides implement it under a
mapping of their own (`Seen` in `MIController`, `Exchanging` in `DebugSession`):
the controller never does more than `Exchange` allows, and the session model
never assumes an exchange that `Exchange` does not know. What is not shown is
that every exchange of the controller also occurs in the session model; the two
mappings are there to be compared.

### ToolService

One step is what a task does between two suspensions. The service's own locks
are `asyncio.Lock`s that are never held across a suspension, so acquiring them
never suspends. A call is therefore: a synchronous prefix that either refuses
(`RejectInvalid`, `RejectEarly`, `RejectToken`, `DenyPermission`,
`AskConfirmation`, `RejectLookup`, `RejectBusy`) or reaches its first await
(`Begin`, `BeginConnect`); then `Finish` or `CancelRun`, or, for
`connect_target`, which takes no slot and awaits twice, `SpawnDone`,
`Attached`, `ConnectFails` and `CancelConnect`. `step_instruction` awaits once
per instruction (`StepOnce`). `Finish` includes the state the session is left
in, the removal of a disconnected session, the stored snapshot, the release of
the slots and the audited answer. Tools that only look at captured snapshots
are one step (`SnapshotQuery`). The environment is `GdbDies` and `TimePasses`.

A request is an operation, a session and a *body*, one of `small`, `outside` (at
an address outside every writable region), `large` (over a byte limit),
`malformed` (hex data or an SVD file that does not parse, a connect without
endpoint) and `invalid` (the schema refuses it). The code knows no regions and
treats `outside` like `small`. An answer is
its error code, whether the call carried an accepted token, and whether it was
audited; the audit log is off, reliable, or fails now and then.

### DebugSession

`Script` gives each operation its MI commands. A task waits in `line` for the
controller's lock, sends its command (`Send`), reads records until its answer
comes (`ReadLine`), and goes on with the next command, ends, or, for
`disconnect_target`, runs the `finally` clause that terminates GDB (`Closed`).
`Answered` is what an operation makes of an answer, `Raised` of an exception: a
timeout, a line that does not parse, the end of GDB (`Fails`). `resume` handles
its own timeout with a nested halt; `symbol_context` goes on after a lookup that
failed; everything else ends. `Cancel` and `CancelClosing` are cancellation at
each await. A reset on a backend without a reset path never suspends
(`ResetAtOnce`).

GDB and the target are the environment. GDB takes commands up in order and
refuses or executes them; a stop is printed some time after the answer to the
command that leads to it. A command given up by the code stays in the pipe, with
nobody as its owner, and GDB may still carry it out: that is the gap between
what the session says (`state`) and what the target does (`target`).

The history variables say what the properties need: `shown`, the last stop
handed to a client; `window`, whether a halted target was changed between the
reads of one operation; `lost`, in which ways a command that starts the target
was given up.

### AuditLog, LabInventory

A JSONL append reaches the file in one piece, or in two when the event is
larger than the buffer of the file object; only the last piece ends the line. A
server may be killed between two pieces, and started again; several servers may
have the same path. `Parses` says which lines `read_events` can read.

A lease runs out by the clock without anybody being told; its owner may release
it late, by lock id.

### SafetyPolicy, FaultAnalyzer

Pure functions, as operators that keep the order of the code's tests. A step of
`Decisions` changes an input by one piece: more authority for a request, one more
fault bit. `AuthorityIsMonotone` is about such a step.

`RequestRules` translates what `docs/safety-model.md` and `mcp-client-setup.md` say
of a request, clause by clause with the line it comes from; it is a document's
statement and deliberately not the code's. Three things keep it from being all
that the documents say. A `PolicyRequest` carries neither address nor length, so
that the rules for those are stated in `ToolService` (`WithinLength`,
`WritesStayInRange`). `safety-model.md:124` does not enumerate its "high-risk
control operations"; the table of `policy.py:98` is taken for it. And the engine
refuses changes of production hardware that no rule forbids: that part is
`ProductionGuard`, taken from the engine, and `AllowedByTheRules` says that the
two together are all there is.

`MCParts` checks these two, the parser, the audit log and the inventory in one
run, as alternative behaviours: they share nothing.

### MIParser, MIPrinter

`self.position` is an argument and every rule returns what it read with the
position after it (`Read`); `Nowhere` is the position after an `MIParseError`.
Each rule is an operator of the line, a position and `q`, what the rules read
from later positions: `RuleFrom` is one level of the descent, `Nested(l)` the
function from rules and positions it is the definition of. `Quoted(l)` is the
loop of `_parse_c_string` in the same form. Written so, the rules declare no
recursive operator and can be proved about.

`MIPrinter` is what the parser is fed by. `PrintConst`, `Open` and `Close` print a
field with a string, begin a tuple or a list, and end the innermost one; `levels`
is the record and what is open in it. A record may hold any number of results in
any nesting, keys may repeat, and the entries of a list may have keys or not.
`RenderedIsRead` and `TornLosesOnlyTheEnd` compare what `Parse` makes of the line
with what was printed.

### MIController

`Execute` takes the queue slot, `Acquire` gets the lock (first come, first
served), allocates the token and writes, `Drained` is the end of `drain()`,
`ReadLine` one turn of the read loop; the command ends through `Leave`, by a
result, an unparsable line, `Timeout`, `EndOfFile` or `Cancel`. GDB answers in
order, prints what it likes, and may exit. Serial numbers (`sent`, `cmd`) are
history: they say which command an answer belongs to, which the code only knows
through its token.

Definitions marked *Slip* are plausible mistakes in the definition that follows.
Each property is shown to notice one of them (`mutants` in `PROJECT.json`).

## 3. Runs

| Run | Shows |
|---|---|
| `parts` | over every request the service can build, `Evaluate` allows what the documented rules of a request allow but for its two guards of production hardware (`AllowedByTheRules`), and what `tools.py` advertises (`RegistryMatchesEngine`), and authority is monotone (`AuthorityIsMonotone`); the analyzer names the right bits of the right register (`FaultIsNamed`) and offers no hypothesis without evidence, one misread bit apart (`OnlyImpreciseIsMisread`); the parser accepts exactly the grammar on lines typed character by character (`ReadsTheGrammar`), reads back every record GDB's printer builds (`RenderedIsRead`), and one torn at any position loses only whole results from its end (`TornLosesOnlyTheEnd`); an audit log without crashes reads back exactly (`IntactLogReadsBack`), a crash inside an append costs at most one other event (`CrashCostsOneEvent`); a running lease is not forgotten (`LiveLeaseIsListed`) and no target has two (`OneLiveOwner`) |
| `service_confirmed` | two callers, confirm-required, three tokens, the clock running past deadlines: tokens are one-time (`SingleUse`), gone after the first attempt (`TriedIsGone`), accepted only as issued (`UsedAsIssued`); calls in flight are authorized by their own token (`InFlightIsAuthorized`); one operation per session means exclusive use (`ExclusiveUse`); the service implements `StoreSpec` (refinement) |
| `service_shared` | three callers in full control of one session, two operations at a time, failing audit log, dying GDB, cancellation: slots are exact (`SlotAccounting`), a session that is not registered is down (`UnregisteredIsDown`) and stays down (`DisconnectedIsFinal`) although late calls still run on it, and no call, however late, moves a session off the transitions of its state machine (`SessionsMoveLegally`) |
| `service_policies` | all modes, with and without factory and writes, emulator and production hardware: a readonly server starts no GDB whatever tokens it hands out (`ReadonlyIsInert`); whatever is in flight keeps the documented rules for its mode, target, opt-ins and length, with a confirmation of its own where they ask for one (`InFlightKeepsRules`); nothing they permit is refused, `ProductionGuard` apart, and a second request to confirm is made only where no token could help (`RefusalIsNeeded`); overlapping connects exceed the session limit by less than the number of callers (`SessionOvershoot`) |
| `mi_controller` | three tasks, queue limit two, a pipe that fills up: answers are never mixed up (`ResultIsOwn`), the lock is with the command on the wire (`LockIsHeldByTheCommand`), queue slots are exact (`QueueAccounting`), the controller implements `Exchange` (`ExchangeSpec`, refinement); every execute ends (`EveryExecuteEnds`) |
| `debug_session` | two tasks, three operations after one another or overlapping: the session implements `SessionSpec` (`ContractSpec`, refinement) and keeps to the controller's promise (`ExchangeSpec`, refinement); it says halted only of a target that is not running, unless a start was given up in a way the code does not handle, a resume or reset is still open, or the target is only stepping (`HaltedIsHonest`); with a limit of one nothing disturbs the reads of an operation (`OperationIsUndisturbed`); stops are shown in order (`StopsAreShownInOrder`); every operation ends (`EveryOperationEnds`) |
| `orphan_gdb`, `unaudited_calls`, `session_timeout`, `unbounded_resume`, `writes_anywhere`, `failed_interrupt` | violations: what a document says and the code does not do |

Findings:

- `EveryGdbIsOwned`: nobody closes the GDB of a connect that fails or is
  cancelled (`service.py:169`).
- `EveryCallIsAudited`: cancelled calls and SVD files that do not load leave no
  record (`service.py:757`, `:506`).
- `TimeoutIsHonest`: a reset that times out leaves the session halted and may
  still start the target (`session.py:219`, against `mvp-plan.md:64`).
- `ResumeIsBounded`: GDB answers `-exec-continue` at once, so `max_run_ms` bounds
  the answer and not the run (`session.py:101`, against `safety-model.md:63`).
- `WritesStayInRange`: a confirmed `write_memory` goes to any address
  (`service.py:363`). `safety-model.md:68` rejects writes outside configured
  writable ranges and `:88-89` asks for a memory map; no configuration can name
  one, and the engine only adds a warning that somebody must check
  (`policy.py:296`).
- `InterruptFailureIsUnknown`: when the interrupt of a timed-out resume fails, the
  session becomes degraded (`session.py:108`); `safety-model.md:102` says it must
  become unknown. The tests expect degraded
  (`test_backend_and_session.py:206-224`), and `safety-model.md:64` allows either for
  an uncertain state, so the documents disagree among themselves.
  `SessionContract` is the contract of the code, with degraded, and `ContractSpec`
  shows no more than that.

Further places where code and documents part, found while modelling and not
given a run of their own:

- The session count is checked before two awaits and the session registered
  after them (`service.py:118`, `:152`), so the limit can be exceeded;
  `SessionOvershoot` says by how much.
- "PRECISERR" is also found in "IMPRECISERR", so an imprecise bus fault is
  explained as a precise one (`fault_analyzer.py:85`, against
  `cortex-m-fault-analysis.md:101`); `OnlyImpreciseIsMisread` says that this is the
  only hypothesis without evidence.
- On production hardware the engine wants full-control for every change
  (`policy.py:193`) and denies memory writes in every mode (`policy.py:272`), also to a
  client that opted in as `safety-model.md:67` asks. No document forbids these;
  `security-threat-model.md:37` blocks production writes "by default" only. The two
  are `ProductionGuard`.
- Reads are allowed at any address, too; `safety-model.md:15` says "if the address
  range is allowed".
- State-changing actions are audited when they have ended, not before
  (`service.py:757`); `safety-model.md:66` says before and after.
- When `-gdb-exit` fails the session is closed but stays in the table, and no
  later call can remove it (`service.py:707`). `SessionsMoveLegally` and
  `ContractSpec` allow it: neither speaks of the table.
- A readonly server answers a confirmed retry with another confirmation request
  (`policy.py:216`; `troubleshooting.md:18`), and a confirm-required server a
  memory write or an operation on production hardware: the token is used up and
  the client sent round again. `RefusalIsNeeded` shows that this happens nowhere
  else. The same line asks for a confirmation of emulator attaches, which
  `tool-contracts.md:41` calls readonly; `RequestRules` follows `safety-model.md`.
- `drain()` and the wait for the lock are outside the timeout
  (`controller.py:72`): a GDB that stops reading its stdin blocks every caller.
- `cortex-m-fault-analysis.md:70` asks to decode the combined CFSR; only the
  gravest register with a bit is reported. DFSR and the DEBUGEVT bit of HFSR are
  not decoded, although DEBUGEVT alone raises the confidence to 0.9.
- Octal escapes in MI strings are read as digits; a line torn inside the result
  class (`^err`) is read as a class of that name; GDB's stderr is merged into the
  MI stream, so that its messages are lines that do not parse.
- `parser.py:27` takes the prompt as `(gdb)`, and `read_line` strips line ends only
  (`controller.py:182`); GDB prints it with a space after it, a line that does not
  parse and fails the command that reads it. GDB is external here: the models have
  unparsable lines at any time, and do not say that every prompt is one.
- Two servers on one audit file can make each other's large events unreadable.

### Bounds

Two or three callers are enough for every race between a check and its use:
each property speaks of at most two calls and a bystander. One session suffices
for the sharing properties, as sessions do not interact but through the call
counter; `service_policies` has three so that the limit of one can be exceeded by
every caller. Three tokens are one per caller and one more; the clock runs to 2
with a TTL of 1, so that a token is seen before, at and after its deadline. In
the controller a pipe capacity of one command and three commands let a command
wait in `drain()`, read the answer of its predecessor, and be overtaken by a
third task waiting for the lock.

In the debug session three operations are a connect and two more, which may
overlap (limit two, a backend with a reset path) or follow each other (limit one,
without), so that commands of an earlier, abandoned operation meet a later one.
Two reads stand for the five and more of a snapshot and two instructions for any
count: a property is about a read before and one after an event.

Four events, two of them torn, let a torn line be followed by a joined one, twice.
Three leases of length 0 to 2 and a clock to 4 let a lease run out, be replaced,
and be released late. Lines are typed up to five characters after four different
beginnings (the start of a line, and the inside of a result class, of a result
and of a stream record); a record has three entries, nested ones included, up to three
tuples and lists deep, two names that may repeat, and strings that contain every
character the parser treats specially, so that a tuple with two equal keys, or one
before another result, is among them. Three fault bits suffice to have one in each
of the three status registers. The proofs lift both bounds.

Callers and tokens are interchangeable in the safety runs of the service
(symmetry); the other runs use none. `MaxClock`, `SessionIds`,
`Tokens`, `MaxCommands`, `MaxLines`, `MaxCalls`, `Events`, `MaxTorn`, `LockIds`,
`LastSecond`, `MaxFaultBits`, `MaxTyped`, `MaxEntries` and `MaxLevels` are bounds of
the model; the other constants are limits of the code or its environment.

Deadlock is checked in all runs of the service. The others may stop: when all
authority has been given, all commands or operations have been sent, all events
appended.

### Fairness

`MIController!FairSpec` assumes that the event loop runs every task that can run
and that the timer of `asyncio.timeout` fires in the end (weak fairness of
`TaskStep` and `Timeout` for every task), and that GDB goes on taking commands
from its stdin. Nothing is assumed of cancellation, of GDB printing or of its
exit. The assumption on stdin is needed: `drain()` is outside the timeout.

`DebugSession!FairSpec` assumes the event loop and the timers only; that is enough
for `EveryOperationEnds`, as room in GDB's stdin is abstracted there.
`PromptSpec`, for `ResumeIsBounded`, adds a GDB that takes up its commands and a
target that stops when told to, so that the counterexample is the code's and not
a hanging GDB's.

### Assumptions of the models

- `DebugSession`: the controller's queue limit and the wait for room in the pipe
  are `MIController`'s subject; an interrupt that GDB executes stops the target;
  the death of GDB neither detaches nor starts the target.
- `AuditLog`: pieces are appended atomically, in the order a server writes them
  (`O_APPEND`); a SQLite transaction is atomic.
- `LabInventory`: the clock is not set back. `uuid4` draws a new id each time.
- `MIParser`: letters and digits are ASCII. `MIPrinter`: GDB escapes
  quotes, backslashes and the three control characters the parser knows;
  names are identifiers (`PrinterAssumption`). `FaultAnalyzer`: register values
  have 32 bits.

## 4. Proofs

Assumptions are those the modules state (`TTLAssumption`, `ClockAssumption`,
`NoRecordAssumption`, `LimitsAssumption`, `InputsAssumption`,
`ControllerAssumption`, `SessionAssumption`, `AuditAssumption`,
`InventoryAssumption`, `DecisionsAssumption`, `PrinterAssumption`): limits are natural
numbers, sets of tasks are finite, the "no such thing" values are not things.

- `ToolServiceProofs`, first the store by itself. `SingleUse` is not inductive:
  nothing in it says that a used token has left the store. `StoreInv` adds, token by
  token (`TokenInv`), that a record in the store is the one the token was issued
  with and belongs to a token never tried, that a token never tried was never used,
  and that one that was tried was issued, used at most once, and used as it was
  issued. From it `StoreTypeCorrect`, `StoreSingleUse`, `StoreTriedIsGone` and
  `StoreUsedAsIssued`.
- `ToolServiceProofs`, then the service, in five parts. `ServiceUsesStore`: every
  step of the service is a step of the store or leaves it alone, so the service
  implements the store and `ServiceSingleUse` follows from the store's theorem.
  `ServiceInv` (types, the session and request of every running call, the slot
  counts, exclusive use and `StoreInv`) is inductive: a reserved slot is counted
  for exactly one caller in `Running`, so with a limit of one the set
  `RunningOn(s)` is empty when a call begins, and only the call itself can take
  its session away. From it `ServiceTypeCorrect`, `SlotSafety` and
  `SessionExclusion`.
  `DownInv` adds what is needed to say that a removed session stays down: a
  running call works on an established session or on one already disconnected
  (`RunsInPlace`), and a session that is being attached is not registered and is
  known to its own caller only (`AttachesAlone`). Without the second part a late
  `Attached` could revive a session another call had closed. The state machine
  of `debug/state.py` has no way from `disconnected` but to `connecting`
  (`NoWayBack`), which no operation takes. From it `RemovedStaysDown` and
  `DisconnectIsFinal`, and also `MovesAreLegal`: the outcomes of the contract are
  transitions of the table from the state found when the call ends, and
  `AttachesAlone` gives the connecting call the state it left.
  `OvershootBound` counts: a connect is let through only while there is room,
  and then every caller, itself included, may be connecting; a connect that
  succeeds turns one of them into at most one session.
  `AuthInv`: the decision for a call in flight, with the token it presented, is
  ALLOW, and its body is within the length the service checked (`WithinLength`);
  that token is in `tried`, was issued for this call and accepted once, and is
  gone from the store by `StoreInv`, which is why no second call can be granted
  it. `InFlightAuthorization` follows. `ReadonlySafety` needs both invariants: the
  policy lets no connect through in readonly mode (`ReadonlyNeverConnects`), and
  without an established session nothing else runs either.
  `InFlightFollowsRules` joins configuration, store and engine: what `_evaluate`
  shows to the engine is a request `EngineFollowsRules` is about
  (`AskedIsBuildable`, `DecisionFollowsRules`), and what it calls confirmed has been
  confirmed, by `AuthInv`. It says nothing of addresses, as `WritesStayInRange` is
  false of the code. `RefusalsAreNeeded` is the other direction: what is denied
  without a token is not permitted with one, the guards of production hardware
  apart.
- `PolicyProofs`. The policy cascade against `RequestRules` and `ProductionGuard`
  (`EngineFollowsRules`; `Grantable` is the first without the second) and against
  the registry (`RegistryAgrees`), by cases on the operation. Both the service and
  the decisions build on it.
- `MIControllerProofs`. `ResultIsOwn` needs to know where tokens are:
  `CorrelationInv` says that tokens are numbered like the commands and that every
  command in stdin, every answer in stdout and every task on the wire carries the
  token of its own command. It also says that a
  task in `execute` holds no outcome of an earlier command. `Inv` joins it with
  the type invariant and the lock and queue properties. From it `TypeCorrect`,
  `ResultCorrelation`, `LockSafety` and `QueueSafety`.
  `ImplementsExchange` needs to know where commands are (`WireInv`): they are
  numbered as they are sent, the numbers in stdin and those of the results in
  stdout increase, every result in stdout answers an older command than any that
  is still in stdin, and the command of the task that holds the lock is the last
  one sent. At most one record therefore carries the token of the holder's command,
  and it is the one the abstract exchange calls the holder's. Every other command
  on its way has been given up, so its answer is read by nobody.
- `StoresProofs`. For the inventory, `LabTypeOK` says that a table entry is a lease
  on that target, and `LiveLeaseIsListed` is inductive with it: `Acquire` replaces
  only an expired lease, and `Release` deletes by lock id. `OneLiveOwner` follows,
  as the table has one entry per target.
  For the log, `LinesAreDone` says that the pieces that end a line are, in the
  order of the file, the last pieces of the events whose append has returned; with
  no append cut and none overlapping, every line also parses, and `IntactLog`
  follows. `CrashCost` needs `Tidy`: while no server writes inside another's event,
  a line is damaged only by an orphan just before it, a first piece whose writer
  died, so every orphan damages at most one event, and a crash has paid for each.
- `DecisionsProofs`. `AllowedFollowsRules` and `RegistryIsTrue` are the facts of
  `PolicyProofs` for the inputs the runs step through; `AuthorityOnlyAdds` follows
  from the reference, where every condition is visibly monotone, rather than from
  the cascade. For the analyzer each register's
  shift, mask and table are shown to give the architecture's names (`UsageNames`,
  `BusNames`, `MemNames`), then the cascade (`Classified`). TLC compared at most
  three fault bits; the theorems are about every value of the registers.
  `HypothesesAreFounded` looks up each word the analyzer searches for among the
  names a fault can have.
- `DebugSessionProofs`. `Inv` has five parts: ranges (`SessionInv`), tasks and
  their places in scripts (`TaskInv`), the start (`StartInv`), the line
  (`LineInv`: every task once, only its first one reads) and stops (`StopInv`: the
  stops in the pipe are in order, and none is older than one already shown or
  already collected). The last is what `StopsInOrder` needs, and holds because the
  records of a command are dropped when the next one is sent. For
  `ImplementsContract` each way an operation goes on is one of a few results, and
  each result that ends it is an outcome of the contract in the state found then;
  a step that ends nothing is a stutter, `StepOnce`, or the death of GDB, which no
  step takes back once its output has been read. For `KeepsToExchange` the line is
  what matters: the task that waits for an answer is the first in it, and only its
  command, the last one in the pipe, has an owner; a task that leaves orphans it.
- `InFlightProofs`. At most one command or answer is awaited, by the task that
  reads, and it is the last one GDB has to take up (`OwnInv`). `Undisturbed`: with
  one operation at a time, what is in the pipe before an observing task's commands
  cannot change the target (`QuietInv`), because a command that was sent before a
  read has been taken up when the read is answered. `HaltedHonesty`: while the
  session says halted, a command in the pipe that starts the target, or a target
  already running, belongs to an operation that still awaits its answer
  (`HonestInv`); and the answer that makes the session say halted comes from a
  target that is not running, with nothing behind it in the pipe that starts it
  (`CleanInv`). Between resume's timeout and the answer to its interrupt the first
  does not hold, and need not: the state is not one of a session that has settled.

- `MIParserProofs`: that the parser reads back what GDB prints is a statement about
  recursive functions on both sides, so everything in it is an induction over the
  text. The library's induction theorems take an operator; `Induction` and
  `Downward` say the same for a set of numbers, from the well-foundedness of `<`
  (`WFMin`). With them `QuotedIsRead` and `NestedIsThere` show that the functions
  that describe the descent exist: each rule looks only at later positions and none
  goes back (`RuleAdvances`). `At(l, p, s)` says that the text s stands in the line
  from p on, `Cut(l, p, s)` that the line ends within it; along the text,
  `StringIsRead`/`StringIsTorn`, `FieldsAreRead`/`FieldsAreTorn` and
  `ItemsAreRead`/`ItemsAreTorn` say what a rule makes of either.
  The invariant of the printer (`LevelsInv`) is that every entry printed so far is
  `Readable`: in every line, wherever its text stands the parser reads its value,
  and where the line ends within it the parser reads nothing. It speaks of all
  lines, because an entry ends up in records not printed yet; `RenderedIsRead` by
  itself says nothing of what is still open, and is not inductive. `Close` is the step
  that needs an argument: a tuple or a list of readable entries is readable
  (`TupleIsReadable`, `ListIsReadable`), the closing bracket telling a whole one
  from a torn one. From it `RenderedIsReadBack` and `TornIsNoticed`: a record has no
  closing bracket, so results torn off at a comma, or right before one, are not
  noticed, and nothing else goes unnoticed. `StreamIsReadBack` and
  `TornStreamIsRefused` say the same of stream records, where every torn one is
  refused.

Only model-checked: liveness (`EveryExecuteEnds`, `EveryOperationEnds`), which is
out of the prover's reach together with ENABLED; and `ReadsTheGrammar`, whose
reference is a recognizer made of recursive operators. `LevelsInv` quantifies over
all lines and could not be given to TLC; what TLC checked before it was proved are
the two invariants it was made for.

## 5. Not modelled

- SVD files, peripherals and symbols: XML parsing, name matching and bit field
  extraction, without state or interleaving.
- FreeRTOS inspection: pure interpretation of symbol values, not reachable from
  any tool.
- Privacy redaction: a recursive rewriting of audit summaries, on whose content no
  property here depends.
- Configuration files, the command line and schema export: I/O. A configuration is
  a record the service model is started with.
- The arguments of MI commands and their quoting; register values and memory
  contents, which the session only passes on (a snapshot is judged by the stop its
  reads belong to, and by its registers as the fault analyzer's input).
- The migration of an older SQLite audit table.

## 6. Plan

1. Done: policy, confirmation store, session contract, tool service, MI
   controller and parser, debug session, audit log, lab inventory, fault analyzer;
   the proofs listed in section 4.
2. Every safety invariant, action property and refinement that a run checks is
   proved, `ReadsTheGrammar` apart. Further statements worth proving: that the
   parser accepts nothing but the grammar, which needs a recognizer in the form of
   `Nested`; and two about the layers together, that the service's use of a session
   is a behaviour of `SessionSpec`, which needs a history of how each call ended,
   and that `ExclusiveUse` of the service discharges the one-operation-at-a-time
   hypothesis of `OperationIsUndisturbed`.

# Knot / anytype-agent-gateway: formal models

TLA+ models of the gateway of this repository, the TLC instances that check
them, and TLAPS proofs of the theorems that hold for every instance. Paths are
relative to the repository (`src/automation/...` is the code, `docs/...` its
documents). Every definition is a translation of the code; `PROJECT.json` maps
each one to the lines it stands for.

Run a check with `tlc -config <run>.cfg <MC module>`, a proof with
`tlapm` on one of the `...Proofs.tla` modules.

## The system

One Node.js process, `knot`, connects an Anytype account to an agent runtime.
It owns one SQLite database and holds a process lock on it. Inside it run:

| Component | State | Operations | Talks to |
| --- | --- | --- | --- |
| Chat gateway (`gateway.ts`, `controller.ts`) | handled messages, active runs, session generations, bindings | baseline, SSE and REST catch-up, start, steer, `/new`, stop, startup reconciliation | projection, runtime drivers, store |
| Run projection (`projection.ts`) | output cycles, a promise chain of writes | start, progress, move, finish, fail, interrupt | Anytype messages |
| Outbound outbox (`store.ts`, `controller.ts`) | queued messages, claim leases | enqueue, claim, deliver, acknowledge, fail, recover | Anytype messages |
| Workflow observer (`observer.ts`, `store.ts`) | definitions, versions, watermarks, back-off | scan pages, record, activate, archive | Anytype objects, normalized events |
| Event matcher and dispatcher (`runner.ts`, `runner-store.ts`) | matcher cursor, deliveries | match, defer, cancel, dead-letter, dispatch | events, runs |
| Workflow queue (`runner-store.ts`) | runs, steps, attempts, leases | claim, start, heartbeat, complete, fail, refetch, pause, resume, cancel, retry, sweep | workers, CLI |
| Runner and closed executors (`runner.ts`, `executors.ts`) | executions in flight, effect receipts | tick, execute, effect, recover | queue, Anytype, agents |
| Operator CLI (`workflow-operator-cli.ts`) | the same database, another process | approve, disable, manual run, cancel, retry | queue |
| Process lock (`process-lock.ts`) | lock files | acquire, break a stale lock, release | other processes |
| Cloud bridge (`cloud-workflow.ts`) | command inbox, effect receipts, projections | poll, execute, acknowledge, recover | cloud service |
| Cloud publication (`cloud-publication*.ts`) | publication outbox | enqueue, publish, retry | cloud service |
| OpenClaw plugin (`packages/openclaw-anytype-channel`) | event outbox, inbound | bind, publish events, pull, acknowledge | OpenClaw, chat gateway |
| OpenClaw driver (`runtime/openclaw.ts`) | the open turn, owned runs, an observer | start, steer, poll, acknowledge, close | OpenClaw, its plugin, controller |
| Codex ACP driver (`runtime/codex-acp.ts`) | child processes, saved sessions, actor files | start, steer, cancel, discover | controller, agent |

What is hard here: an await inside every operation that talks to the outside,
so that another message, a timer or an operator comes in between; process
crashes at any of those points and recovery from SQLite alone; leases and
timers that race the answer they wait for; a second process (the CLI, an older
generation of the program) on the same files. `PROJECT.json` lists each hazard
at its line, with the properties that cover it.

## What makes each component correct

- Queue: a step in a worker's hands is fenced by exactly one open attempt;
  history is append-only; dependencies hold through every retry; an ended run
  owns nothing; every run can end.
- Runner and effects: an external call is made at most once per step of a run,
  whatever is retried; a receipt never denies a call that was made, and a
  success is never made up.
- Process lock: never two processes on one path; a dead one's lock is free.
- Dispatcher: every event of an active workflow becomes exactly one run, or is
  deferred or dead-lettered for a recorded reason.
- Observer: the active version of a definition is the newest observed one, and
  archiving follows absence, not a failed read.
- Outbox: what a session says beside the gateway's turns is kept, and sent in
  spite of crashes; it is sent again only when its message is no longer among
  the last hundred of the chat.
- Controller: no message is lost and its versions, by their seconds, are given
  out in order; a thread has at most one turn; a placeholder has its run until
  its row is closed.
- Projection: the final text is what the reader sees last, and the rows kept of
  the output close with the run.
- Cloud bridge: a command is carried out at most once and has one answer, the
  same on both sides.
- Publication: no page before its assets, and a receipt that stands.
- OpenClaw plugin and driver: what others say reaches the chat, and what the
  gateway's own runs say reaches it once.
- Codex driver: the conversation goes on in its session, a tool call knows who
  asked, and a prompt that was given up, or has a timer, ends with its process.

## Modules

| Module | Models |
| --- | --- |
| `WorkflowQueue` | the transactions of `class WorkflowQueue` on runs, steps and attempts, callable by anyone at any time |
| `WorkflowEffects` | extends the queue with the gateway process that drives it and the CLI |
| `WorkflowDispatch` | event log, matcher cursor, deliveries, limits |
| `WorkflowObserver` | scans of the definitions, their rows, versions and events, and the people who edit them |
| `OutboundOutbox` | session outputs, their outbox and its drain into the chat |
| `ChatController` | one chat route, the messages of its thread, runs, turns and placeholders |
| `RunProjection` | the output of one run in the chat and its rows |
| `CloudCommands` | commands from the cloud, their inbox, effects and answers |
| `CommandLedger` | what `CloudCommands` implements |
| `PublicationOutbox` | concurrent publications, their leases and assets |
| `OpenClawBridge` | the OpenClaw plugin, the driver that polls it, and the turns of the driver |
| `CodexTurn` | the turns of one session of the Codex agent |
| `ProcessLock` | the lock files of two generations of the program |
| `WorkflowProofs` | theorems of `WorkflowQueue` and `WorkflowEffects` |
| `RuntimeProofs` | theorems of `CodexTurn` and `OpenClawBridge` |
| `ProjectionProofs` | theorems of `RunProjection`, whether its calls fail or not |
| `OutputProofs` | extends it: theorems of runs without a failed call, and of `PublicationOutbox` |
| `WorkflowEventProofs` | theorems of `WorkflowDispatch` and `WorkflowObserver` |
| `...Proofs` | theorems of the module of that name: `OutboundOutbox`, `ChatController`, `CloudCommands` |
| `MC...` | the instances of the runs |

`WorkflowEffects` composes with `WorkflowQueue`, whose actions it takes for its
transactions, so that it implements it by construction; `CloudCommands`
implements `CommandLedger` through `INSTANCE ... WITH`. The other modules meet at
an interface that one of them abstracts: `WorkflowDispatch` counts runs that
`WorkflowQueue` runs, `WorkflowObserver` activates the versions it dispatches,
`ChatController` takes a write to a response for one step, which `RunProjection`
opens up, and the turns of `ChatController` are those of `CodexTurn` and
`OpenClawBridge`.

### WorkflowQueue

Each public method of the class is one `BEGIN IMMEDIATE` transaction, hence one
action. The tables become functions: `runState`, `cancelRequested` and
`runDeadline` per run; `stepState`, `availableAt`, `attemptCount`, `lease` and
`refetchCount` per step; `attempts[s][n]` is the row of the n-th attempt. A
fencing token, a UUID in the code, is the attempt number, which is as unique;
0 is SQL NULL. `now` is the clock each transaction is handed. No caller is
modelled: any token may be presented at any time, which contains everything the
runner, its late workers and the CLI do.

### WorkflowEffects

The gateway is one JavaScript thread. `exec[s][t]` says where the execution of
attempt t of step s stands (claimed, resolving its definition, executing, its
receipt begun, awaiting the external system, on its way to settlement), `turn`
names the execution whose synchronous turn was cut between two transactions, so
that only the CLI or a crash can come in between. `receipt` is
`workflow_effect_receipts`, `calls` and `landed` count what left the process
and what the outside did with it: the response of a call may be lost, and a
timed-out or aborted execution leaves its call behind (`orphaned`), to write
its receipt later. `Crash` may happen anywhere; `Boot` and
`RecoverInterrupted` are the constructor of the executor. `policy` and
`approved` are the authority hash of the configuration and the approvals, which
`Approve` and the operator's `Revoke` change; `SetEnabled` is the operator's
override of the workflow.

### ProcessLock

One action per awaited file-system call. A lock file is an inode with or
without an owner line; `file` says which inode a path names, `stale` which one
a contender moved aside.

### WorkflowDispatch

The tables between an event and its run. `stamp` is the `recordedAt` a writer
took from the clock, which does not run backwards, `recorded` the rows of
`normalized_events`: the two are apart because the CLI reads the clock, and only
then waits for the write lock. `cursor` is `workflow_runner_state`. A delivery
is a pair of version and event, the table's unique key; `due` stands for
`next_dispatch_at <= now` and `recent` for runs created within the last hour, so
that time needs no number there. `batch`, `todo` and `checked` are what a
gateway holds between its transactions: a page of events, a page of deliveries,
and the delivery whose version, authority and approval it has just read. What a
run does is `WorkflowQueue`'s affair; here it is working, waiting for its source
or ended, as far as `dispatchDelivery` counts it. `verdict[g]` is what the
configuration of gateway g, fixed for the life of its process, makes of each
stored version. The histories `late`, `baseline`, `handled` and `resumed` only
serve the properties.

The module has a set of gateways because the process lock can let two run
(`lock_race`) and because each transaction of the code is written for it; the
run has one, the theorems any number.

### OutboundOutbox

The way of what a session says on its own, outside the gateway's turns: the observer
polls the history, withholds what it takes for the gateway's own (`WithholdOutput`)
and hands one output after another to `receiveSessionOutput`, which keeps it in
`outbound_outbox` under a key made of its id, and waits for the drain. Outputs are
numbered in the order of the history, so that a cursor is a number. `observer` is
the closure of `observeSession` with its `startObserver`: `position` is its cursor
in memory, `last` the end of the page it works through, `waiting` that it awaits a
drain. `cursor` is `event_cursor` of the binding, which every delivery sets to its
own output, so that a late retry sets it back. `batch` and `finishing` are what
`drainOutboxOnce` has claimed and the recovered run it is closing. A call to the
chat and the writes after it are one action; what may come in between is a crash
(`CrashInDelivery`, after any number of the writes), and in one JavaScript thread
nothing else. `chat`, `response` and `shown` are the chat as the user sees it. A
lease of a dead process may run out and a retry may come due at any time, so that no
clock is needed.

A turn of the gateway is in the session beside the other outputs: `phase` says
whether its launch is in flight in the driver, `began` which outputs it can have,
`owned` holds the outputs whose texts the driver remembers as final texts of its
own turns, and `withheld` is the history of what the observer has skipped with
its cursor moved (`src/runtime/openclaw.ts` lines 391-409): all pending outputs
while a launch is in flight, and any that equals a remembered text. Both are lost
if they were somebody else's; a restart forgets the texts. A retry looks for its
message among the last `Listed` of the chat, a hundred in the code, to which
`OtherMessage` adds.

An observer whose cursor the history no longer shows stays where it is: the
outputs since are never delivered, and no property promises that they are.

Not in this model: silent outputs, the pruning of rows after 30 days, the number
of texts the driver remembers (a hundred), several launches in flight at a time,
and the bridge.

### WorkflowObserver

One space. A pass (`phase`, `page`, `offset`, `missing`) reads the search page by
page, then asks for each stored definition that it did not meet. The observer is
the only writer of these rows and everything between two awaits is one turn of
the thread, so that reading an object and writing its row is one action. A body
is a value with the place of its digest in the byte order; `Uses`, `Declares` and
`Names` are what the policy compares, and `granted` what the configuration of
this process allows, which a restart may change. Of a failure only the summary of
the search is known. `Abandon` is a scan cut short by a failed search, a failed
write or a restart.

### ChatController

A route handles one message at a time (`work` names the await it is at), while
the turn of the runtime (`turn`), the completion of the run (`fate`) and the
writes to its response (`queue`) go on beside it. `route` is the loop of
`runRoute`; `events` what the stream has delivered since it was opened. The two
sources overlap: catch-up lists what is after the cursor, and moves it, and the
stream does not. A crash loses `route`, `events`, `work`, `active`, `turn`,
`fate` and `queue`; the tables stay. `given` and `excused` are histories: the
versions of a message that a turn took, and those that were let go with a
notice, in the log, or as no business of the agent. A version of a message is what
the code can tell of it: the second it was written in (`at`) and its fingerprint
(`says`); an edit is in the same second or a later one, and of equal seconds
`Known` compares the fingerprint. `dropped` is the history of runs whose row was
closed while their response stayed as it was, `unrecorded` of working messages
that have no run because the process died before it was created.

### RunProjection

Output is cut into cycles, one message each. Every write is a job of a promise
chain that makes its calls one after another (`writes`), and events go on
changing the cycles between two calls. A text is the set of its chunks; a version
counts the changes of a cycle, so that a message shows one version of one cycle.
A write is where it is in its method (`at`), the cycle it is at (`c`), where it
goes on after the step it is in (`then`) and the call it waits for (`call`). A
call may fail before or after it landed. `overtaken` and `late` are histories: the
cycles that an event changed or started while a move was due, and whether a move
began after the run was closed.

### CloudCommands

A tick makes one network call at a time (`net` is its reply on the way) and has
at most one effect under way (`exec`); the cloud acts when a call is made, and
the reply may never arrive. Leases, lifetimes and back-offs are truth values
that may change at any time, so that no clock is needed. `receipt` is
`cloud_effect_receipts`, its token the local attempt. The operator's retry is two
transactions of another process, between which anything may happen (`ordered`).
`CommandLedger` is the promise: a command is asked for at most once, unless that
is safe or the operator reopened it, and has one true answer.

### PublicationOutbox

Calls of `publicationAction` and `retryPublicationOperation`, each in a process
of its own, over the operations in the database: opening the outbox frees
operations whose lease has lapsed, a push keeps the operation of its contents, a
control gets one each time, and a claim holds a lease while the asset is
requested, uploaded and committed and the mutation is sent. A reply may be lost
after the cloud committed.

### OpenClawBridge

OpenClaw runs two kinds of runs in one session: those the gateway asks for
(`Mine`) and others (`Ext`). The plugin stores what they say (`row`) until it is
acknowledged, knows the runs that the driver registered with it, and takes
messages from outside (`inbound`). The driver has one turn at most (`turn`,
`launch`) and polls the rows page by page: `poll.page` is the set of rows still
to be read, `poll.hand` the delivery between its output and its acknowledgement,
`observer.runs` the events set aside for the ends of their runs and
`observer.recent` the twin of what it has shown. It remembers its own runs and
texts. Every request may be
lost before or after its effect, and each side may restart.

### CodexTurn

Every turn spawns an agent process, writes the sender to the actor file of the
session key, loads the saved session or makes another, prompts and ends. `pc` is the
await a turn is at, `child` its process, `stop` how it is being stopped ("term":
SIGTERM, and SIGKILL after the grace; "asked": the bare SIGTERM of a discovery and
of an actor file that could not be written) and `start` the promise the controller
waits for, which may be rejected long before the turn is through, so that turns
overlap. What the agent answers is free. `Timed` says whether one of the run's
timers is configured (`inactivityTimeoutSeconds`, `maxRunSeconds`), without which
the controller gives up no prompt by itself. A restart of the gateway is taken to
take its agents with it.

## Runs

| Run | Instance | Shows |
| --- | --- | --- |
| `queue_fork` | 3 steps, a beside b and c after a, 2 attempts, clock to 3 | dependencies, no stranded run, quiet ended runs, the approval gate, a success belongs to the last attempt, durable cancellation |
| `effects_chain` | 2 effect steps in turn, 2 workers, budget 1, 2 attempts, clock to 3 | at most one request, truthful receipts, the budget |
| `dispatch_one` | 1 gateway, 2 manual events in one page, 2 versions (one too large to run), 2 configurations, 1 crash, limits of 1, with fairness | no event recorded in order is passed, one version per event, the concurrency limit; every delivery settles |
| `outbox_restart` | 2 outputs of one text, 2 turns of the gateway, 2 messages of others, history of 2, 1 message listed, with fairness | nothing is passed unless withheld, a second message only when the first is out of the list; what is kept is delivered |
| `cloud_commands` | 1 command, safe to repeat or not, 2 claims, 1 ordered retry, 2 local attempts, 2 rejections, with fairness | refinement of `CommandLedger`, both sides agree on the answer; every command is answered |
| `projection` | 2 chunks, 1 thought, 1 move, 1 failed call, streaming or not | the answer is shown, rows are closed, no edit goes back |
| `chat` | 2 messages, the first edited in its second and the second in a later one, 2 activations, 2 of edits, failures, deaths, stops and stray outputs | one turn per thread, no message is lost, placeholders have their runs, versions advance |
| `publication` | 2 calls, 2 operations of any request, 2 attempts | assets first, receipts stand, only the holder of a lease decides |
| `bridge` | 2 runs of the gateway and 1 of others, with equal and different words, 3 records, 1 fault | nothing others say is swallowed, the gateway's own runs are not mirrored |
| `observer` | 2 objects, 3 bodies, 2 configurations, pages of 1, 3 edits, 2 faults, with fairness | what may run is what was read, revisions advance, archived means gone; every definition settles |
| `codex` | 2 turns, 2 senders, a timer of the run, 2 of steers, failures and restarts, with fairness | the session is kept, the sender is known; every prompt ends with its process |
| `lock_race` | 4 processes on one path, 2 attempts | two processes can run (see Findings) |

Bounds. In the queue a fork has a sibling and a dependent, and two attempts a
stale worker and its successor or an operator's retry. The clock leaves room for
a lease to run out, a retry to come due and the deadline of the run (2) to pass
before and after an operator's retry. In `effects_chain` a budget of one makes the
second step's effect the one too many unless the first was never sent. Its
configuration has one authority hash, so that changes of authority (not of
approval, which the operator revokes) are only in the theorems. Runs do not
interact in these modules except through the operator, so one run is
instantiated.

In `dispatch_one` two events are enough for a page that ends, by a crash, between
them; they share a stamp and differ by id; a limit of one is reached by the first
run; two refusals stand for the code's 24. Several gateways, later stamps and
late commits are in the theorems and in `dispatch_skips` (below).

In `outbox_restart` the two outputs say the same, the hardest case for a retry
that looks for a text and for a driver that remembers one; one message listed and
two of others push a message out of sight before and after its retry, and two
turns are one that a restart interrupts and one whose text is remembered. The
number of crashes and failures is not bounded. `outbox_window` repeats the safety
part with three outputs, of which two say the same, one turn and one message of
others: there one is retried after a later one while a third is handed over, and a
history of two makes the observer lose sight of its cursor.

In `cloud_commands` commands share nothing but the network call and the effect
under way, so one is instantiated; two claims are a command that is handed out
again while its first effect is under way, two local attempts the limit of the
code's own retries. In `projection` two chunks can be in one message or in two,
before, during or after the move. In `chat` two messages are one whose run is
active and one that steers it, waits or replaces it, and two troubles are, for
instance, an edit and a crash. That the first message is edited in its second and
the other in a later one bounds the run; `chat_seconds` has either for both, with
one trouble. In `publication` two calls are an owner whose lease
lapsed and the one that took over. In `bridge` three records are a run's words,
its end and a final message; the page limit is out of reach. In `observer` pages
of one make the second object shift under the scan; the digest of nothing lies
between those of the bodies, on either side of which an edit in the same
millisecond may be. In `codex` two turns can overlap, and two troubles are a turn
given up and a failed load; `codex_untimed` repeats the run without the timers.

`CHECK_DEADLOCK` is off except in `outbox_restart`: an idle queue at the clock
bound, a chat where everything was said, or processes that have all exited, do
stop. Symmetry is used for calls of the publication outbox and for processes with
one path, which no definition tells apart.

Each module has a type invariant. Those of the modules with proofs are theorems;
the others document the variables and hold in the instances above, where a line
`INVARIANT` with its name may be added.

## Fairness

`EveryDeliverySettles` assumes that a gateway that can take its next step takes
it (the tick runs in an endless loop, and `Boot` is the service manager's
restart), that `next_dispatch_at` and the hour of a run pass, and that a
dispatched run ends (its deadline is swept on every tick). Nothing is assumed of
operators, observers and sources. It does not promise an end to a delivery whose
version waits for an approval: such a delivery is deferred without a budget.

`KeptIsDelivered` assumes that an item that is due again and again is claimed
(the timer of the constructor drains every two seconds, each retry is at most a
minute away, a lease lasts half a minute), that the drain takes its next step,
and that a delivery tried again and again succeeds once: the code retries
without a limit, so this is about the chat and the crashes, and not the code.
Nothing is assumed of the observer.

`EveryCommandSettles` assumes that the tick goes on when its reply is in or its
time-out has passed (weak fairness of `Proceeds`), that lifetimes pass and an
effect ends (each has a time-out), and that a submission tried again and again
gets through: strong fairness, since the phases of a tick rotate and a crash or a
lost reply may come in between. Nothing is assumed of claims, the operator and
the policy; the property excuses an operator who orders submissions for ever.

`EveryDefinitionSettles` assumes that the loop of `run` goes on scanning
(`WF_observerVars(Scan)`). Edits and faults are bounded, so that they stop.

`EveryTurnEnds` assumes that the driver's own continuations and timers run
and that a process that was sent SIGKILL ends. Of the agent nothing else is
assumed: it may leave a prompt without an answer and ignore a bare SIGTERM. The
inactivity and maximum-run timers are disabled by default (`src/config.ts` lines
198-200), so that `GiveUp` needs `Timed`, and the property promises the end of a
prompt in the controller's hands only with it; without (`codex_untimed`), and in
either case for one that is no longer the controller's, it promises the end once
the controller is through. A discovery is promised to release the controller, and
not that its process ends.

The queue and the controller state no liveness. `NoRunIsStranded` says that a run
that goes on has a step to work on or a gate to open; `PlaceholdersHaveRuns` that
a working text is that of a run which is still running in the table, and it
excepts the runs that were dropped. Whether somebody comes to write there is not
claimed.

## Findings

`lock_race`: four processes that meet at a stale lock can end with two of them
running. `docs/workflow-runtime-topology.md` line 57 promises the contrary.

Statements of the documents and tests that the code does not meet, each with a
property of its module and a configuration to run by hand:

| Configuration, property | The code | The statement |
| --- | --- | --- |
| `effects_replay`, `ReceiptsAreReplayed` | the receipt of an upsert that created its object is not replayed when the retry's search finds the object: "bound to different approved content", and the run is dead-lettered | `docs/workflow-runtime-topology.md` line 353 |
| `dispatch_skips`, `CommittedEventsAreMatched` | an event that is stamped before another and committed after the matcher has passed that one is never matched | the same document, line 348: a startup reconciliation of events without a delivery |
| `outbox_same_text`, `AtLeastOnce` | a retry that looks for the message it may have sent takes any own message with the same text; an output that repeats another is recorded as delivered and never sent | `docs/audit-remediation.md` line 26 |
| `bridge_stale`, `AnswersAreNew` | `readTerminalText` passes over one old message only and may return the one before it as the answer of the turn | the error "completed without a visible text reply", `test/openclaw.test.ts` line 216, `ARCHITECTURE.md` line 158 |
| `observer_failure`, `FailuresDoNotDecide` | a failed read is recorded with the digest of an empty body, which decides against a body of the same time with a smaller digest that is read later | `docs/workflow-runtime-topology.md` lines 160-163, `test/automation-observer.test.ts` line 171 |
| `chat_orphan`, `OrphanIsResumed` | in a chat the working message is sent with no reply target, and the search for an orphan asks for a reply to the trigger: after a crash between the message and its run it finds nothing, and a second one is posted | `ARCHITECTURE.md` line 90 |
| `publication_retry`, `PendingWorkIsRetried` | the first attempt of `publish.web` uses up the asset manifest, and the next one is turned away for good while the operation is pending | `test/automation-publish-web.test.ts` line 294, `docs/publish-architecture.md` line 379 |

Run them as the others, for instance
`tlc -config bridge_stale.cfg MCOpenClawBridge`. Three more configurations pass, as said
under Bounds and Fairness: `outbox_window`, `chat_seconds` and `codex_untimed`.

Seen while modelling, and without a property:

- Queue: a claim that asks for its source after its run was cancelled leaves the
  run to its deadline.
- Process lock: a process killed between creating its lock file and writing its
  pid leaves a lock nobody reclaims.
- Controller: a run closed as stale by a new message keeps its working text for
  good (`dropped`), and so does one whose last write failed (`left`); of two
  versions of a message from one second, which `modified_at` does not tell apart,
  the older may go to a turn after the newer; an output that
  arrives between the creation of the run and its activation is taken for a
  recovery; a run whose final edit is on the way may be closed as failed and then
  as done (`test/workflows.test.ts` line 907); an edit of a message behind the
  cursor is never seen while the route is offline.
- Outbox: an output that the session has on its own while a turn of the gateway is
  launched, or that equals the last text of one, is withheld and lost; a message
  whose answer was lost is sent again when a hundred others came before the retry.
- Projection: a text that streams into a cycle whose message a `move` deletes is
  lost unless the result has it; a cycle started while a move is queued may stay
  open (`overtaken`).
- Cloud commands: an operator's retry is two transactions, and a crash between
  them leaves the first; the retry of a chat message that failed after it landed
  sends it again.
- Publication: a workflow's retry of a control enqueues a second operation; a push
  is known by its contents, so that the third of A, B, A is not sent; the retry
  of an older push may land over a newer one; asset checkpoints are not fenced
  by the lease; a failed push is queued again by asking for it again.
- OpenClaw: a run that ends before its launch is acknowledged may be shown twice
  or its twin taken for shown (`Overtook`); a suppressed twin whose
  acknowledgement is lost is delivered after all; the run of a
  gateway that died is acknowledged without a word; a steer accepted while its
  turn settles is never answered.
- Observer: an edit in the same millisecond with a smaller digest stays hidden,
  as documented; a second archiving at one revision is not announced.
- Codex: the prompt of a turn that was given up overlaps the next, whose actor
  file it unlinks (`ARCHITECTURE.md` line 122) and whose session it may save
  over, and no property covers that; a steer that fails cancels a turn that had
  completed; a prompt without an answer never ends unless a timer is configured;
  the process of a discovery, or of a turn whose actor file could not be written,
  stays if it ignores SIGTERM.

## Proofs

`WorkflowProofs` proves of the queue, for every set of runs and steps, all acyclic
dependencies and every time bound:

- `TypeCorrect` and `LeasesAreFenced`, from `LeaseInv`, their conjunction: a failing
  step's back-off is indexed by its attempt number, which is a valid index only
  because a held step has one, and the lease facts need the types;
- `SuccessesStand`, from `RunsBeforeSteps` (a run's steps are written with it, so
  that a dispatch overwrites none) and `OnlyCompletionSucceeds`, and
  `LastAttemptSucceeds`, `SettledAttemptsStand` and `CancellationsStand`;
- `DependenciesRespected`, which needs beside it that a success stands, and that a
  retry gives nothing out whose dependencies are not done;
- `RunsAreNotStranded`, `EndedRunsStayQuiet` and `GateStaysTotal`, from `RunsInv`:
  `LeaseInv`, and every run is whole (`RunWhole`). None of the three is inductive
  alone. An operator's retry opens a run that was given up, so such a run must have
  kept a step to do, and what the retry or a gate opens must leave no step blocked
  whose dependencies are done. `RunsAreNotStranded` needs that the dependencies have no cycle
  (`GraphAssumption`, which `src/automation/workflow.ts` checks at lines
  516-535): of the steps still to be done one waits for none of the others.

Of the runner it proves, for every set of steps and of policies, every number of
workers and every budget:

- `GatewayKeepsQueue`: the queue's promises hold of the gateway, with its crashes,
  recovery and CLI. It rests on the lemma `GatewayImplementsQueue`
  (`EffectsSpec => QueueSafety`), which is true by construction, since the
  gateway's transactions are the queue's actions: it claims nothing of the code by
  itself, and carries the queue's theorems over;
- `EffectsAreRequestedOnce`, `FailedReceiptsAreTrue`, `SuccessesAreReal` and
  `BudgetsHold`, the other properties of `effects_chain`, and `OutcomesStand` and
  `EffectsTypeCorrect`.

The invariant is `EffectsInv`. What makes it inductive is `BegunOwnsReceipt`: an
execution about to send its request owns the running receipt, nothing was sent
under it, and its process is up. So no other token can start the receipt, the
request is the first, and a recovery never turns a receipt unknown between
`begin` and the call. `OnlyEffectsCall` gives the receipts their domain, and
`SuccessRecorded` carries a success from the receipt to the settlement. The
queue's own part of the invariant comes from that lemma and `LeaseNext`, not from
a second proof.

`WorkflowEventProofs` proves of the dispatcher, for every number of gateways and
versions, every set of events and all limits, the safety properties of `dispatch_one` and
two more (deliveries agree with runs, settled ones stand):
`DispatchTypeCorrect`, `DeliveriesMatchRuns`, `SettledStand`,
`CursorPassesNothing`, `ConcurrencyLimitHolds` and, for one gateway,
`DeliveredToOneVersion`. `TypeInv` adds to the types that a delivery still has a
refusal left and that pages hold recorded events. `CursorPassesNothing` needs
`PagesHaveNoGap`: whatever is owed before an event of a page is matched or in
the page, which survives even a second gateway that moves the cursor back.
`DeliveredToOneVersion` needs that a sole gateway's cursor only moves forward,
`HandledIsBehind` and `PageIsAhead`.

`OutboundOutboxProofs` proves, for every number of outputs, of turns and of messages
of others, every history limit and every number of listed messages, and (but for the
last) all texts: `OutboxTypeCorrect`, `NothingIsPassed`, `MessagesAreFoundAgain`,
`DeliveriesStand` and, when no two outputs say the same, `DeliveriesAreReal`. The
invariant is `IInv`. The heart of `MessagesAreFoundAgain` is `SendInv`: an item whose
message is in the chat is past its first attempt or its drain's turn, and its message
is younger than the item, so that the next attempt finds it if it is among the
messages listed; a first attempt has sent nothing. `NothingIsPassed` rests on
`WaitInv` and `OrderInv`: the output that a poll waits for is kept, and every output
before a kept one is kept, old or withheld, which is what makes the cursor a delivery
sets safe. What was withheld is excepted, and the theorem does not say that it was
rightly so. The last theorem has an invariant of its own, `ShownInv`: what a retry
finds, or has recorded, is its own message.

Of the observer `WorkflowEventProofs` proves, for every set of objects, bodies and digests,
every policy and page size, the properties of `observer` but for its liveness:
`ObserverTypeCorrect`, `UsableStaysCurrent`, `RevisionsOnlyAdvance` and
`ArchivedOnlyWhenGone`. The invariant is `ObserverInv`: a row that was never
written is empty, a valid one pairs its version with the digest of its revision,
and what a search lists was created. The lemmas say of each write of the store
what it makes of any row (`VersionRow`, `StatusRow`, `FailureRow`): a status that
arrives late finds either its own version active or a newer row.

`CloudCommandsProofs` proves, for every number of commands and all bounds,
`CloudTypeCorrect`, `AnswersAlwaysAgree` and `BridgeKeepsLedger`, that the bridge
implements `CommandLedger`. The invariant is `CloudInv`: `WellFormed` is about the
rows and whoever has them in hand, `Truth` ties each answer, on its way or
delivered, to what is recorded and to the effect that took place.

`ChatControllerProofs` proves, for every number of messages, follow-ups, failures
and crashes, the safety properties of `chat`: `ChatTypeCorrect`, `OneTurnAtATime`,
`EveryMessageAnswered`, `PlaceholdersAreOwned` and `VersionsOnlyAdvance`. Of a
placeholder whose run was dropped nothing is claimed, nor of the order of versions
of one second. The invariant is `ChatInv`. `Messages` says that the message at work is newer than
what was handled, that a batch follows the cursor, and that what is still to come
is no older than what was given. `Process` says that one run is running in
the table, that a live turn is the active run's and has been told nothing but to
move, that a move waits only while somebody waits for it, that a recovery is
of a run neither active nor at work, and that work is done only after the
reconciliation.

`RuntimeProofs` proves, for every number of turns and failures, the safety
properties of `codex`: `CodexTypeCorrect`, `SenderIsAlwaysKnown` and
`ContinuityIsKept`. The last claims nothing while turns overlap or a turn whose
set-up was given up goes on, and the second only speaks of turns that began alone.
By `CodexInv`, of two turns under way one did not begin alone; an
active turn that began alone is the only one and the actor file is its own; the
set-up that was not given up is the one that is waited for, loads only the
saved session and makes one only if none is saved.

Of the OpenClaw driver and its plugin it proves, for every number of runs, posted
messages, rows, texts and faults, the properties of `bridge`: `BridgeTypeCorrect`,
`NothingIsEverSwallowed` and `OwnRunsAreNeverMirrored`. The invariant is
`BridgeInv`. Its heart is `RecentOK`: a text that is remembered as said is in the
chat, or the row by which it is remembered is the first that is still due, so that
no row of the other kind can be taken for its twin before it was tried again. That
needs that nothing due is passed over (`PageOK`, `EventsOK`: up to the last of a
page a row that is due is in the page, in hand or set aside), that the delivery in
hand is the first (`HandOK`), and of the rows that a run ends once and says nothing
afterwards (`RowsOK`). `AckedOK` states it of the rows that are acknowledged or
about to be. `KnownOK` (the driver knows the runs it follows until their ends are
acknowledged) and `MarkedOK` (a run registered in time has no end that is not
marked as owned) are what keeps its own runs out of the chat.

`ProjectionProofs` proves of the projection of a run, for every number of chunks,
moves and failed calls, `ProjectionTypeCorrect` and `EditsOnlyGoForward`. The
invariant is `BaseInv`, which holds whether calls fail or not: only the first
write of the chain has begun and is at a step of its kind (`WritesOK`), its call is
about the message of its cycle and carries no version the cycle has not had nor one
older than the message shows (`CallOK`), a message shows the cycle that has it
(`LinkOK`), the write that ends the run is the only one of its kind (`EndOK`), what
the write at hand finds (`PlaceOK`), what the final edits have written so far
(`ShownOK`) and when the silent text may be there (`SilentOK`).

`OutputProofs` adds to it what holds while no call has failed and no move came late,
in two layers. `TidyInv`, for `NoRowIsLeftOpen`, is about rows (`Tidy`): a message
is gone only with its cycle (`GoneOK`), so that no edit is refused and a call that
fails is a lost one; a row is open for the active cycle, or for one that a write is
about to report (`OpenOK`, `RecallOK`); a cycle that is followed by another is over
(`SettleOK`), because a move that starts one has frozen or deleted the cycle it
found (`DueOK`) and a working message that is not there yet is created before the
next move (`NewOK`); and the write that ends the run leaves its active cycle over
(`StopOK`).

`WholeInv`, for `TheAnswerIsShown`, is about the answer (`Whole`): a message that
shows something is that of a cycle which is not deleted (`OwnOK`), which
`SettleOK` then says is a text or the active one; the reaction is only on the
message the output is below, and on none once a move or the end has taken it away
(`ReactOK`); a move deletes no text (`DelOK`), and the active cycle is deleted only
until the move starts the next one (`ActiveOK`), or when the run ends (`DoneOK`);
and every chunk is in a cycle that is there (`CovOK`). For the last the text that
the result replaces must be contained in it: the chunks of a cycle are of one part
and the active text is of the last part (`PartsOK`), so that a result which is the
last part covers whatever it takes the place of. That holds until the answer is
concluded, after which no text is added. The first half of `AnswerIsShown`, the
last version of each text, follows from `ShownOK` and so survives failed calls. In
both layers each part excepts the cycles in `overtaken`.

Of the publication outbox `OutputProofs` proves, for every number of pushes, calls
and failures, the safety properties of `publication`: `PublicationTypeCorrect`,
`AssetsAlwaysFirst`, `ReceiptsAlwaysStand`, `HoldersAlwaysDecide`, and
`OneAlwaysDelivers`, that two calls deliver one operation side by side only after
a lease lapsed. By `PublicationInv`, an operation has a lease exactly while it is
in flight, a push has one operation, no checkpoint is ahead of the cloud, what is
recorded as published was committed, and a delivering call that is not stale owns
the lease.

The assumptions on the constants are `QueueAssumption` (dependencies stay within a
run, times and budgets are numbers), `GraphAssumption` (a run has a step, and
dependencies have no cycle), `EffectsAssumption` (finitely many effect steps, the
kinds of steps are what their names say), `DispatchAssumption` (event ids are
ordered as numbers are, finitely many of them, positive limits),
`ObserverAssumption` (a body that parses is a body, digests are numbers that differ
from the empty one's, a page holds something) and `OutboxAssumption`,
`CloudAssumption`, `ChatAssumption`, `CodexAssumption`, `PublicationAssumption`,
`ProjectionAssumption` and `BridgeAssumption` (numbers, and names that are not
members of the sets they mark the end of; the last one also that a run of the
gateway's is none of another's).

`LeaseMatchesAttempt`, `SuccessIsPermanent`, `AttemptsAreImmutable`,
`RecordedOutcomesStand`, `DispatchedHasRun`, `SettledDeliveriesStand`,
`DeliveredIsShown`, `DeliveredStands`, `OneDelivers` and the type invariants are
theorems without a run.

Model-checked only: every liveness property, which is out of the prover's reach (it
has neither fairness nor `ENABLED`) and stays with TLC; what holds of `ProcessLock`
is the counterexample of its run.

## Plan

1. Instances: several commands and policies that change in `CloudCommands`, two
   authority hashes in `WorkflowEffects`, where the time allows.
2. The projection of audit records to the cloud, the retention of contexts under
   the process lock, the single-use capabilities of the management tools.

## Not modelled

Pure functions (parsing, hashing, rendering), HTTP clients, configuration,
onboarding and service installation, the MCP and management tools, the
assembly and retention of contexts, schema migrations, and generated code.
Context retention deletes workspaces under a lock of the same kind as
`ProcessLock`, on a registry of its own. `PROJECT.json` lists every component with the reason,
and for those modelled in part what is left out.

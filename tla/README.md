# Watershed in TLA+

This directory holds a TLA+ development of the parts of Watershed whose
correctness depends on the order of things: threads and Ctrl-C, the end of a
process between two writes, retries of what was already done, windows and
processes that share files, full channels and late answers. TLC checks the models
on small instances. TLAPS proves the main safety properties of seven of them for
every value of their constants.

Paths below are relative to `flow-agent/flow-agent-core/src/runtime/` unless they
begin with a crate or with MH (`meta-harness/meta-harness-core/src/`) or LQ
(`liquid/`). `PROJECT.json` maps the definitions to the lines they model and lists
components, runs, mutants, hazards, findings and theorems. Steps of the environment,
and helpers whose lines lie within those of the definitions that use them, have no
entry of their own in the map.

## The system

Watershed has three programs.

**Flow Agent** (`flow`) runs Flows. `flow run` asks the Conversation directory for
a new Run, under a lease, and takes a publication permit from the Ctrl-C
coordinator. The Flow then runs under dispatch permits. Each provider or Tool
attempt has a synchronised intent in the run log, is dispatched, gets a terminal
result there, then a record in the recovery snapshot, then Events through the event
writer. The command line follows the writer by the live-event channel. A Tool goes
through the Executor: a client in Flow, a companion process, an inner supervisor.
At the end the terminal snapshot, the terminal Event and the history entry close the
Run. Fixture Runs take another way: the whole event stream is planned, validated
and then applied. Around a Run lie the provider's credentials, the decoding of the
provider's answers, the selection of the Executor, the Flow home with its
definitions, segmented streams, immutable objects and the history index.

**The harness** (`meta-harness`) drives a coding agent (pi). A session routes the
agent's records, holds its dialogs and commands, and captures checkpoints of the
checkout at the start and the end of a turn. Beside it the user reverts turns,
switches branches with stashes, pushes, pulls and reads stored sessions.

**Liquid** shows the harness and has a Workspace of its own: Areas, Pages, Views,
text and databases over documents and an encrypted store, with readers in the app
that follow resources over a bridge.

Processes meet only in files and locks, threads and tasks in channels and mutexes.
These are the places where the models have their interleavings.

## Modules

### Runs of Flow Agent

| Module | Models | State and actions |
| --- | --- | --- |
| `Coordinator` | `cancellation.rs` | `state`, `cancelled`, `deferred_interrupt` are the fields of `ProductiveCancellation`; one operator per method, atomic under its mutex |
| `Cancellation` | the productive thread and the `flow-interrupt` thread over `Coordinator` | place and guard of the productive thread, the Run it creates, the handler; ghosts for the answer Ctrl-C got and for the side that won. Its theorems are in the same module |
| `InterruptRace` | abstract: what Ctrl-C promises | implemented by `Cancellation` |
| `ProductiveRun` | `productive/`, `session/`, `conversations/recovery/`, over `Coordinator` | `intents` and `results` are `run-log.jsonl`; `recovery`, `events`, `contexts`, `history` the other files; `proc` the process. First execution and Resume are the same actions. `Crash` ends the process between any two steps and, with `PowerLoss`, cuts what was not synchronised. `dispatched` counts outside the program what reached the provider or the Tool |
| `AttemptOnce` | abstract: the life of an attempt | implemented by `ProductiveRun` |
| `Conversation` | `conversations/status/`, `conversations/lifecycle/` | the leaves of one Conversation directory; every change of a file is a step, `Fault` makes the call fail and enters the cleanup, `Crash` leaves the directory. The Conversation lease makes operations sequential |
| `EventWriter` | `serial_event_writer.rs`, `conversations/event_persistence.rs`, `live_events.rs` | client, queue, worker, log, notifier. Raising the watermark, trying the wake-up and answering are three steps. After a failed sync the bytes are `doubtful`: a later success says nothing of them |
| `LiveStream` | CLI `streaming.rs` over `EventWriter` | the follower takes the wake-up and loads the watermark in two steps, reads, joins the operation, and does the final verified read |
| `SessionWriter` | `event_writer.rs` | the client and worker of `EventWriter` with the backend of Fixture sessions and the activation of their reservation |
| `Executor` | `executor/client/`, `flow-agent-executor` | client, companion, inner supervisor, Tool, and a clock in seconds, the unit of the code's windows. Every process in a polling loop makes a pass before the next tick; a pass is two steps where the code looks twice. At most one fault from outside |
| `FixturePlan` | `planning/`, `apply.rs`, `validate/lifecycle.rs`, `resume.rs` | the plan of a Flow with nested Phases, loops, transitions, subflows and failures, the validator as an automaton, the execution with crashes, Resume |
| `FixtureSessions` | `session_reservation.rs`, `session_lock.rs`, `session_authority.rs` | processes that look for a free session name, take its lease, make its files, activate it or give up; no step removes a file, since `remove_owned_anchored_file` always refuses |

### What Runs rest on

| Module | Models |
| --- | --- |
| `Credentials` | `credential_store/`: refresh, sign-in and sign-out of several processes over one locked store, with power loss |
| `Login` | `auth/`: the browser's callback and the device code, with their deadlines |
| `Responses` | `openai_codex/transport.rs`, `responses.rs`: framing, decoding and the end of a turn over an answer cut anywhere |
| `ToolCalls` | `openai_codex/protocol.rs`, `tool_runner/invocation.rs`: from declared parameters to the schema, to the recorded value, to the command's tokens |
| `ToolProcess` | `tool_runner/unix_process.rs`: leader, group, deadline, output cap, reaping |
| `Selection` | `executor/config.rs`, `selection.rs`, `probe.rs`: commands that select an Executor, Runs that probe and start it, an administrator who replaces it |
| `Authoring` | `authoring/`, `config_io.rs`, `fs_guards/`: `flow init` and `flow create` with power loss |
| `Registry` | `core-script`: loading a Flow's closure in two passes, validation, addition, with edits beside it |
| `FlowValues` | `core-script` `values.rs`, `semantics.rs`: values, contracts, predicates, prompts |
| `Segments` | `segmented_appender.rs`, `conversations/session_event_stream.rs`, `conversation_stream/`: appender, sealing, the reader that follows, the readers that page |
| `Objects` | `conversations/run_objects.rs`, `context_persistence/objects.rs`: the two write-once stores |
| `HistoryIndex`, `Scratch` | `conversations/history_index/`: the external sort by digests, and the scratch directories it works in |

### Harness and Liquid

| Module | Models |
| --- | --- |
| `AgentSession` | MH `session.rs`, `session/supervisor.rs`: owner, supervisor, timers of questions, stopper, pi and Liquid's cards over bounded channels; a step ends where the code awaits or releases the mutex |
| `AgentEvents` | MH `pi.rs`: the agent's records translated into items |
| `Checkouts` | MH `checkout.rs`, `checkpoint.rs`: hosts in the worktrees of one repository, three kinds of lock files, turn marks, captures, Git operations, close and crash |
| `Stashes` | MH `diff/branches.rs`, `diff/stash.rs`, `diff/commit.rs`: uncommitted work on a branch switch, with other windows and the user at work |
| `Transfers` | MH `diff/sync.rs`, `diff/pulls.rs`: push, pull and pull requests against a moving remote |
| `Snapshots` | MH `diff/mod.rs`, `diff/revert.rs`: capture, plan and restore |
| `SessionHistory` | MH `history/`: tree, trajectory, pages and turns of a stored session, and the reader of a growing file |
| `Workspace` | LQ `liquid-core`: every mutation over documents and the store, failing writes, rollback, order keys (`sort_key.rs`) |
| `Following` | LQ `liquid-bridge/src/api/workspace.rs`, app `follow.dart`: subscriptions with generations, the text follower |
| `Replica` | LQ `liquid-bridge`, `liquid-storage`: key, store and Workspace made with crashes between |

### Proofs and runs

`ProductiveRunProofs`, `RunRecordsProofs`, `EventWriterProofs`, `LiveStreamProofs`,
`ExecutorProofs`, `CheckoutsProofs`, `FixtureSessionsProofs` and the end of
`Cancellation` hold the theorems. `MCRuns`, `MCRuntime`, `MCStores` and
`MCHarness` bring several components into one run: the variable `component` says
which one is exercised from the initial state on, and the others stay at rest, so
the state spaces add up and do not multiply.

Operators named `..._something` under a comment `Mutant:` are wrong variants of the
definition that follows them. No specification uses them; they show that each
property can fail.

## What the runs check

Each property carries its own statement in its module.

| Run | Properties | Bounds | Distinct states |
| --- | --- | --- | --- |
| Runs | `AtMostOnce`, `ImplementsAttemptOnce`, `RecordsAgree`: nothing is dispatched twice, log, snapshot, events and history agree. `ResumedRunsComplete`: Resume brings a killed Run to its history entry, and its replay meets no difference. `StatusTruthful`, `CommittedRunsStay`, `TransactionsResolve` of `status.json`. `InterruptsTakeEffect` | a Run of 1 Phase and 2 turns with 2 crashes, power loss, 2 Ctrl-C and reconciliation; one of 2 Phases and 3 turns that is only killed; a Conversation with root and child, 2 records, 2 crashes, 1 fault, torn appends | 274,338 |
| LiveStream | `LogInOrder`, `DurabilityTold`, `OutputFollowsLog`, `CommandEnds` | 3 new events of 4 kinds after one earlier, queue 1, batch 2, 2 faults | 1,146,412 |
| Executor | `ResultTruthful`, `EvidenceKept`, `DispatchEnds` | Tool time-out 1 s, windows 5 s, 1 s each for grace, reap, drain, record | 990,347 |
| AgentSession | `CardsLive`, `StopReturns` | 1 approval, 1 question, 2 commands, channels of 1 (pi's output 2) | 395,273 |
| Checkouts | `Exclusion`, `NothingLeftBehind`, `CapturesEnd` | 3 hosts in 2 worktrees, two open at a time, 2 turns, 1 operation | 318,772 |
| Harness | `NothingLost`, `ReportsTruthful`, `PushedAsConfirmed`, `HistoryTold`, `ItemsSettle`, `AllowancesHold` | 2 windows over 3 branches with 2 edits and 2 calls, one of them alone with 2 commands of the user beside it; 2 commits and 2 or 3 calls; stored sessions of up to 5 entries; 2 turns of 4 items; 2 approvals in 2 sessions | 1,424,313 |
| Runtime | `OutcomeAgreesWithAnswer`, `CreationIsAllOrNothing`, `ImplementsRace`, `FixtureStreams`, `CredentialsKept`, `ResponsesWhole`, `ToolsAsDeclared`, `SelectionHolds`, `FlowsSound` | the coordinator has no bound; Flows of up to 28 events with one cut; 2 to 3 processes, 1 mishap or loss; answers of up to 12 tokens, opened by one of three first chunks and then cut into chunks of 1 or 2; registries of up to 6 blocks; values of depth 3 | 1,472,743 |
| Stores | `SessionsKept`, `OneWriter`, `StoredWhole`, `WorkspaceTruthful`, `StepsJustified` | 2 processes over 2 names; 4 events; 3 segments of 4 bytes or 5 of 1, 2 owners or 1 outsider; 3 objects of which a store admits 2, 3 opens; histories of 5 entries; 2 scratch runs; scripts of up to 6 writes followed by 2 or 3 free ones; at most 2 of 3 readers at a time; 3 crashes; keys of up to 6 digits | 979,441 |
| TerminalResume, ReclaimedResume, OversizedContext, InitStuck | one property each, violated: see Findings | | |

Why the bounds are enough. Two crashes reach a crash during the recovery from a
crash, and two faults a failing operation after a failure that stopped the writer.
Two turns reach an attempt after a promoted one, and three over two Phases a
boundary record between attempts. A batch of two and a queue of one reach full,
partly full and flushed; a channel of one is the worst case for waiting. Two hosts
in one worktree and one in the other reach every pair of locks; two turns reach the
late end of one behind the start of the next. Two windows reach every interference
with one call, and two commands of the user a foreign stash put and dropped.
Branches are interchangeable, so the windows begin on one choice of them
(`CheckedOut`). Two approvals in two sessions reach a decision for one while the
other is on its way. Three segments reach a sealed one behind a sealed one, and five
of one byte two that appear between two steps of a reader. The first chunk of an
answer holds no event, one or two, so that what follows meets the limits on events
and on the whole answer. Two processes reach every race for a name, a lock or a
file, and a third command a sweep after both. The windows of the Executor keep the
code's proportions: with four seconds for a cancelled companion `EvidenceKept`
fails, so the five of the code are needed. For the components with proofs the bounds
matter only for liveness and for the properties no theorem states.

## Fairness

All of it is weak fairness: these are threads, tasks and timers that the operating
system or the async runtime schedules, and no property needs a lock to be won
against a contender that takes it again and again.

- `MCRuns`: somebody asks for Resume (`Open`) and the process that serves it goes on
  (`Execute`), crashes being bounded; an operation on the Conversation goes on
  (`Step`) and somebody asks for its status (`Status`); the productive thread's
  calls return (`Productive`), since what they wait for polls the flag, and a handler
  that ends the process does so (`HandlerExit`). Nobody has to press Ctrl-C.
- `LiveStream`: the worker, the operation's calls and the follower run; the operation
  drops its writer in the end.
- `Executor`: live processes run, kills arrive, time passes, a Tool that obeys TERM
  ends once it was asked, and the caller's commit of `tool.started` returns. Nothing
  is assumed of the preflight or of a Tool nobody has asked to end.
- `AgentSession`: the runtime polls owner, supervisor and stopper, and the grace
  period ends. Nothing is assumed of pi, of the user, or of Liquid taking events.
- `Checkouts`: some capture task or call that can take a step does.

The other runs check safety only.

## What is proved

Every theorem holds for all values of the constants under the named assumptions of
its module, which TLC evaluates in the runs. Each inductive invariant was
checked by TLC on the bounds of its component before it was proved, with
quantifiers over the natural numbers cut to a range.

| Module | Theorems | Assumptions |
| --- | --- | --- |
| `Cancellation` | `Invariance`, `OutcomeTheorem`, `PermitTheorem`, `CreationTheorem`, `RaceTheorem` (`Cancellation` implements `InterruptRace`) | none, no constants |
| `ProductiveRunProofs` | `Invariance`, `AtMostOnceTheorem`, `AttemptLogTheorem` (`ProductiveRun` implements `AttemptOnce`) | `BoundsAssumption`: at least one Phase, no fewer turns than Phases, bounds are numbers |
| `RunRecordsProofs` | `RecordsInvariance`, `RecordsTheorem` (`RecordsAgree`) | the same |
| `EventWriterProofs` | `WriterInvariance` | `EventWriterAssumption`: the four kinds of event, capacities above zero, no more prior events than events, bounds are numbers |
| `LiveStreamProofs` | `Invariance`, `LogInOrderTheorem`, `DurabilityTheorem`, `OutputTheorem` | the same |
| `ExecutorProofs` | `Invariance`, `ResultTheorem` | `Durations`: every window is above zero |
| `CheckoutsProofs` | `Invariance`, `ExclusionTheorem`, `LeftBehindTheorem` | `PlacesAssumption`: every host has a worktree, the main one exists |
| `FixtureSessionsProofs` | `Invariance`, `Kept`, `Exclusive` | `NobodyAssumption`, `BoundsAssumption` |

The arguments:

- **Ctrl-C.** The outcome property alone is not inductive: whether `claim_terminal`
  answers Completion depends on `state`, and `state` says nothing of the answer given
  to Ctrl-C unless it is tied to the flags and to the permit held. `IInv` adds those
  ties: the permit matches the state unless a Ctrl-C took it away, the flags and
  `told` tell the same story, and each place of the productive thread admits only
  some states.
- **At most once.** What must not be dispatched twice is protected by the intent, so
  the invariant follows the intents: nothing reaches the outside or has a result
  without one (`Ledger`); every intent is one that the process found completed when
  it opened the Run or one it has passed (`Passed`), so that an attempt about to be
  intended has none; the place of the process tells which attempt can be uncertain
  and whether it may have reached the outside (`Standing`); and the outcome in memory
  is one of the current attempt (`OutcomeFits`). A crash forgets the process and keeps
  the ledger; opening the Run requires that nothing is uncertain. The refinement maps
  each step to intend, dispatch, settle or a stutter of `AttemptOnce`.
- **Records.** `RecordsAgree` compares files, and a step that writes one of them is
  right only because of what the process knows of the others. `RInv` adds this
  knowledge to `IInv`: how far the process has replayed the Event and context streams
  (`StreamsAgree`); that the snapshot records each attempt, Phase and transition once
  and ends with its terminal record (`Snapshot`); that every record the process has
  seen lies behind its place in the Flow, so that what it appends is new, and that the
  one intent without a record is its own (`Progress`); that the cause of the Event it
  is about to emit is in the snapshot (`Grounds`); and that nothing is written after
  the history entry (`Closed`). A crash may cut Events that were not synchronised, but
  no `message.completed`: its commit synchronises it.
- **Event writer.** Every event after the first `a` is on its way, in this order: the
  answers being delivered, the batch, the one the worker received, the queue
  (`InFlight`). With this the worker's events are consecutive numbers and the log is
  in order whatever batch an append leaves behind. `AnswersKept` says what the answers
  given, and those about to be given, promise of the log; `Telling` that a failure is
  on its way to the client or has arrived.
- **Following.** `Announcing` ties the watermark to the outbox: lines are announced in
  order, each before its answer. `Following` says where the cursor is between the
  first wake-up and the watermark, and that with an empty slot and no wake-up about to
  be sent the follower has read, or is about to read, all that is announced. This
  covers the wake-up lost to a full channel.
- **Executor.** An answer is the end of a chain: the client repeats what it read, the
  companion wrote what its class was, the class is the reason its arbitration chose,
  and the reason was true when it was chosen and stays true (`Reporting`, `Reasoned`).
  That an exit is the Tool's own rests on time: the inner supervisor starts later with
  the same time-out, so its deadline is never before the companion's (`Timers`), and
  the companion looks at its own deadline before it takes an exit for one. The proof
  needs nothing of the proportions of the windows.
- **Checkouts.** A turn that runs has its mark, and a mark has its guard: in Git the
  shared locks of its checkout and its repository, else the one of its folder
  (`TurnHolds`). A call that works holds the matching lock alone (`CallHolds`). The
  hard cases are the repository created between the two kinds of guard (`World` and
  `CallHolds` for `initialize`) and the ids of turns (`TurnIds`), which tell the late
  end of a turn from the start of the next.
- **Session names.** Nothing is ever removed, so what protects a name is the exclusive
  creation of the events file, the first of the bundle: a creation that goes on made
  it itself, and every other file under the name has the same creator (`Accounted`).
  A lease is held by the process whose steps need it (`Leased`), and an activated
  session stays at its name (`Activated`).

Only model-checked:

- liveness: `CommandEnds`, `DispatchEnds`, `StopReturns`, `CapturesEnd`,
  `ResumedRunsComplete`, `TransactionsResolve`, `InterruptsTakeEffect`;
- `EvidenceKept`, which depends on the proportions of the windows;
- what the recursive definitions compute, and with it the modules that have
  `RECURSIVE` operators or compare an algorithm with a reference definition:
  `AgentEvents`, `FixturePlan`, `FlowValues`, `HistoryIndex`, `Registry`, `Responses`,
  `Segments`, `SessionHistory`, `ToolCalls` and `Workspace`;
- `ReplayAgrees` (in `ResumedRunsComplete`) and the properties of `Conversation`, `AgentSession`,
  `Stashes`, `Transfers` and the other components that the table above does not name.

## Findings

Four runs expect a violation; `PROJECT.json` quotes the documents.

- `TerminalResume`: Ctrl-C ends a Run between attempts, the terminal snapshot is
  written, and the process ends before the history entry. Resume re-executes without
  the Ctrl-C, meets the terminal record where it asks for the next attempt or boundary,
  and fails, each time. `PROTOCOL.md` says that it appends the missing entry.
- `ReclaimedResume`: a reclamation that puts its lifecycle marker and then dies leaves
  a Run that can be resumed and completed. The next creation takes the marker for
  permission and removes the Conversation with its history. This needs a Ctrl-C after
  the recovery header exists (`LateCancel`); the run Runs sets `LateCancel` to FALSE,
  since `CommittedRunsStay` fails on the same behaviour. The other properties of
  `Conversation` hold with it.
- `OversizedContext`: a Fixture Run whose context exceeds the input budget in a Phase
  within a Phase is refused by the lifecycle validator while it is planned; neither the
  error nor the failed session is recorded.
- `InitStuck`: `flow init` killed between the hard link of its transaction record and
  the removal of the temporary name leaves a record that no later `flow init` reads.

Observed, and listed as hazards with a note instead of a run:

- A failed last directory synchronisation of a creation (`conversations/lifecycle/creation.rs:531`)
  removes the Run after its transaction is gone, and `status.json` keeps counting it
  (`SyncFails` in `Conversation`).
- The context manifest can survive a failure of the machine without the deltas before
  its message (`conversations/event_persistence.rs:211`), after which Resume stops.
- An empty marker of a scratch directory makes every later command of the Conversation
  fail (`conversations/history_index/scratch.rs:157`); `SweptLater` leaves that one
  crash point out.
- A second start of a tool call id that still runs replaces the first, whose item never
  ends (MH `pi.rs:265`); `ItemsSettle` excepts the item whose place was taken, and no
  other.
- When another Git shifts the stash list between the listing and a drop by place, the
  wrong stash is dropped, and `git stash store` may then fail to put it back (MH
  `diff/stash.rs:344`). `NothingLost` excepts that stash; the windows alone never get there.
- The start of a turn resets `stopping` (MH `session/supervisor.rs:285`), so a dialog
  that arrives after an early abort stays open.
- The name files under `running/` (MH `checkout.rs:118`) are made and listed beside each
  other; they are not modelled, and the locks do not depend on them.

## Not modelled

- In general: wording, logging, layout, name and size checks, directory identities,
  the contents of messages.
- `ProductiveRun`: the values between Phases, nested Phases and loops (a Flow is a
  number of Phases and turns).
- `FixturePlan`: values (which iteration ends a loop, which transition is taken are
  inputs); the limits on iterations and invocations are one bound on events; torn
  tails are in `EventWriter`. A Fixture session killed inside a failure transition,
  with an empty log, or with a quiet Tool in flight can never be resumed.
- `Executor`: the sandbox policy, the macOS backend, the boot of the launcher, and the
  client's one second of draining after the exit. A TERM that reaches the companion
  before it listens is lost (`client.lost`) and excepted in `EvidenceKept`.
- `AgentSession`: malformed and oversized records, a Session dropped without a stop.
- `Checkouts`: a start that waits on a lock of a worktree removed meanwhile locks an
  unlinked file; the processes of a crashed host are taken to end with it; an agent
  that runs `git init` itself is left out, and would violate `Exclusion`.
  The files that name the running sessions, and the list made of them, are left out.
- `Transfers`: the remote URL is fixed during a push; a delayed POST and a retry with
  another base could open two pull requests; texts and read-only lookups are left out. `Snapshots`: writes
  by others inside one restore.
- `SessionHistory`: entries are parsed, trees have no cycles, costs are left out.
- `Workspace`: a failed commit stores nothing; one device; filters, sorts and
  `page_editor.dart` are left out.
- `Segments`: the inotify watch. A torn event line makes the stream one that cannot be
  opened. `Objects`: a crash inside a write in the Run's store leaves a cut object that
  Resume rejects (`conversations/run_objects.rs:300`).
- `HistoryIndex`: the budgets of work and of scratch space, which grow with the number
  of entries.
- `Scratch`: a lock on a lease just created is taken not to fail. `Selection`: alias
  checks and the creation of the parent directory; a configuration replaced while a Run
  opens it makes the Run stop. `Authoring`: a create whose settled check ran before an
  init began is excepted. `Registry`: a Flow created while the files are listed may be
  reported as a missing reference. `FlowValues`: limits on nodes and bytes.
- `ToolProcess` models `unix_process.rs`, which is compiled for tests and the budget
  evidence only.
- Policy artifacts, wire types, argument parsing and output, the Flutter widgets, the
  pi extension, generated bridge code, scripts and the installer have no protocol of
  their own.

---------------------------- MODULE ProductiveRun ----------------------------
(***************************************************************************)
(* One productive Run of Flow Agent: its Run Log, recovery snapshot, Event *)
(* and context streams and history entry, the process that executes its    *)
(* Flow, crashes of that process, and exact Resume, which re-executes the  *)
(* Flow over what the crashed one left.  The first execution is the same   *)
(* code over an empty snapshot.                                            *)
(*                                                                         *)
(* The Flow is one sequence of Phases of provider turns; a turn answers    *)
(* "done", asks for one "tool" call, or answers what the Phase's contract  *)
(* rejects ("bad").  A section under a bounded commit permit that writes   *)
(* once is one step: Cancellation has the permits in full.                 *)
(***************************************************************************)
EXTENDS Coordinator, Integers, Sequences, FiniteSets

CONSTANTS
  Phases,         \* number of Phases of the Flow
  MaxTurns,       \* bound on the provider turns of one Run
  MaxCrashes,     \* bound on crashes of the process
  MaxInterrupts,  \* bound on Ctrl-C
  PowerLoss,      \* a crash may also lose what was not synchronized
  Reconciles      \* flow reconcile-tool may be used

ASSUME BoundsAssumption ==
  /\ Phases \in Nat \ {0} /\ MaxTurns \in Nat /\ MaxTurns >= Phases
  /\ MaxCrashes \in Nat /\ MaxInterrupts \in Nat
  /\ PowerLoss \in BOOLEAN /\ Reconciles \in BOOLEAN

VARIABLES
  intents,     \* attempts with a durable intent in run-log.jsonl
  results,     \* terminal results in run-log.jsonl, "none" without one
  recovery,    \* records of recovery.jsonl after its header
  events,      \* the Event stream
  synced,      \* length of its synchronized prefix
  contexts,    \* number of context manifests, always synchronized
  history,     \* the Run's entry in history.jsonl
  proc,        \* memory of the executing process
  guard,       \* the permit it holds
  dispatched,  \* how often each attempt reached the outside
  crashes, interrupts

disk == <<intents, results, recovery, events, synced, contexts, history>>
bounds == <<crashes, interrupts>>
vars == <<coordinator, disk, proc, guard, dispatched, bounds>>

Attempts == {"provider", "tool"} \X (1..MaxTurns)
Answers == {"tool", "done", "bad"}
ProviderOutcomes == Answers \cup {"failed", "cancelled"}
ToolOutcomes == {"ok", "exit", "code", "preflight", "cancelled"}
Errors == {"none", "cancelled", "provider_error", "runtime_error"}

\* Attempts whose outcome is unknown: an intent without a terminal result.
Uncertain == {a \in intents : results[a] = "none"}
Completed == {a \in intents : results[a] # "none"}

Messages(log) == Cardinality({i \in DOMAIN log : log[i][1] = "message.completed"})

Terminal(log) == log # <<>> /\ log[Len(log)][1] = "terminal"

NoProcess ==
  [pc |-> "down", phase |-> 0, turns |-> 0, tools |-> 0, cur |-> <<"provider", 1>>,
   outcome |-> "none", error |-> "none", emitted |-> 0,
   records |-> 0, recorded |-> 0, completed |-> {}, consumed |-> {},
   prefix |-> 0, manifests |-> 0, manifest |-> 0,
   recovery_failed |-> FALSE, event_commit_failed |-> FALSE]

TypeOK ==
  /\ CoordinatorTypeOK
  /\ intents \subseteq Attempts
  /\ results \in [Attempts -> ProviderOutcomes \cup ToolOutcomes \cup {"none"}]
  /\ synced \in 0..Len(events) /\ contexts \in 0..MaxTurns
  /\ history \in {"none", "completed", "failed"}
  /\ DOMAIN proc = DOMAIN NoProcess /\ proc.error \in Errors
  /\ proc.emitted \in 0..Len(events) /\ proc.recorded \in 0..proc.records
  /\ guard \in Permits \cup {"none"}
  /\ dispatched \in [Attempts -> Nat]
  /\ crashes \in 0..MaxCrashes /\ interrupts \in 0..MaxInterrupts

Init ==
  /\ CoordinatorInit
  /\ intents = {} /\ results = [a \in Attempts |-> "none"]
  /\ recovery = <<>> /\ events = <<>> /\ synced = 0 /\ contexts = 0
  /\ history = "none"
  /\ proc = NoProcess /\ guard = "none"
  /\ dispatched = [a \in Attempts |-> 0]
  /\ crashes = 0 /\ interrupts = 0

At(pc) == proc.pc = pc
Goto(pc) == proc' = [proc EXCEPT !.pc = pc]

\* An error of the Flow: Phase, Flow and Session fail in turn.  `open` says
\* that the current Phase was entered and not completed.
Fail(error, open) ==
  proc' = [proc EXCEPT !.pc = IF open THEN "phase.failed" ELSE "error", !.error = error]

------------------------------------------------------------------------------
(* The writers a process holds. *)

\* ConversationEventWriter::finish and reserve_productive_dispatch refuse
\* while part of the committed prefix has not been replayed.
PrefixReplayed == proc.emitted >= proc.prefix /\ proc.manifest >= proc.manifests

\* An Event that diverges from the prefix closes the writer: nothing more is
\* written and no Session outcome is recorded.
EventDiverges ==
  /\ proc' = [proc EXCEPT !.event_commit_failed = TRUE,
                          !.pc = IF @ \in {"start", "terminal.event"} THEN "finish" ELSE "claim"]
  /\ UNCHANGED <<events, synced, contexts>>

is_event_sync_checkpoint(e) ==
  e[1] \in {"message.completed", "tool.completed", "tool.failed",
            "session.completed", "session.failed"}

\* Mutant: replay consumes the Event without its context manifest.
Committed_keeps_manifest(next, manifest) ==
  proc' = [proc EXCEPT !.pc = next, !.emitted = @ + 1]

Committed(next, manifest) ==
  proc' = [proc EXCEPT !.pc = next, !.emitted = @ + 1, !.manifest = @ + manifest]

\* Mutant: a batch counts as written although the append was refused.
AppendEvent_dropped(e) == UNCHANGED <<events, synced>>

AppendEvent(e) ==
  /\ events' = Append(events, e)
  /\ synced' = IF is_event_sync_checkpoint(e) THEN Len(events) + 1 ELSE synced

\* emit_and_commit: an identical record of the prefix is consumed; one context
\* manifest without its message.completed is completed; anything else is
\* appended, a message.completed after its manifest.
Emit(e, next) ==
  LET message == e[1] = "message.completed"
      manifest == IF message THEN 1 ELSE 0
  IN CASE proc.emitted < proc.prefix ->
            IF events[proc.emitted + 1] = e /\ (message => proc.manifest < proc.manifests)
            THEN Committed(next, manifest) /\ UNCHANGED <<events, synced, contexts>>
            ELSE EventDiverges
       [] proc.emitted >= proc.prefix /\ proc.manifest < proc.manifests ->
            IF message /\ proc.manifest + 1 = proc.manifests
            THEN AppendEvent(e) /\ Committed(next, 1) /\ UNCHANGED contexts
            ELSE EventDiverges
       [] PrefixReplayed ->
            IF message /\ contexts = Messages(events)
            THEN contexts' = contexts + 1 /\ UNCHANGED <<proc, events, synced>>
            ELSE AppendEvent(e) /\ Committed(next, manifest) /\ UNCHANGED contexts

\* The recovery snapshot refuses: the Run keeps what it has and ends without
\* a Session outcome.
RecoveryDiverges ==
  /\ proc' = [proc EXCEPT !.recovery_failed = TRUE,
                          !.pc = IF @ = "terminal" THEN "finish" ELSE "claim"]
  /\ UNCHANGED recovery

Replaying == proc.recorded < proc.records
ensure_live_append == ~Replaying /\ ~Terminal(recovery)
ensure_completed_attempts_consumed == proc.completed = proc.consumed

\* phase_boundary, transition_boundary, flow_boundary.
Boundary(record, next) ==
  CASE Replaying ->
         IF recovery[proc.recorded + 1] = record
         THEN /\ proc' = [proc EXCEPT !.pc = next, !.recorded = @ + 1]
              /\ UNCHANGED recovery
         ELSE RecoveryDiverges
    [] ~Replaying ->
         IF ensure_live_append
         THEN recovery' = Append(recovery, record) /\ Goto(next)
         ELSE RecoveryDiverges

\* The attempt counters of ProductiveContext.
Began(p, a) ==
  [p EXCEPT !.cur = a,
            !.turns = IF a[1] = "provider" THEN a[2] ELSE @,
            !.tools = IF a[1] = "tool" THEN a[2] ELSE @]

\* What a process does with the outcome of a provider attempt.
ProviderOutcome(outcome) ==
  CASE outcome = "cancelled" ->
         [proc EXCEPT !.pc = "phase.failed", !.error = "cancelled"]
    [] outcome = "failed" ->
         [proc EXCEPT !.pc = "phase.failed", !.error = "provider_error"]
    [] outcome \in Answers ->
         [proc EXCEPT !.pc = "message", !.outcome = outcome]

\* A Tool attempt that was rejected before Start replays without Events.
ToolOutcome(outcome) ==
  IF outcome = "preflight"
  THEN [proc EXCEPT !.pc = "phase.failed", !.error = "runtime_error"]
  ELSE [proc EXCEPT !.pc = "tool.restarted", !.outcome = outcome]

\* An old attempt is consumed with its outcome.
Consume(a, outcome) ==
  [Began(IF a[1] = "provider" THEN ProviderOutcome(outcome) ELSE ToolOutcome(outcome), a)
     EXCEPT !.consumed = @ \cup {a}]

\* recover_attempt: a recorded attempt is consumed; a completed one that was
\* not recorded is promoted; otherwise the attempt is new and goes to `new`.
recover_attempt(a, new) ==
  CASE Replaying ->
         LET record == recovery[proc.recorded + 1]
         IN IF /\ record[1] = "attempt" /\ record[2] = a
               /\ a \in proc.completed /\ results[a] = record[3]
            THEN /\ proc' = [Consume(a, record[3]) EXCEPT !.recorded = @ + 1]
                 /\ UNCHANGED recovery
            ELSE RecoveryDiverges
    [] ~Replaying /\ a \in proc.completed ->
         IF Terminal(recovery)
         THEN RecoveryDiverges
         ELSE /\ proc' = Consume(a, results[a])
              /\ recovery' = Append(recovery, <<"attempt", a, results[a]>>)
    [] ~Replaying /\ a \notin proc.completed ->
         IF ensure_live_append /\ ensure_completed_attempts_consumed
         THEN proc' = [Began(proc, a) EXCEPT !.pc = new] /\ UNCHANGED recovery
         ELSE RecoveryDiverges

\* Steps that change only the process, the streams, or the snapshot.
Local == UNCHANGED <<coordinator, disk, guard, dispatched, bounds>>
EmitStep(e, next) ==
  /\ Emit(e, next)
  /\ UNCHANGED <<coordinator, intents, results, recovery, history, guard, dispatched, bounds>>
SnapshotOnly ==
  UNCHANGED <<coordinator, intents, results, events, synced, contexts, history, guard,
              dispatched, bounds>>

------------------------------------------------------------------------------
(* The process: opening the Run, Phases and boundaries. *)

\* Mutant: exact Resume does not look for uncertain attempts.
Open_uncertain ==
  /\ At("down") /\ history = "none"
  /\ begin
  /\ proc' = [NoProcess EXCEPT !.pc = "start", !.records = Len(recovery),
                               !.completed = Completed, !.prefix = Len(events),
                               !.manifests = contexts]
  /\ UNCHANGED <<disk, guard, dispatched, bounds>>

\* First execution, or exact Resume: refused for a Run that is in the history
\* or has an uncertain attempt.
Open ==
  /\ At("down") /\ history = "none" /\ Uncertain = {}
  /\ begin
  /\ proc' = [NoProcess EXCEPT !.pc = "start", !.records = Len(recovery),
                               !.completed = Completed, !.prefix = Len(events),
                               !.manifests = contexts]
  /\ UNCHANGED <<disk, guard, dispatched, bounds>>

SessionStarted == At("start") /\ EmitStep(<<"session.started">>, "flow")

FlowStarted ==
  /\ At("flow")
  /\ EmitStep(<<"flow.started">>, "phase")

\* phase counts the completed Phases.
PhaseEntered == At("phase") /\ EmitStep(<<"phase.entered", proc.phase + 1>>, "turn")

\* A boundary under a commit permit: refused once Ctrl-C was answered.
PhaseBoundary ==
  /\ At("phase.boundary")
  /\ IF claim_allowed
     THEN Boundary(<<"phase", proc.phase + 1>>, "phase.completed") /\ SnapshotOnly
     ELSE Fail("cancelled", TRUE) /\ Local

PhaseCompleted ==
  /\ At("phase.completed")
  /\ IF claim_allowed
     THEN EmitStep(<<"phase.completed", proc.phase + 1>>, "transition")
     ELSE Fail("cancelled", TRUE) /\ Local

TransitionBoundary ==
  /\ At("transition")
  /\ IF claim_allowed
     THEN Boundary(<<"transition", proc.phase + 1>>, "transition.ensure") /\ SnapshotOnly
     ELSE Fail("cancelled", FALSE) /\ Local

TransitionEnsure ==
  /\ At("transition.ensure")
  /\ IF effect_dispatch_allowed
     THEN proc' = [proc EXCEPT !.phase = @ + 1,
                               !.pc = IF proc.phase + 1 < Phases THEN "phase" ELSE "flow.boundary"]
     ELSE Fail("cancelled", FALSE)
  /\ Local

FlowBoundary ==
  /\ At("flow.boundary")
  /\ IF claim_allowed
     THEN Boundary(<<"flow">>, "flow.completed") /\ SnapshotOnly
     ELSE Fail("cancelled", FALSE) /\ Local

FlowCompleted ==
  /\ At("flow.completed")
  /\ IF claim_allowed
     THEN EmitStep(<<"flow.completed">>, "claim")
     ELSE Fail("cancelled", FALSE) /\ Local

PhaseFailed ==
  At("phase.failed") /\ EmitStep(<<"phase.failed", proc.phase + 1, proc.error>>, "error")

ErrorEvent == At("error") /\ EmitStep(<<"error", proc.error>>, "flow.failed")

FlowFailed == At("flow.failed") /\ EmitStep(<<"flow.failed", proc.error>>, "claim")

------------------------------------------------------------------------------
(* Provider turns. *)

ProviderTurn ==
  /\ At("turn") /\ proc.turns < MaxTurns
  /\ IF effect_dispatch_allowed
     THEN /\ recover_attempt(<<"provider", proc.turns + 1>>, "provider.intent")
          /\ SnapshotOnly
     ELSE Fail("cancelled", TRUE) /\ Local

\* Mutant: the attempt goes on although its intent was not appended.
WriteIntent_unwritten(next) ==
  /\ IF effect_dispatch_allowed THEN Goto(next) ELSE Fail("cancelled", TRUE)
  /\ UNCHANGED intents

\* The intent is durable before the attempt can reach the outside.
WriteIntent(next) ==
  CASE ~effect_dispatch_allowed -> Fail("cancelled", TRUE) /\ UNCHANGED intents
    [] effect_dispatch_allowed /\ ~PrefixReplayed ->
         /\ proc' = [proc EXCEPT !.event_commit_failed = TRUE, !.pc = "claim"]
         /\ UNCHANGED intents
    [] effect_dispatch_allowed /\ PrefixReplayed ->
         Goto(next) /\ intents' = intents \cup {proc.cur}

AttemptIntent ==
  /\ \/ At("provider.intent") /\ WriteIntent("provider.claim")
     \/ At("tool.intent") /\ WriteIntent("tool.preflight")
  /\ UNCHANGED <<coordinator, results, recovery, events, synced, contexts, history, guard,
                 dispatched, bounds>>

Persist(outcome, next) == proc' = [proc EXCEPT !.outcome = outcome, !.pc = next]

ProviderDispatch ==
  /\ At("provider.claim")
  /\ claim_operation("Dispatching")
  /\ IF claim_allowed
     THEN /\ guard' = "Dispatching"
          /\ dispatched' = [dispatched EXCEPT ![proc.cur] = @ + 1]
          /\ Goto("provider.flight")
     ELSE /\ Persist("cancelled", "attempt.terminal")
          /\ UNCHANGED <<guard, dispatched>>
  /\ UNCHANGED <<disk, bounds>>

\* The bound: a Tool call needs another turn, and so does each Phase to come.
TurnsRemain == proc.turns + Phases - proc.phase <= MaxTurns

\* The provider answers, fails definitively, is cut off, or notices Ctrl-C.
ProviderReturns ==
  /\ At("provider.flight")
  /\ release_operation("Dispatching")
  /\ guard' = "none"
  /\ \E answer \in Answers \cup {"failed", "lost"} \cup (IF cancelled THEN {"cancelled"} ELSE {}) :
       /\ answer = "tool" => TurnsRemain
       /\ Persist(answer, "provider.returned")
  /\ UNCHANGED <<disk, dispatched, bounds>>

\* An answer is kept unless Ctrl-C came first; a definitive failure claims the
\* Session's outcome; an attempt that was cut off stays uncertain.
ProviderReturned ==
  /\ At("provider.returned")
  /\ CASE ~effect_dispatch_allowed ->
            Persist("cancelled", "attempt.terminal") /\ UNCHANGED coordinator
       [] effect_dispatch_allowed /\ proc.outcome = "failed" ->
            claim_terminal /\ Goto("attempt.terminal")
       [] effect_dispatch_allowed /\ proc.outcome = "lost" ->
            Fail("runtime_error", TRUE) /\ UNCHANGED coordinator
       [] effect_dispatch_allowed /\ proc.outcome \in Answers ->
            Goto("attempt.commit") /\ UNCHANGED coordinator
  /\ UNCHANGED <<disk, guard, dispatched, bounds>>

\* The commit permit orders the result and its recovery record against Ctrl-C:
\* a success that loses is recorded as cancelled.
AttemptCommit ==
  /\ At("attempt.commit")
  /\ claim_operation("CommittingDurableState")
  /\ IF claim_allowed
     THEN guard' = "CommittingDurableState" /\ Goto("attempt.terminal")
     ELSE /\ Persist(IF proc.outcome \in Answers \cup {"ok"} THEN "cancelled" ELSE proc.outcome,
                     "attempt.terminal")
          /\ UNCHANGED guard
  /\ UNCHANGED <<disk, dispatched, bounds>>

\* What a process does after it has recorded an attempt of its own.
Recorded ==
  CASE proc.cur[1] = "tool" ->
         IF proc.outcome = "preflight"
         THEN [proc EXCEPT !.pc = "phase.failed", !.error = "runtime_error"]
         ELSE [proc EXCEPT !.pc = "tool.end"]
    [] proc.cur[1] = "provider" ->
         IF proc.outcome \in Answers /\ cancelled
         THEN ProviderOutcome("cancelled")
         ELSE ProviderOutcome(proc.outcome)

\* Mutant: the result is not copied to the recovery snapshot.
AttemptTerminal_unrecorded ==
  /\ At("attempt.terminal")
  /\ results' = [results EXCEPT ![proc.cur] = proc.outcome]
  /\ proc' = Recorded
  /\ UNCHANGED <<coordinator, intents, recovery, events, synced, contexts, history, guard,
                 dispatched, bounds>>

AttemptTerminal ==
  /\ At("attempt.terminal")
  /\ results' = [results EXCEPT ![proc.cur] = proc.outcome]
  /\ Goto("attempt.record")
  /\ UNCHANGED <<coordinator, intents, recovery, events, synced, contexts, history, guard,
                 dispatched, bounds>>

AttemptRecord ==
  /\ At("attempt.record")
  /\ IF ensure_live_append
     THEN /\ recovery' = Append(recovery, <<"attempt", proc.cur, proc.outcome>>)
          /\ proc' = Recorded
     ELSE RecoveryDiverges
  /\ IF guard = "none"
     THEN UNCHANGED <<coordinator, guard>>
     ELSE release_operation(guard) /\ guard' = "none"
  /\ UNCHANGED <<intents, results, events, synced, contexts, history, dispatched, bounds>>

MessageDelta ==
  At("message") /\ EmitStep(<<"message.delta", proc.turns, proc.outcome>>, "message.completed")

MessageCompleted ==
  At("message.completed") /\ EmitStep(<<"message.completed", proc.turns>>, "turn.end")

TurnEnd ==
  /\ At("turn.end")
  /\ IF effect_dispatch_allowed
     THEN CASE proc.outcome = "done" -> Goto("phase.boundary")
            [] proc.outcome = "bad" -> Fail("runtime_error", TRUE)
            [] proc.outcome = "tool" -> Goto("tool")
     ELSE Fail("cancelled", TRUE)
  /\ Local

------------------------------------------------------------------------------
(* Tool calls. *)

ToolCall ==
  /\ At("tool") /\ proc.tools < MaxTurns
  /\ recover_attempt(<<"tool", proc.tools + 1>>, "tool.intent")
  /\ SnapshotOnly

ToolStartedAgain == At("tool.restarted") /\ EmitStep(<<"tool.started", proc.tools>>, "tool.end")

\* Preflight launches the waiting Executor under a dispatch permit; the Tool
\* itself does not run before Start.
ToolPreflight ==
  /\ At("tool.preflight")
  /\ claim_operation("Dispatching")
  /\ IF claim_allowed
     THEN guard' = "Dispatching" /\ Goto("tool.preflighting")
     ELSE Fail("cancelled", TRUE) /\ UNCHANGED guard
  /\ UNCHANGED <<disk, dispatched, bounds>>

ToolPreflightReturns ==
  /\ At("tool.preflighting")
  /\ release_operation("Dispatching")
  /\ guard' = "none"
  /\ \/ Goto("tool.started")
     \/ Persist("preflight", "attempt.commit")
     \/ cancelled /\ Fail("cancelled", TRUE)
     \/ Fail("runtime_error", TRUE)
  /\ UNCHANGED <<disk, dispatched, bounds>>

ToolStarted ==
  /\ At("tool.started")
  /\ IF effect_dispatch_allowed
     THEN EmitStep(<<"tool.started", proc.tools>>, "tool.claim")
     ELSE Fail("cancelled", TRUE) /\ Local

ToolStart ==
  /\ At("tool.claim")
  /\ claim_operation("Dispatching")
  /\ IF claim_allowed
     THEN /\ guard' = "Dispatching"
          /\ dispatched' = [dispatched EXCEPT ![proc.cur] = @ + 1]
          /\ Goto("tool.flight")
     ELSE /\ Persist("cancelled", "attempt.terminal")
          /\ UNCHANGED <<guard, dispatched>>
  /\ UNCHANGED <<disk, bounds>>

\* The Executor reports an exit, an error code, or nothing that can be trusted.
\* A success after Ctrl-C is marked as cancelled.
ToolReturns ==
  /\ At("tool.flight")
  /\ release_operation("Dispatching")
  /\ guard' = "none"
  /\ \/ \E outcome \in {"ok", "exit", "code"} :
          Persist(IF outcome = "ok" /\ cancelled THEN "cancelled" ELSE outcome, "attempt.commit")
     \/ cancelled /\ Persist("cancelled", "attempt.terminal")
     \/ Goto("tool.lost")
  /\ UNCHANGED <<disk, dispatched, bounds>>

ToolLost == At("tool.lost") /\ EmitStep(<<"tool.failed", proc.tools, "runtime_error">>, "tool.lost.end")

ToolLostEnd == At("tool.lost.end") /\ Fail("runtime_error", TRUE) /\ Local

ToolEnd ==
  /\ At("tool.end")
  /\ IF proc.outcome = "ok"
     THEN EmitStep(<<"tool.completed", proc.tools>>, "turn")
     ELSE EmitStep(<<"tool.failed", proc.tools, proc.outcome>>, "tool.ended")

ToolEnded ==
  /\ At("tool.ended")
  /\ Fail(IF proc.outcome = "cancelled" THEN "cancelled" ELSE "runtime_error", TRUE)
  /\ Local

------------------------------------------------------------------------------
(* The end of an execution. *)

\* The claim decides; a Flow whose writers diverged records no outcome.
ClaimTerminal ==
  /\ At("claim")
  /\ claim_terminal
  /\ proc' = [proc EXCEPT
       !.error = IF terminal_claim = "Cancellation" THEN "cancelled" ELSE @,
       !.pc = IF proc.recovery_failed \/ proc.event_commit_failed THEN "finish" ELSE "terminal"]
  /\ UNCHANGED <<disk, guard, dispatched, bounds>>

\* terminal_boundary: the record binds the outcome and the Event count, and
\* is refused while completed attempts have not been replayed.
TerminalBoundary ==
  /\ At("terminal")
  /\ IF ensure_completed_attempts_consumed
     THEN Boundary(<<"terminal", proc.error # "none", proc.emitted + 1>>, "terminal.event")
     ELSE RecoveryDiverges
  /\ SnapshotOnly

SessionEnded ==
  /\ At("terminal.event")
  /\ EmitStep(IF proc.error = "none" THEN <<"session.completed">>
                                     ELSE <<"session.failed", proc.error>>, "finish")

\* Mutant: only the process that wrote the terminal record adds the entry.
FinishRun_once ==
  /\ At("finish")
  /\ synced' = Len(events)
  /\ history' = IF /\ ~proc.recovery_failed /\ ~proc.event_commit_failed
                   /\ PrefixReplayed /\ Terminal(recovery) /\ proc.records < Len(recovery)
                THEN IF proc.error = "none" THEN "completed" ELSE "failed"
                ELSE history
  /\ Goto("return")
  /\ UNCHANGED <<coordinator, intents, results, recovery, events, contexts, guard, dispatched,
                 bounds>>

\* Mutant: a terminal snapshot is enough for the entry.
FinishRun_hasty ==
  /\ At("finish")
  /\ synced' = Len(events)
  /\ history' = IF Terminal(recovery)
                THEN IF recovery[Len(recovery)][2] THEN "failed" ELSE "completed"
                ELSE history
  /\ Goto("return")
  /\ UNCHANGED <<coordinator, intents, results, recovery, events, contexts, guard, dispatched,
                 bounds>>

\* writer.finish and the history entry, which binds the terminal snapshot.
FinishRun ==
  /\ At("finish")
  /\ synced' = Len(events)
  /\ history' = IF /\ ~proc.recovery_failed /\ ~proc.event_commit_failed
                   /\ PrefixReplayed /\ Terminal(recovery)
                THEN IF proc.error = "none" THEN "completed" ELSE "failed"
                ELSE history
  /\ Goto("return")
  /\ UNCHANGED <<coordinator, intents, results, recovery, events, contexts, guard, dispatched,
                 bounds>>

Return ==
  /\ At("return")
  /\ settle
  /\ proc' = NoProcess
  /\ UNCHANGED <<disk, guard, dispatched, bounds>>

------------------------------------------------------------------------------
(* Crashes, Ctrl-C and reconciliation. *)

\* How many Events are left: deltas still in the writer's batch are lost with
\* the process, and a power loss may lose all that was not synchronized.
Surviving(power) ==
  {n \in synced..Len(events) :
     \/ n = Len(events) \/ power
     \/ /\ n = Len(events) - 1 /\ events[Len(events)][1] = "message.delta"
        /\ contexts = Messages(events)}

ProcessEnds(power) ==
  /\ proc' = NoProcess /\ guard' = "none"
  /\ state' = "Idle" /\ cancelled' = FALSE /\ deferred_interrupt' = FALSE
  /\ \E n \in Surviving(power) : events' = SubSeq(events, 1, n)
  /\ UNCHANGED <<intents, results, recovery, synced, contexts, history, dispatched>>

Crash ==
  /\ proc.pc # "down" /\ crashes < MaxCrashes
  /\ crashes' = crashes + 1
  /\ ProcessEnds(PowerLoss)
  /\ UNCHANGED interrupts

\* Ctrl-C; one that is answered with Exit ends the process where it is.
Interrupt ==
  /\ proc.pc # "down" /\ interrupts < MaxInterrupts
  /\ interrupts' = interrupts + 1
  /\ IF interrupt_action = "Exit"
     THEN ProcessEnds(FALSE)
     ELSE interrupt /\ UNCHANGED <<disk, proc, guard, dispatched>>
  /\ UNCHANGED crashes

\* Mutant: a completed Tool attempt can be reconciled as well.
Reconcile_rewrites ==
  /\ At("down") /\ Reconciles
  /\ \E a \in intents :
       /\ a[1] = "tool"
       /\ \E outcome \in {"ok", "exit", "cancelled"} :
            results' = [results EXCEPT ![a] = outcome]
  /\ UNCHANGED <<coordinator, intents, recovery, events, synced, contexts, history, proc, guard,
                 dispatched, bounds>>

\* flow reconcile-tool settles the only uncertain Tool attempt from external
\* evidence, without the Run being executed.
Reconcile ==
  /\ At("down") /\ Reconciles
  /\ \E a \in Uncertain :
       /\ {b \in Uncertain : b[1] = "tool"} = {a}
       /\ \E outcome \in {"ok", "exit", "cancelled"} :
            results' = [results EXCEPT ![a] = outcome]
  /\ UNCHANGED <<coordinator, intents, recovery, events, synced, contexts, history, proc, guard,
                 dispatched, bounds>>

Execute ==
  \/ SessionStarted \/ FlowStarted \/ PhaseEntered \/ PhaseBoundary \/ PhaseCompleted
  \/ TransitionBoundary \/ TransitionEnsure \/ FlowBoundary \/ FlowCompleted
  \/ PhaseFailed \/ ErrorEvent \/ FlowFailed
  \/ ProviderTurn \/ AttemptIntent \/ ProviderDispatch \/ ProviderReturns \/ ProviderReturned
  \/ AttemptCommit \/ AttemptTerminal \/ AttemptRecord
  \/ MessageDelta \/ MessageCompleted \/ TurnEnd
  \/ ToolCall \/ ToolStartedAgain \/ ToolPreflight \/ ToolPreflightReturns \/ ToolStarted
  \/ ToolStart \/ ToolReturns \/ ToolLost \/ ToolLostEnd \/ ToolEnd \/ ToolEnded
  \/ ClaimTerminal \/ TerminalBoundary \/ SessionEnded \/ FinishRun \/ Return

Next == Open \/ Execute \/ Crash \/ Interrupt \/ Reconcile

Spec == Init /\ [][Next]_vars

\* A Resume is eventually asked for, and a process that is neither killed nor
\* waiting for the outside forever runs on.
FairSpec == Spec /\ WF_vars(Open) /\ WF_vars(Execute)

------------------------------------------------------------------------------
(* Properties. *)

\* No attempt reaches the provider or the Tool twice, however often the Run is
\* crashed, cancelled, reconciled and resumed (recover_attempt and the
\* uncertainty check of exact Resume).
AtMostOnce == \A a \in Attempts : dispatched[a] <= 1

\* The log of attempts that the Run Log promises (AttemptOnce), whatever is
\* crashed, cancelled, reconciled and resumed.
AttemptLog ==
  INSTANCE AttemptOnce WITH
    attempt <- [a \in Attempts |->
                  IF results[a] # "none" THEN "settled"
                  ELSE IF dispatched[a] > 0 THEN "dispatched"
                  ELSE IF a \in intents THEN "intended"
                  ELSE "none"]

ImplementsAttemptOnce == AttemptLog!Spec

RecordedAttempts == {recovery[i][2] : i \in {j \in DOMAIN recovery : recovery[j][1] = "attempt"}}

\* The snapshot repeats the Run Log: every recorded attempt has the recorded
\* result, none is recorded twice, and at most one completed attempt waits to
\* be promoted (completed_recovery_attempts, promoted by recover_attempt).
SnapshotRepeatsRunLog ==
  /\ \A i, j \in DOMAIN recovery :
       /\ recovery[i][1] = "attempt" => results[recovery[i][2]] = recovery[i][3]
       /\ i # j => recovery[i] # recovery[j]
  /\ Cardinality(Completed \ RecordedAttempts) <= 1

\* The Event's cause in the recovery snapshot.
Cause(e) ==
  CASE e[1] = "message.delta" -> <<"attempt", <<"provider", e[2]>>, e[3]>>
    [] e[1] = "tool.completed" -> <<"attempt", <<"tool", e[2]>>, "ok">>
    [] e[1] = "phase.completed" -> <<"phase", e[2]>>
    [] e[1] = "flow.completed" -> <<"flow">>

\* No observer sees an Event before the snapshot holds what caused it: a crash
\* cannot take back an answer, a Tool result, a Phase or an end that was shown.
EventsFollowSnapshot ==
  \A i \in DOMAIN events :
    /\ events[i][1] \in {"message.delta", "tool.completed", "phase.completed", "flow.completed"}
         => \E j \in DOMAIN recovery : recovery[j] = Cause(events[i])
    /\ events[i][1] \in {"session.completed", "session.failed"}
         => /\ Terminal(recovery) /\ recovery[Len(recovery)][3] = i
            /\ recovery[Len(recovery)][2] = (events[i][1] = "session.failed")

\* A Run enters the history once its terminal record, its synchronized last
\* Event and its outcome agree (finalize_productive_run).
HistoryClosesRun ==
  history # "none" =>
    /\ Terminal(recovery)
    /\ recovery[Len(recovery)] = <<"terminal", history = "failed", Len(events)>>
    /\ events[Len(events)][1] = (IF history = "failed" THEN "session.failed" ELSE "session.completed")
    /\ synced = Len(events) /\ contexts = Messages(events)

\* The records of a Run agree, whatever is crashed, cancelled, reconciled and
\* resumed: the snapshot repeats the Run Log, no observer sees an Event before
\* the snapshot holds what caused it, and a Run enters the history once its
\* terminal record, its last Event and its outcome agree.
RecordsAgree == SnapshotRepeatsRunLog /\ EventsFollowSnapshot /\ HistoryClosesRun

\* Without Ctrl-C, reconciliation and machine failure, replay never meets a
\* difference: what a killed process left is a prefix of what the next does.
ReplayAgrees == ~proc.recovery_failed /\ ~proc.event_commit_failed

\* Wherever the process is killed, exact Resume brings the Run to its history
\* entry, unless an attempt was cut off and stays uncertain.
ResumeCompletes == <>[](At("down") /\ (history # "none" \/ Uncertain # {}))

\* PROTOCOL.md, recovery matrix: "Before terminal history append: Exact Resume
\* completes/validates the terminal Event and appends the missing v1 entry from
\* the terminal snapshot."  A process that found a terminal snapshot and was
\* not itself cancelled has put the Run in the history.
TerminalSnapshotCompletes ==
  At("return") /\ ~cancelled /\ proc.records > 0 /\ recovery[proc.records][1] = "terminal"
    => history # "none"

=============================================================================

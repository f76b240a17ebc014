---------------------------- MODULE FixturePlan ----------------------------
(***************************************************************************)
(* The Fixture runtime: a Flow is planned into the whole event stream it   *)
(* will leave (planning/execution.rs), every planned event and every       *)
(* failure that may replace the rest of the plan is checked by the session *)
(* lifecycle rules (validate/lifecycle.rs), and the plan is then applied:  *)
(* events are committed to the session log and Tool effects run between    *)
(* them (apply.rs).  Several Runs of one process share the global count of *)
(* live Flow invocations.  The process may crash, with or without the      *)
(* operating system, and a Run is resumed from its log (resume.rs).        *)
(*                                                                         *)
(* A value that a Phase produces is left out: `until` is the iteration     *)
(* whose result ends a Phase's loop (0: no loop) and `skip` how many       *)
(* Phases the Transition its result selects jumps over.  Which provider    *)
(* turn's context is too large for the model (0: none) is `oversized`.     *)
(***************************************************************************)
EXTENDS Integers, Sequences, FiniteSets, SequencesExt, FiniteSetsExt, TLC

CONSTANTS
  Flows,      \* the Flows they may run, by name
  Scenes,     \* what the process does: `flows`, which Runs it has and the Flow of
              \* each, and `crashes`, a bound on how often it crashes
  MaxEvents,  \* MAX_FLOW_EVENTS
  MaxLive,    \* MAX_LIVE_FLOW_INVOCATIONS
  Cuts        \* bound: how many of the crashes also lose what was not synced

VARIABLES
  plan,  \* the plans of the Flows that are run
  run,   \* per Run: its Flow, its log and the application of its plan
  live,  \* the process-wide count of live Flow invocations
  ran,   \* per Run and planned effect: how often the effect ran
  lost,  \* per Run and planned effect: power losses between it and its synced completion
  down   \* crashes and power losses still to come

vars == <<plan, run, live, ran, lost, down>>

Runs == DOMAIN run

-----------------------------------------------------------------------------
(* The lifecycle rules of a session stream.                                *)

Nobody == [flow |-> 0, parent |-> 0, def |-> 0]

Event(type, inv, about) == [type |-> type, inv |-> inv, about |-> about]

Plain(type, inv) == Event(type, inv, <<0, "">>)

Ends == {"session.completed", "session.failed"}

FlowEnds == {"flow.completed", "flow.failed"}

PhaseEnds == {"phase.completed", "phase.failed"}

ToolEnds == {"tool.completed", "tool.failed"}

Empty == [lines |-> 0, ended |-> FALSE, flows |-> << >>, closed |-> {},
          tools |-> {}, settled |-> {}, quiet |-> {}, messages |-> {}, said |-> {}]

Stack(life, flow) == IF flow \in DOMAIN life.flows THEN life.flows[flow].stack ELSE <<>>

Started(life, flow) == flow \in DOMAIN life.flows

Active(life, flow) == Started(life, flow) /\ life.flows[flow].open

\* lifecycle_tool_key: a Tool belongs to the innermost Phase of its Flow.
ToolKey(life, event) ==
  LET stack == Stack(life, event.inv.flow)
  IN  <<event.inv.flow, IF stack = <<>> THEN 0 ELSE Last(stack)[1], event.about[1]>>

LeafActive(life, flow) ==
  LET stack == Stack(life, flow) IN stack # <<>> /\ Last(stack)[2] = "leaf"

\* validate_terminal_session: nothing is open when the session ends.
NothingOpen(life) ==
  /\ \A f \in DOMAIN life.flows : ~life.flows[f].open /\ life.flows[f].stack = <<>>
  /\ life.tools = {} /\ life.messages = {}

\* The Flow around an event's Flow is active, and stays the same one.
validate_lifecycle_parent(life, event) ==
  /\ event.inv.parent # 0 => Active(life, event.inv.parent) /\ event.inv.parent # event.inv.flow
  /\ Started(life, event.inv.flow) => life.flows[event.inv.flow].inv.parent = event.inv.parent

\* A Flow ends as what it started, with no Phase or Flow open inside it.
FlowEndsWhole(life, event) ==
  /\ life.flows[event.inv.flow].inv.def = event.inv.def
  /\ Stack(life, event.inv.flow) = <<>>
  /\ \A f \in DOMAIN life.flows : life.flows[f].open => life.flows[f].inv.parent # event.inv.flow

\* Every execution of a Phase has an id of its own, and no Phase is inside a leaf.
PhaseEnters(life, event) ==
  LET stack == Stack(life, event.inv.flow)
  IN  /\ event.about[1] \notin life.closed
      /\ \A f \in DOMAIN life.flows : \A i \in DOMAIN life.flows[f].stack :
           life.flows[f].stack[i][1] # event.about[1]
      /\ stack # <<>> => Last(stack)[2] # "leaf"

\* Only the innermost Phase ends, with its Tools and messages.
PhaseLeaves(life, event) ==
  LET stack == Stack(life, event.inv.flow)
  IN  /\ event.about[1] \notin life.closed
      /\ stack # <<>> /\ Last(stack) = event.about
      /\ \A t \in life.tools : t[2] # event.about[1]
      /\ \A m \in life.messages : m[1] # event.inv.flow

ToolInOrder(life, event) ==
  LET tool == ToolKey(life, event)
      kind == event.type
  IN  /\ kind = "tool.started" => LeafActive(life, event.inv.flow) /\ tool \notin life.tools \cup life.settled
      /\ kind \in {"tool.progress", "tool.completed"} => tool \in life.tools
      /\ kind = "tool.failed" =>
           tool \notin life.settled /\ (Stack(life, event.inv.flow) # <<>> => tool \in life.tools)

\* validate_message_delta and validate_message_completed.
MessageInOrder(life, event) ==
  LET message == <<event.inv.flow, event.about[1]>>
  IN  /\ LeafActive(life, event.inv.flow) /\ message \notin life.said
      /\ event.type = "message.completed" => message \in life.messages

\* SessionLifecycleState::validate_event, below the stream rules of validate_event.
validate_event(life, event) ==
  LET kind == event.type
  IN  /\ kind # "flow.started" /\ event.inv.flow # 0 => Active(life, event.inv.flow)
      /\ validate_lifecycle_parent(life, event)
      /\ kind \in FlowEnds => FlowEndsWhole(life, event)
      /\ kind = "phase.entered" => PhaseEnters(life, event)
      /\ kind \in PhaseEnds => PhaseLeaves(life, event)
      /\ ToolInOrder(life, event)
      /\ kind \in {"message.delta", "message.completed"} => MessageInOrder(life, event)

\* SessionAppendValidationState::validate_event and validate_budget.
Accepts(life, sequence, event) ==
  /\ sequence = life.lines + 1 /\ sequence <= MaxEvents
  /\ ~life.ended
  /\ (sequence = 1) <=> (event.type = "session.started")
  /\ event.type = "flow.started" => event.inv.flow # 0 /\ ~Started(life, event.inv.flow)
  /\ validate_event(life, event)
  /\ event.type \in Ends => NothingOpen(life)

\* record_event of both validators.
record_event(life, event) ==
  LET flow == event.inv.flow
      tool == ToolKey(life, event)
      kind == event.type
      said == <<flow, event.about[1]>>
      flows == CASE kind = "flow.started" ->
                      (flow :> [inv |-> event.inv, open |-> TRUE, stack |-> <<>>]) @@ life.flows
                 [] kind \in FlowEnds -> [life.flows EXCEPT ![flow].open = FALSE]
                 [] kind = "phase.entered" ->
                      [life.flows EXCEPT ![flow].stack = Append(@, event.about)]
                 [] kind \in PhaseEnds -> [life.flows EXCEPT ![flow].stack = Front(@)]
                 [] OTHER -> life.flows
  IN  [lines    |-> life.lines + 1,
       ended    |-> kind \in Ends,
       flows    |-> flows,
       closed   |-> life.closed \cup {event.about[1] : k \in PhaseEnds \cap {kind}},
       tools    |-> (life.tools \cup {tool : k \in {"tool.started"} \cap {kind}})
                    \ {tool : k \in ToolEnds \cap {kind}},
       settled  |-> life.settled \cup {tool : k \in ToolEnds \cap {kind}},
       quiet    |-> (life.quiet \cup {tool : k \in {"tool.started"} \cap {kind}})
                    \ {tool : k \in (ToolEnds \cup {"tool.progress"}) \cap {kind}},
       messages |-> (life.messages \cup {said : k \in {"message.delta"} \cap {kind}})
                    \ {said : k \in {"message.completed"} \cap {kind}},
       said     |-> life.said \cup {said : k \in {"message.completed"} \cap {kind}}]

\* The state after a stream of [sequence, event], and whether all were accepted.
RECURSIVE Judge(_, _, _)
Judge(life, entries, i) ==
  IF i > Len(entries) THEN [ok |-> TRUE, life |-> life]
  ELSE IF ~Accepts(life, entries[i].sequence, entries[i].event) THEN [ok |-> FALSE, life |-> life]
  ELSE Judge(record_event(life, entries[i].event), entries, i + 1)

Numbered(life, events) ==
  [i \in DOMAIN events |-> [sequence |-> life.lines + i, event |-> events[i]]]

-----------------------------------------------------------------------------
(* What replaces the rest of a plan when a step of it fails.               *)

append_flow_failure_tail(boundaries) ==
  [i \in 1..Len(boundaries) |-> Plain("flow.failed", Reverse(boundaries)[i])]
  \o <<Plain("session.failed", Nobody)>>

\* Mutant: the enclosing Phases are failed outermost first.
fixture_failure_outermost(tool, phase, phases, inv, flows) ==
  <<Event("tool.failed", inv, tool), Event("phase.failed", inv, phase)>>
  \o [i \in 1..Len(phases) |-> Event("phase.failed", inv, phases[i])]
  \o <<Plain("error", inv), Plain("flow.failed", inv)>> \o append_flow_failure_tail(flows)

\* A Tool's effect failed: its Tool, its Phase, the Phases around it innermost
\* first, its Flow and the Flows around it fail, then the session.
fixture_failure_transition_events(tool, phase, phases, inv, flows) ==
  <<Event("tool.failed", inv, tool), Event("phase.failed", inv, phase)>>
  \o [i \in 1..Len(phases) |-> Event("phase.failed", inv, Reverse(phases)[i])]
  \o <<Plain("error", inv), Plain("flow.failed", inv)>> \o append_flow_failure_tail(flows)

\* No live invocation is left for a Flow: the Flows around it fail.
live_invocation_failure_transition_events(flows) ==
  <<Plain("error", IF flows = <<>> THEN Nobody ELSE Last(flows))>>
  \o append_flow_failure_tail(flows)

-----------------------------------------------------------------------------
(* The planner.  A step returns the builder and how it ended: an oversized *)
(* context is an error that only the Flow around it turns into events, and *)
(* ~ok is a protocol error, which ends planning.                           *)

Builder == [acts |-> <<>>, life |-> Empty, flows |-> 0, phases |-> 0, messages |-> 0, ok |-> TRUE]

emit_event(b, event) ==
  IF b.ok /\ Accepts(b.life, b.life.lines + 1, event)
  THEN [b EXCEPT !.acts = Append(@, [effect |-> FALSE, sequence |-> b.life.lines + 1,
                                     event |-> event, otherwise |-> <<>>]),
                 !.life = record_event(@, event)]
  ELSE [b EXCEPT !.ok = FALSE]

emit(b, type, inv, about) == emit_event(b, Event(type, inv, about))

Ended(b, out) == [b |-> b, out |-> out]

validate_alternative(b, events) == 
  [b EXCEPT !.ok = @ /\ Judge(b.life, Numbered(b.life, events), 1).ok]

emit_stub_provider_turn(b, inv) ==
  LET message == <<b.messages + 1, "">>
  IN  emit(emit([b EXCEPT !.messages = @ + 1], "message.delta", inv, message),
           "message.completed", inv, message)

\* Mutant: the replay guard is always the completion.
guard_of_completion(b, tool) == b.life.lines + 1 + (IF tool.progress THEN 1 ELSE 0)

\* The event whose presence in the log says that the effect ran.
replay_guard_sequence(b, tool) ==
  LET side_effect == b.life.lines + 1
      completed   == side_effect + (IF tool.progress THEN 1 ELSE 0)
  IN  IF tool.progress THEN side_effect ELSE completed

\* The effect of a Tool that has started: "failed" is one the sandbox profile denies.
PlannedEffect(started, about, tool, otherwise, inv) ==
  LET act == [effect |-> TRUE, sequence |-> replay_guard_sequence(started, tool),
              event |-> Event("tool.completed", inv, about), otherwise |-> otherwise]
      recorded == [validate_alternative(started, otherwise) EXCEPT !.acts = Append(@, act)]
      progress == IF tool.progress THEN emit(recorded, "tool.progress", inv, about) ELSE recorded
  IN  IF tool.denied THEN Ended(emit(started, "tool.failed", inv, about), "failed")
      ELSE Ended(emit(progress, "tool.completed", inv, about), "completed")

emit_planned_tool(b, id, tool, phase, phases, inv, flows) ==
  PlannedEffect(emit(b, "tool.started", inv, <<id, "">>), <<id, "">>, tool,
                fixture_failure_transition_events(<<id, "">>, phase, phases, inv, flows), inv)

\* The Tools a provider turn asks for, until one fails.
RECURSIVE emit_tools(_, _, _, _, _, _, _)
emit_tools(done, tools, id, phase, phases, inv, flows) ==
  IF ~done.b.ok \/ done.out = "failed" \/ id > Len(tools) THEN done
  ELSE emit_tools(emit_planned_tool(done.b, id, tools[id], phase, phases, inv, flows), tools, id + 1,
                  phase, phases, inv, flows)

\* A second turn, after the Tools.
emit_second_turn(called, leaf, inv) ==
  IF called.out = "failed" THEN called
  ELSE IF leaf.oversized = 2 THEN Ended(called.b, "oversized")
  ELSE Ended(emit_stub_provider_turn(called.b, inv), "completed")

\* The leaf half of emit_phase_iteration: a provider turn; if it asks for Tools,
\* the Tools and a second turn.
emit_leaf(b, leaf, phase, phases, inv, flows) ==
  LET first == Ended(emit_stub_provider_turn(b, inv), "completed")
  IN  IF leaf.outOfPhase THEN Ended(b, "failed")
      ELSE IF leaf.oversized = 1 THEN Ended(b, "oversized")
      ELSE IF leaf.tools = <<>> THEN first
      ELSE emit_second_turn(emit_tools(first, leaf.tools, 1, phase, phases, inv, flows), leaf, inv)

RECURSIVE emit_phase_sequence(_, _, _, _, _, _, _, _)
RECURSIVE emit_phase(_, _, _, _, _, _)
RECURSIVE emit_phase_end(_, _, _, _, _, _, _)

\* The Phase fails, completes, or completes and is repeated.
emit_phase_end(inner, about, phase, iteration, phases, inv, flows) ==
  LET repeat == phase.until # 0 /\ iteration < phase.until
      end    == emit(inner.b, "phase.completed", inv, about)
  IN  IF ~inner.b.ok \/ inner.out = "oversized" THEN inner
      ELSE IF inner.out = "failed" \/ (repeat /\ iteration = phase.max)
           THEN Ended(emit(inner.b, "phase.failed", inv, about), "failed")
      ELSE IF repeat THEN emit_phase(end, phase, iteration + 1, phases, inv, flows)
      ELSE Ended(end, "completed")

\* One Phase, from its given iteration on.
emit_phase(b, phase, iteration, phases, inv, flows) ==
  LET about   == <<b.phases + 1, phase.kind>>
      entered == emit([b EXCEPT !.phases = @ + 1], "phase.entered", inv, about)
  IN  emit_phase_end(IF phase.kind = "leaf" THEN emit_leaf(entered, phase, about, phases, inv, flows)
                     ELSE emit_phase_sequence(Ended(entered, "completed"), phase.phases, 1, phase.from,
                                              FALSE, Append(phases, about), inv, flows),
                     about, phase, iteration, phases, inv, flows)

\* PhaseSequenceState: `from` is the Phase whose result the composite returns
\* (0: the last one's); a Transition that skips it is a protocol error.
emit_phase_sequence(done, refs, i, from, chosen, phases, inv, flows) ==
  IF ~done.b.ok \/ done.out # "completed" THEN done
  ELSE IF i > Len(refs) THEN Ended([done.b EXCEPT !.ok = from # 0 => chosen], "completed")
  ELSE emit_phase_sequence(emit_phase(done.b, refs[i], 1, phases, inv, flows), refs,
                           i + 1 + refs[i].skip, from, chosen \/ from = i, phases, inv, flows)

\* complete_active_phase: the innermost active Phase of the Flow fails.
complete_active_phase(b, inv) ==
  LET stack == Stack(b.life, inv.flow)
  IN  IF stack = <<>> THEN b ELSE emit(b, "phase.failed", inv, Last(stack))

emit_runtime_error_failure(b, inv) ==
  emit(emit(complete_active_phase(b, inv), "error", inv, <<0, "">>), "flow.failed", inv, <<0, "">>)

RECURSIVE emit_flow_block(_, _, _, _)
RECURSIVE emit_subflows(_, _, _, _, _)

\* The Flow fails with its Phases, or goes on to its subflows.
emit_flow_end(body, flow, inv, flows) ==
  IF ~body.b.ok THEN body
  ELSE IF body.out = "failed"
       THEN Ended(emit(emit(body.b, "error", inv, <<0, "">>), "flow.failed", inv, <<0, "">>), "failed")
  ELSE IF body.out = "oversized" THEN Ended(emit_runtime_error_failure(body.b, inv), "oversized")
  ELSE emit_subflows(body, flow.subflows, 1, inv, Append(flows, inv))

emit_flow_block(b, flow, parent, flows) ==
  LET inv     == [flow |-> b.flows + 1, parent |-> parent, def |-> flow.id]
      checked == validate_alternative([b EXCEPT !.flows = @ + 1],
                                      live_invocation_failure_transition_events(flows))
      started == Ended(emit(checked, "flow.started", inv, <<0, "">>), "completed")
  IN  emit_flow_end(emit_phase_sequence(started, flow.phases, 1, 0, FALSE, <<>>, inv, flows),
                    flow, inv, flows)

emit_subflows(done, subflows, i, inv, flows) ==
  IF ~done.b.ok THEN done
  ELSE IF done.out # "completed" THEN Ended(emit(done.b, "flow.failed", inv, <<0, "">>), done.out)
  ELSE IF i > Len(subflows) THEN Ended(emit(done.b, "flow.completed", inv, <<0, "">>), "completed")
  ELSE emit_subflows(emit_flow_block(done.b, subflows[i], inv.flow, flows), subflows, i + 1, inv, flows)

\* compile_flow_plan.
compile_flow_plan(flow) ==
  LET done == emit_flow_block(emit(Builder, "session.started", Nobody, <<0, "">>), flow, 0, <<>>)
  IN  emit(done.b, IF done.out = "completed" THEN "session.completed" ELSE "session.failed",
           Nobody, <<0, "">>)

Plans(names) == [flow \in names |-> compile_flow_plan(Flows[flow])]

-----------------------------------------------------------------------------
(* Applying a plan.                                                        *)

Acts(r) == plan[run[r].flow].acts

Planned(flow) == LET acts == SelectSeq(plan[flow].acts, LAMBDA a : ~a.effect)
                 IN  [i \in DOMAIN acts |-> acts[i].event]

Effects(flow) == {i \in DOMAIN plan[flow].acts : plan[flow].acts[i].effect}

\* event_signature.record_count before action i.
Passed(acts, i) == Len(SelectSeq(SubSeq(acts, 1, i - 1), LAMBDA a : ~a.effect))

\* Mutant: a resumed event is shifted by the earlier markers only.
shift_resumed_short(R, sequence) == sequence + R.markers

\* A resumed event comes after the earlier markers and this resume's own.
shift_resumed_event(R, sequence) == sequence + (IF R.resumed THEN R.markers + 1 ELSE 0)

is_micro_batch_event(type) == type \in {"message.delta", "tool.progress"}

is_event_sync_checkpoint(type) == type \in {"message.completed", "tool.completed", "tool.failed"} \cup Ends

\* SerialSessionWriter::commit with its worker: a batched event waits in memory,
\* any other event is appended behind what waits; a checkpoint is also synced.
\* A refused event ends the application.
Write(R, sequence, event) ==
  LET entry == [sequence |-> sequence, event |-> event]
      log   == R.log \o R.buffer \o <<entry>>
  IN  IF R.rejected \/ ~Accepts(R.life, sequence, event) THEN [R EXCEPT !.rejected = TRUE]
      ELSE IF is_micro_batch_event(event.type)
      THEN [R EXCEPT !.buffer = Append(@, entry), !.life = record_event(@, event)]
      ELSE [R EXCEPT !.log = log, !.buffer = <<>>, !.life = record_event(@, event),
                     !.synced = IF is_event_sync_checkpoint(event.type) THEN Len(log) ELSE @]

\* ResumeEventSink::commit: the marker precedes the first new event.
Commit(R, sequence, event) ==
  LET marked == IF R.resumed /\ ~R.marked
                THEN Write([R EXCEPT !.marked = TRUE], R.life.lines + 1,
                           Plain("session.resumed", Nobody))
                ELSE R
  IN  Write(marked, shift_resumed_event(R, sequence), event)

\* The next action that is not behind the resumed prefix.
NextDue(acts, prefix, i) ==
  Min({j \in i..Len(acts) : acts[j].sequence > prefix} \cup {Len(acts) + 1})

Idle(flow) ==
  [flow |-> flow, pc |-> "idle", at |-> 1, prefix |-> 0, markers |-> 0, resumed |-> FALSE,
   marked |-> FALSE, log |-> <<>>, buffer |-> <<>>, synced |-> 0, contexts |-> 0,
   life |-> Empty, active |-> <<>>, todo |-> <<>>, step |-> 1, failed |-> FALSE,
   rejected |-> FALSE]

Init ==
  /\ \E scene \in Scenes :
       /\ plan = Plans(Range(scene.flows))
       /\ run = [r \in DOMAIN scene.flows |-> Idle(scene.flows[r])]
       /\ down = [crashes |-> scene.crashes, cuts |-> Cuts]
  /\ live = 0
  /\ ran = [r \in Runs |-> [i \in Effects(run[r].flow) |-> 0]]
  /\ lost = ran

\* run_flow_internal: a Flow whose planning fails records nothing.
Start(r) ==
  /\ run[r].pc = "idle"
  /\ run' = [run EXCEPT ![r].pc = IF plan[run[r].flow].ok THEN "apply" ELSE "unplanned"]
  /\ UNCHANGED <<live, ran, lost, down>>

AtEvent(r) == /\ run[r].pc = "apply" /\ ~run[r].rejected
              /\ run[r].at <= Len(Acts(r)) /\ ~Acts(r)[run[r].at].effect

Advance(R, acts) == [R EXCEPT !.at = NextDue(acts, R.prefix, R.at + 1)]

\* Mutant: only a completed Flow gives its live invocation back.
Tracked_completed(R, event) ==
  [R EXCEPT !.active = IF event.type = "flow.started" THEN Append(@, event.inv)
                       ELSE IF event.type = "flow.completed" /\ ~R.rejected
                       THEN SelectSeq(@, LAMBDA i : i.flow # event.inv.flow)
                       ELSE @]

\* LiveFlowInvocations::before_event and after_event around a committed event.
Tracked(R, event) ==
  [R EXCEPT !.active = IF event.type = "flow.started" THEN Append(@, event.inv)
                       ELSE IF event.type \in FlowEnds /\ ~R.rejected
                       THEN SelectSeq(@, LAMBDA i : i.flow # event.inv.flow)
                       ELSE @]

Held(event, kept) ==
  live + (IF event.type = "flow.started" THEN 1 ELSE 0)
       - (IF event.type \in FlowEnds /\ kept THEN 1 ELSE 0)

\* The manifest of a provider turn is persisted before its message.completed.
PersistContext(r) ==
  LET event == Acts(r)[run[r].at].event
  IN  /\ AtEvent(r) /\ event.type = "message.completed" /\ run[r].contexts < event.about[1]
      /\ run' = [run EXCEPT ![r].contexts = @ + 1]
      /\ UNCHANGED <<live, ran, lost, down>>

CommitEvent(r) ==
  LET act == Acts(r)[run[r].at]
      R   == Tracked(Commit(run[r], act.sequence, act.event), act.event)
  IN  /\ AtEvent(r)
      /\ act.event.type = "message.completed" => run[r].contexts >= act.event.about[1]
      /\ act.event.type = "flow.started" => live < MaxLive
      /\ run' = [run EXCEPT ![r] = Advance(R, Acts(r))]
      /\ live' = Held(act.event, ~R.rejected)
      /\ UNCHANGED <<ran, lost, down>>

\* acquire_live_flow_invocation fails: terminalize_live_invocation_error.
NoSlot(r) ==
  /\ AtEvent(r) /\ Acts(r)[run[r].at].event.type = "flow.started" /\ live >= MaxLive
  /\ run' = [run EXCEPT ![r].pc = "failing", ![r].failed = TRUE, ![r].step = 1,
               ![r].todo = live_invocation_failure_transition_events(run[r].active)]
  /\ UNCHANGED <<live, ran, lost, down>>

\* apply_planned_fixture_effect; a failure is terminalize_planned_fixture_error.
RunEffect(r, works) ==
  LET act == Acts(r)[run[r].at]
  IN  /\ run[r].pc = "apply" /\ ~run[r].rejected
      /\ run[r].at <= Len(Acts(r)) /\ act.effect
      /\ ran' = [ran EXCEPT ![r][run[r].at] = @ + 1]
      /\ run' = [run EXCEPT ![r] =
                   IF works THEN Advance(@, Acts(r))
                   ELSE [@ EXCEPT !.pc = "failing", !.failed = TRUE, !.step = 1,
                                  !.todo = act.otherwise]]
      /\ UNCHANGED <<live, lost, down>>

\* commit_constructed_transition.
FailStep(r) ==
  LET event == run[r].todo[run[r].step]
      R     == Tracked(Commit(run[r], Passed(Acts(r), run[r].at) + run[r].step, event), event)
  IN  /\ run[r].pc = "failing" /\ ~run[r].rejected /\ run[r].step <= Len(run[r].todo)
      /\ run' = [run EXCEPT ![r] = [R EXCEPT !.step = @ + 1]]
      /\ live' = Held(event, ~R.rejected)
      /\ UNCHANGED <<ran, lost, down>>

\* The worker's timer writes what waits.
Flush(r) ==
  /\ run[r].pc \in {"apply", "failing"} /\ run[r].buffer # <<>>
  /\ run' = [run EXCEPT ![r].log = @ \o run[r].buffer, ![r].buffer = <<>>]
  /\ UNCHANGED <<live, ran, lost, down>>

\* The application ended: the writer finishes and the live invocations drop.
Finish(r) ==
  LET R == run[r]
      log == R.log \o R.buffer
  IN  /\ \/ R.pc = "apply" /\ R.at > Len(Acts(r))
         \/ R.pc = "failing" /\ R.step > Len(R.todo)
         \/ R.pc \in {"apply", "failing"} /\ R.rejected
      /\ run' = [run EXCEPT ![r] = [R EXCEPT !.pc = "ended", !.log = log, !.buffer = <<>>,
                                             !.synced = Len(log), !.active = <<>>]]
      /\ live' = live - Len(R.active)
      /\ UNCHANGED <<ran, lost, down>>

Recorded(log) == SelectSeq([i \in DOMAIN log |-> log[i].event],
                           LAMBDA e : e.type # "session.resumed")

Working(r) == run[r].pc \in {"apply", "failing"}

Unsynced(r) == IF Working(r) THEN Len(run[r].log) - run[r].synced ELSE 0

\* The process dies; without the operating system each log may also lose a
\* suffix that was not synced.
Crash(drop) ==
  LET power == \E r \in Runs : drop[r] > 0
      log(r) == SubSeq(run[r].log, 1, Len(run[r].log) - drop[r])
  IN  /\ down.crashes > 0 /\ (power => down.cuts > 0)
      /\ \E r \in Runs : Working(r)
      /\ \A r \in Runs : drop[r] <= Unsynced(r)
      /\ run' = [r \in Runs |->
                   IF ~Working(r) THEN run[r]
                   ELSE [run[r] EXCEPT !.pc = "down", !.log = log(r), !.buffer = <<>>,
                                       !.active = <<>>]]
      /\ lost' = [r \in Runs |-> [i \in DOMAIN lost[r] |->
                    IF /\ Working(r) /\ ran[r][i] > lost[r][i]
                       /\ Len(Recorded(log(r))) < Passed(Acts(r), i)
                    THEN lost[r][i] + 1 ELSE lost[r][i]]]
      /\ live' = 0
      /\ down' = [crashes |-> down.crashes - 1, cuts |-> down.cuts - (IF power THEN 1 ELSE 0)]
      /\ UNCHANGED ran

-----------------------------------------------------------------------------
(* Resuming a Run from its log.                                            *)

\* inspect_resume_session: the stream is validated again, line by line.
Inspected(log) == Judge(Empty, log, 1)

Markers(log) == Len(log) - Len(Recorded(log))

OpenFlows(life) ==
  LET open == {f \in DOMAIN life.flows : life.flows[f].open}
  IN  [i \in 1..Cardinality(open) |-> life.flows[SetToSortSeq(open, <)[i]].inv]

\* The events that would replace the plan from action i on.
Alternative(acts, i) ==
  IF acts[i].effect THEN acts[i].otherwise
  ELSE IF acts[i].event.type # "flow.started" THEN <<>>
  ELSE live_invocation_failure_transition_events(OpenFlows(
         Judge(Empty, SelectSeq(SubSeq(acts, 1, i - 1), LAMBDA a : ~a.effect), 1).life))

\* checked_resume_event_count, and ResumePreflightSink for what may replace the plan.
OverBudget(R) ==
  LET acts   == plan[R.flow].acts
      offset == Markers(R.log) + 1
  IN  \/ Len(Planned(R.flow)) + offset > MaxEvents
      \/ \E i \in NextDue(acts, Len(Recorded(R.log)), 1)..Len(acts) :
           Passed(acts, i) + Len(Alternative(acts, i)) + offset > MaxEvents

\* Mutant: a manifest whose message.completed is missing is not expected.
contexts_match_strictly(R) == R.contexts = Len(SelectSeq(Recorded(R.log),
                                 LAMBDA e : e.type = "message.completed"))

\* read_anchored_context_manifest_signature: a crash may leave one manifest more.
contexts_match(R) ==
  LET completed == Len(SelectSeq(Recorded(R.log), LAMBDA e : e.type = "message.completed"))
  IN  R.contexts \in completed..(completed + 1)

\* Mutant: a Tool that may be running does not stop a resume.
tool_without_progress_ignored(life) == FALSE

tool_without_progress(life) == life.quiet # {}

\* resume_fixture_session_internal up to the second application of the plan.
Refused(R, read) ==
  \/ R.log = <<>> \/ ~read.ok \/ read.life.ended
  \/ ~contexts_match(R)
  \/ ~IsPrefix(Recorded(R.log), Planned(R.flow))
  \/ OverBudget(R)
  \/ tool_without_progress(read.life)

\* Without live invocations for the Flows of its prefix, a resume fails and
\* leaves the Run as it was.
Resume(r) ==
  LET R      == run[r]
      read   == Inspected(R.log)
      prefix == Len(Recorded(R.log))
      flows  == OpenFlows(read.life)
      synced == [R EXCEPT !.synced = Len(R.log), !.life = read.life]
  IN  /\ R.pc = "down"
      /\ IF Refused(R, read)
         THEN run' = [run EXCEPT ![r] = [synced EXCEPT !.pc = "refused"]] /\ UNCHANGED live
         ELSE IF live + Len(flows) > MaxLive
         THEN run' = [run EXCEPT ![r] = synced] /\ UNCHANGED live
         ELSE /\ run' = [run EXCEPT ![r] =
                   [synced EXCEPT !.pc = "apply", !.prefix = prefix, !.markers = Markers(R.log),
                                  !.resumed = TRUE, !.marked = FALSE, !.active = flows,
                                  !.at = NextDue(Acts(r), prefix, 1)]]
              /\ live' = live + Len(flows)
      /\ UNCHANGED <<ran, lost, down>>

Drops == [Runs -> 0..Max({Unsynced(r) : r \in Runs})]

Next ==
  /\ \/ \E r \in Runs : \/ Start(r) \/ PersistContext(r) \/ CommitEvent(r) \/ NoSlot(r)
                        \/ \E works \in BOOLEAN : RunEffect(r, works)
                        \/ FailStep(r) \/ Flush(r) \/ Finish(r) \/ Resume(r)
     \/ \E drop \in Drops : Crash(drop)
  /\ UNCHANGED plan

Spec == Init /\ [][Next]_vars

-----------------------------------------------------------------------------
(* Properties.                                                             *)

\* A plan is never refused, no event of a plan, of a resumed plan or of a failure
\* that replaces the rest of a plan is ever refused by the lifecycle rules or the
\* event budget, and an application that ends by itself leaves a stream that has
\* ended: the whole plan, or a part of it and the whole failure (apply.rs,
\* resume.rs, transition.rs).
StreamAccepted ==
  \A r \in Runs :
    LET R == run[r] IN
    /\ ~R.rejected /\ R.pc # "unplanned"
    /\ R.pc = "ended" => /\ R.life.ended
                         /\ R.failed \/ Recorded(R.log) = Planned(R.flow)

\* A Tool's effect runs once, however often the process crashes and the Run is
\* resumed; only a power loss that takes the Tool's start from the log lets it
\* run once more (ToolSideEffectMode::should_execute_tool, tool_without_progress).
EffectsOnce == \A r \in Runs : \A i \in DOMAIN ran[r] : ran[r][i] <= 1 + lost[r][i]

\* An interrupted Run is refused a resume only for a reason that the user can be
\* told: nothing was recorded or everything was, a Tool may be half done, the Run
\* was already failing, or the marker would exceed the budget (resume.rs).
RefusalsJustified ==
  \A r \in Runs :
    run[r].pc = "refused" => \/ run[r].log = <<>> \/ run[r].failed \/ OverBudget(run[r])
                             \/ run[r].life.quiet # {} \/ run[r].life.ended

\* The process-wide count is exactly the live invocations of the Runs that are
\* being applied, within the limit: a failed, refused, finished or resumed Run
\* neither leaks one nor returns one twice (live_flow_invocations.rs).
SlotsReturned ==
  /\ live = FoldSet(LAMBDA r, n : n + Len(run[r].active), 0, Runs)
  /\ live <= MaxLive

\* A Run of a Flow with a provider context that is too large ends with a
\* recorded error and a failed session (planning.rs, failures.rs).
OversizedRecorded ==
  \A r \in Runs :
    run[r].pc \in {"ended", "unplanned"} =>
      /\ \E i \in DOMAIN run[r].log : run[r].log[i].event.type = "error"
      /\ Last(run[r].log).event.type = "session.failed"

=============================================================================

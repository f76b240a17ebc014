------------------------ MODULE ProductiveRunProofs ------------------------
(***************************************************************************)
(* However often a Run is crashed, cancelled, reconciled and resumed, no   *)
(* attempt reaches the outside twice, and the Run Log is the log of        *)
(* attempts AttemptOnce promises; for any Flow, any number of turns,       *)
(* crashes and Ctrl-C, with or without power loss.                         *)
(***************************************************************************)
EXTENDS ProductiveRun, TLAPS

Outcomes == ProviderOutcomes \cup ToolOutcomes \cup {"none", "lost"}

\* The terminal results an attempt of its kind can have.
OutcomesOf(a) == IF a[1] = "provider" THEN ProviderOutcomes ELSE ToolOutcomes

EventRecords ==
  {<<"session.started">>, <<"flow.started">>, <<"flow.completed">>, <<"session.completed">>}
  \cup ({"error", "flow.failed", "session.failed"} \X Errors)
  \cup ({"phase.entered", "phase.completed", "message.completed", "tool.started",
         "tool.completed"} \X Nat)
  \cup ({"phase.failed"} \X Nat \X Errors)
  \cup ({"message.delta", "tool.failed"} \X Nat \X (Outcomes \cup Errors))

SnapshotRecords ==
  {<<"flow">>}
  \cup ({"phase", "transition"} \X Nat)
  \cup ({"attempt"} \X Attempts \X Outcomes)
  \cup ({"terminal"} \X BOOLEAN \X Nat)

\* Where the process is between attempts, inside one, and past the Flow.
Working ==
  {"start", "flow", "phase", "turn", "provider.intent", "attempt.record", "message",
   "message.completed", "turn.end", "tool", "tool.intent", "tool.restarted", "tool.end",
   "tool.ended", "phase.boundary", "phase.completed", "transition", "transition.ensure",
   "flow.boundary", "flow.completed"}
Undispatched == {"provider.claim", "tool.preflight", "tool.preflighting", "tool.started", "tool.claim"}
InAttempt ==
  Undispatched \cup {"provider.flight", "provider.returned", "attempt.commit", "attempt.terminal",
                     "tool.flight", "tool.lost", "tool.lost.end"}
Ending ==
  {"phase.failed", "error", "flow.failed", "claim", "terminal", "terminal.event", "finish", "return"}
Intending == {"provider.intent", "tool.intent"}
PCs == Working \cup InAttempt \cup Ending \cup {"down"}

Processes ==
  [pc : PCs, phase : Nat, turns : Nat, tools : Nat, cur : Attempts,
   outcome : Outcomes, error : Errors, emitted : Nat,
   records : Nat, recorded : Nat, completed : SUBSET Attempts, consumed : SUBSET Attempts,
   prefix : Nat, manifests : Nat, manifest : Nat,
   recovery_failed : BOOLEAN, event_commit_failed : BOOLEAN]

Types ==
  /\ CoordinatorTypeOK
  /\ intents \subseteq Attempts
  /\ results \in [Attempts -> Outcomes]
  /\ recovery \in Seq(SnapshotRecords)
  /\ events \in Seq(EventRecords) /\ synced \in Nat /\ contexts \in Nat
  /\ proc \in Processes
  /\ dispatched \in [Attempts -> Nat]

\* A Ctrl-C that was answered with Cancel shows in the state.
Flagged == cancelled => state \in Bounded \cup {"Cancelling"}

\* Nothing reaches the outside, and nothing has a result, without an intent.
Ledger ==
  \A a \in Attempts :
    /\ dispatched[a] <= 1
    /\ dispatched[a] > 0 \/ results[a] # "none" => a \in intents
    /\ results[a] \in OutcomesOf(a) \cup {"none"}

Counted(a) == a[2] <= IF a[1] = "provider" THEN proc.turns ELSE proc.tools

\* Every intent is one that the process found completed or one it has passed.
Passed ==
  proc.pc # "down" =>
    /\ \A a \in proc.completed : results[a] # "none"
    /\ \A a \in intents : a \in proc.completed \/ Counted(a)

\* Where the process is tells which attempt can be uncertain, and whether it
\* can have reached the outside.
Standing ==
  /\ proc.pc \in Working => Uncertain = {}
  /\ proc.pc \in Intending => proc.cur \notin intents /\ Counted(proc.cur)
  /\ proc.pc \in InAttempt => Uncertain = {proc.cur}
  /\ proc.pc \in Undispatched => dispatched[proc.cur] = 0

ProviderSteps == {"provider.intent", "provider.claim", "provider.flight", "provider.returned"}
ToolSteps ==
  {"tool.intent", "tool.preflight", "tool.preflighting", "tool.started", "tool.claim", "tool.flight"}
Answered == {"message", "message.completed", "turn.end"}
Deciding == {"attempt.commit", "attempt.terminal", "attempt.record"}

\* The outcome in memory is one of the current attempt.
OutcomeFits ==
  /\ proc.pc \in ProviderSteps => proc.cur[1] = "provider"
  /\ proc.pc \in ToolSteps => proc.cur[1] = "tool"
  /\ proc.pc \in Answered => proc.outcome \in Answers
  /\ proc.pc = "provider.returned" =>
       /\ proc.outcome \in Answers \cup {"failed", "lost", "cancelled"}
       /\ proc.outcome = "cancelled" => cancelled
  /\ proc.pc \in Deciding => proc.outcome \in OutcomesOf(proc.cur)

IInv == Types /\ Flagged /\ Ledger /\ Passed /\ Standing /\ OutcomeFits

-----------------------------------------------------------------------------
(* Steps that begin, dispatch and settle no attempt.                       *)

Quiet ==
  /\ UNCHANGED <<intents, results, dispatched>>
  /\ Types' /\ Flagged'
  /\ proc'.turns = proc.turns /\ proc'.tools = proc.tools
  /\ proc'.cur = proc.cur /\ proc'.completed = proc.completed

\* Such a step stays on its side of the attempt, or ends the Flow.
Follows ==
  /\ proc.pc # "down"
  /\ proc'.pc \in Working => proc.pc \in Working
  /\ proc'.pc \in Intending => proc.pc \in Intending
  /\ proc'.pc \in InAttempt => proc.pc \in InAttempt
  /\ proc'.pc \in Undispatched => proc.pc \in Undispatched

\* Such a step preserves the invariant.
LEMMA QuietPreserves ==
  ASSUME IInv, Quiet, Follows, OutcomeFits'
  PROVE  IInv'
<1>1. Ledger' /\ Passed' /\ Uncertain' = Uncertain
  BY Zenon DEF IInv, Quiet, Follows, Ledger, Passed, Counted, Uncertain
<1>2. Standing'
  BY <1>1, Zenon DEF IInv, Quiet, Follows, Standing, Counted
<1> QED
  BY <1>1, <1>2, Zenon DEF IInv, Quiet

\* Emission of an Event (emit_and_commit): it is replayed, appended, or refused.
LEMMA EmitQuiet ==
  ASSUME IInv, NEW e \in EventRecords, NEW next \in PCs, EmitStep(e, next)
  PROVE  /\ Quiet /\ UNCHANGED <<state, cancelled>>
         /\ proc'.pc \in {next, proc.pc, "claim", "finish"}
         /\ proc'.outcome = proc.outcome
<1>0. /\ proc \in Processes /\ "claim" \in PCs /\ "finish" \in PCs
      /\ events \in Seq(EventRecords) /\ synced \in Nat /\ contexts \in Nat
  BY Zenon DEF IInv, Types, PCs, Ending
<1>1. /\ proc.emitted \in Nat /\ proc.prefix \in Nat /\ proc.manifest \in Nat /\ proc.manifests \in Nat
  BY <1>0, Zenon DEF Processes
<1>2. \/ /\ \E n \in {0, 1} : Committed(next, n)
         /\ \/ AppendEvent(e) /\ UNCHANGED contexts
            \/ UNCHANGED <<events, synced, contexts>>
      \/ EventDiverges
      \/ proc' = proc /\ contexts' = contexts + 1 /\ UNCHANGED <<events, synced>>
  <2>0. Emit(e, next)
    BY Zenon DEF EmitStep
  <2>1. CASE proc.emitted < proc.prefix
    <3>1. ~(proc.emitted >= proc.prefix) /\ ~PrefixReplayed
      BY <1>1, <2>1 DEF PrefixReplayed
    <3> QED
      BY <2>0, <2>1, <3>1, Zenon DEF Emit
  <2>2. CASE proc.emitted >= proc.prefix /\ proc.manifest < proc.manifests
    <3>1. ~(proc.emitted < proc.prefix) /\ ~PrefixReplayed
      BY <1>1, <2>2 DEF PrefixReplayed
    <3> QED
      BY <2>0, <2>2, <3>1, Zenon DEF Emit
  <2>3. CASE PrefixReplayed
    <3>1. ~(proc.emitted < proc.prefix) /\ ~(proc.manifest < proc.manifests)
      BY <1>1, <2>3 DEF PrefixReplayed
    <3> QED
      BY <2>0, <2>3, <3>1, Zenon DEF Emit
  <2> QED
    BY <1>1, <2>1, <2>2, <2>3 DEF PrefixReplayed
<1>3. /\ proc' \in Processes
      /\ proc'.pc \in {next, proc.pc, "claim", "finish"} /\ proc'.outcome = proc.outcome
      /\ proc'.turns = proc.turns /\ proc'.tools = proc.tools
      /\ proc'.cur = proc.cur /\ proc'.completed = proc.completed
  <2>1. ASSUME NEW n \in {0, 1}, Committed(next, n)
        PROVE  <1>3
    <3>1. proc.emitted + 1 \in Nat /\ proc.manifest + n \in Nat
      BY <1>1
    <3> QED
      BY <1>0, <2>1, <3>1, Zenon DEF Committed, Processes
  <2>2. CASE EventDiverges
    BY <1>0, <2>2, Zenon DEF EventDiverges, Processes
  <2>3. CASE proc' = proc
    BY <1>0, <2>3, Zenon
  <2> QED
    BY <1>2, <2>1, <2>2, <2>3, Zenon
<1>4. events' \in Seq(EventRecords) /\ synced' \in Nat /\ contexts' \in Nat
  <2>1. CASE AppendEvent(e) /\ UNCHANGED contexts
    BY <1>0, <2>1 DEF AppendEvent
  <2>2. CASE UNCHANGED <<events, synced, contexts>>
    BY <1>0, <2>2, Zenon
  <2>3. CASE contexts' = contexts + 1 /\ UNCHANGED <<events, synced>>
    BY <1>0, <2>3
  <2> QED
    BY <1>2, <2>1, <2>2, <2>3, Zenon DEF EventDiverges
<1>5. UNCHANGED <<coordinator, intents, results, recovery, dispatched>>
  BY Zenon DEF EmitStep
<1> QED
  BY <1>3, <1>4, <1>5, Zenon DEF Quiet, IInv, Types, coordinator, CoordinatorTypeOK, Flagged

\* A boundary of the recovery snapshot: it is replayed, appended, or refused.
LEMMA BoundaryQuiet ==
  ASSUME IInv, NEW r \in SnapshotRecords, NEW next \in PCs, Boundary(r, next), SnapshotOnly
  PROVE  /\ Quiet /\ UNCHANGED <<state, cancelled>>
         /\ proc'.pc \in {next, "claim", "finish"}
         /\ proc'.outcome = proc.outcome
<1>0. proc \in Processes /\ "claim" \in PCs /\ "finish" \in PCs /\ recovery \in Seq(SnapshotRecords)
  BY Zenon DEF IInv, Types, PCs, Ending
<1>1. \/ proc' = [proc EXCEPT !.pc = next, !.recorded = @ + 1] /\ UNCHANGED recovery
      \/ recovery' = Append(recovery, r) /\ Goto(next)
      \/ RecoveryDiverges
  BY Zenon DEF Boundary
<1>2. /\ proc' \in Processes
      /\ proc'.pc \in {next, "claim", "finish"} /\ proc'.outcome = proc.outcome
      /\ proc'.turns = proc.turns /\ proc'.tools = proc.tools
      /\ proc'.cur = proc.cur /\ proc'.completed = proc.completed
  <2>1. CASE proc' = [proc EXCEPT !.pc = next, !.recorded = @ + 1]
    <3>1. proc.recorded + 1 \in Nat
      BY <1>0 DEF Processes
    <3> QED
      BY <1>0, <2>1, <3>1, Zenon DEF Processes
  <2>2. CASE Goto(next)
    BY <1>0, <2>2, Zenon DEF Goto, Processes
  <2>3. CASE RecoveryDiverges
    BY <1>0, <2>3, Zenon DEF RecoveryDiverges, Processes
  <2> QED
    BY <1>1, <2>1, <2>2, <2>3, Zenon
<1>3. recovery' \in Seq(SnapshotRecords)
  BY <1>0, <1>1 DEF RecoveryDiverges
<1>4. UNCHANGED <<coordinator, intents, results, events, synced, contexts, dispatched>>
  BY Zenon DEF SnapshotOnly
<1> QED
  BY <1>2, <1>3, <1>4, Zenon DEF Quiet, IInv, Types, coordinator, CoordinatorTypeOK, Flagged

\* The Flow fails.
LEMMA FailQuiet ==
  ASSUME IInv, NEW error \in Errors, NEW open \in BOOLEAN, Fail(error, open),
         UNCHANGED <<intents, results, recovery, events, synced, contexts, dispatched>>,
         CoordinatorTypeOK', Flagged'
  PROVE  Quiet /\ proc'.pc \in {"phase.failed", "error"}
<1>0. proc \in Processes /\ "phase.failed" \in PCs /\ "error" \in PCs
  BY Zenon DEF IInv, Types, PCs, Ending
<1>1. /\ proc' \in Processes /\ proc'.pc \in {"phase.failed", "error"}
      /\ proc'.turns = proc.turns /\ proc'.tools = proc.tools
      /\ proc'.cur = proc.cur /\ proc'.completed = proc.completed
  BY <1>0, Zenon DEF Fail, Processes
<1> QED
  BY <1>1, Zenon DEF Quiet, IInv, Types

\* Where a quiet step may lead, with the outcome that is in memory.
Leads(next) ==
  /\ proc.pc # "down"
  /\ next \in Working => proc.pc \in Working
  /\ next \in InAttempt => proc.pc \in InAttempt
  /\ next \in Undispatched => proc.pc \in Undispatched
  /\ next \in ToolSteps => proc.cur[1] = "tool"
  /\ next \in Answered => proc.outcome \in Answers
  /\ next \notin Intending \cup ProviderSteps \cup Deciding

\* A quiet step to such a place preserves the invariant.
LEMMA LeadsPreserves ==
  ASSUME IInv, Quiet, NEW next \in PCs, Leads(next),
         proc'.pc = next, proc'.outcome = proc.outcome
  PROVE  IInv'
<1>1. Follows
  BY Zenon DEF Leads, Follows
<1>2. OutcomeFits'
  BY Zenon DEF Leads, OutcomeFits, Quiet, ProviderSteps, IInv
<1> QED
  BY <1>1, <1>2, QuietPreserves, Zenon

\* So does a failure, wherever it strikes.
LEMMA FailPreserves ==
  ASSUME IInv, proc.pc # "down", NEW error \in Errors, NEW open \in BOOLEAN, Fail(error, open),
         UNCHANGED <<intents, results, recovery, events, synced, contexts, dispatched>>,
         CoordinatorTypeOK', Flagged'
  PROVE  IInv'
<1>1. Quiet /\ proc'.pc \in {"phase.failed", "error"}
  BY FailQuiet, Zenon
<1>2. Follows /\ OutcomeFits'
  BY <1>1, Zenon DEF Follows, Working, Intending, InAttempt, Undispatched, OutcomeFits, ProviderSteps, ToolSteps,
              Answered, Deciding
<1> QED
  BY <1>1, <1>2, QuietPreserves, Zenon

\* The emission of an Event between two such places preserves the invariant.
LEMMA EmitPreserves ==
  ASSUME IInv, NEW e \in EventRecords, NEW next \in PCs, EmitStep(e, next), Leads(next)
  PROVE  IInv'
<1>1. /\ Quiet /\ UNCHANGED <<state, cancelled>>
      /\ proc'.pc \in {next, proc.pc, "claim", "finish"}
      /\ proc'.outcome = proc.outcome
  BY EmitQuiet, Zenon
<1>2. CASE proc'.pc = next
  BY <1>1, <1>2, LeadsPreserves, Zenon
<1>3. CASE proc'.pc = proc.pc
  <2>1. Follows /\ OutcomeFits'
    BY <1>1, <1>3, Zenon DEF Leads, Follows, IInv, OutcomeFits, OutcomesOf, Quiet
  <2> QED
    BY <1>1, <2>1, QuietPreserves, Zenon
<1>4. CASE proc'.pc \in {"claim", "finish"}
  <2>1. Follows /\ OutcomeFits'
    BY <1>4, Zenon DEF Leads, Follows, Working, Intending, InAttempt, Undispatched, OutcomeFits, ProviderSteps,
                ToolSteps, Answered, Deciding
  <2> QED
    BY <1>1, <2>1, QuietPreserves, Zenon
<1> QED
  BY <1>1, <1>2, <1>3, <1>4, Zenon

\* And so does a boundary.
LEMMA BoundaryPreserves ==
  ASSUME IInv, NEW r \in SnapshotRecords, NEW next \in PCs, Boundary(r, next), SnapshotOnly, Leads(next)
  PROVE  IInv'
<1>1. /\ Quiet /\ UNCHANGED <<state, cancelled>>
      /\ proc'.pc \in {next, "claim", "finish"}
      /\ proc'.outcome = proc.outcome
  BY BoundaryQuiet, Zenon
<1>2. CASE proc'.pc = next
  BY <1>1, <1>2, LeadsPreserves, Zenon
<1>3. CASE proc'.pc \in {"claim", "finish"}
  <2>1. Follows /\ OutcomeFits'
    BY <1>3, Zenon DEF Leads, Follows, Working, Intending, InAttempt, Undispatched, OutcomeFits, ProviderSteps,
                ToolSteps, Answered, Deciding
  <2> QED
    BY <1>1, <2>1, QuietPreserves, Zenon
<1> QED
  BY <1>1, <1>2, <1>3, Zenon
-----------------------------------------------------------------------------
(* The coordinator. *)

\* Every method keeps its types, and the flag shows in the state.
LEMMA CoordinatorSteps ==
  ASSUME CoordinatorTypeOK, Flagged,
         \/ \E p \in Permits : claim_operation(p)
         \/ \E p \in Permits : release_operation(p)
         \/ claim_terminal \/ interrupt \/ begin \/ settle \/ UNCHANGED coordinator
  PROVE  CoordinatorTypeOK' /\ Flagged'
<1> USE DEF CoordinatorTypeOK, Flagged, OperationStates, Permits, Bounded
<1>1. CASE \E p \in Permits : claim_operation(p)
  BY <1>1 DEF claim_operation
<1>2. CASE \E p \in Permits : release_operation(p)
  BY <1>2 DEF release_operation
<1>3. CASE claim_terminal
  BY <1>3, Zenon DEF claim_terminal
<1>4. CASE interrupt
  BY <1>4, Zenon DEF interrupt
<1>5. CASE begin \/ settle
  BY <1>5, Zenon DEF begin, settle
<1>6. CASE UNCHANGED coordinator
  BY <1>6, Zenon DEF coordinator
<1> QED
  BY <1>1, <1>2, <1>3, <1>4, <1>5, <1>6, Zenon

-----------------------------------------------------------------------------
(* The actions that begin, dispatch and settle no attempt. *)

\* Steps of the Flow that emit an Event.
LEMMA EventSteps ==
  ASSUME IInv,
         \/ SessionStarted \/ FlowStarted \/ PhaseEntered \/ PhaseFailed \/ ErrorEvent \/ FlowFailed
         \/ MessageDelta \/ MessageCompleted \/ ToolStartedAgain \/ ToolLost \/ ToolEnd \/ SessionEnded
  PROVE  IInv'
<1> USE DEF At, Leads, PCs, Working, InAttempt, Undispatched, Ending, Intending, ProviderSteps, ToolSteps,
            Answered, Deciding, EventRecords
<1>0. /\ proc.phase + 1 \in Nat /\ proc.turns \in Nat /\ proc.tools \in Nat
      /\ proc.error \in Errors /\ proc.outcome \in Outcomes
  BY DEF IInv, Types, Processes
<1>1. CASE SessionStarted
  BY <1>1, EmitPreserves, Zenon DEF SessionStarted
<1>2. CASE FlowStarted
  BY <1>2, EmitPreserves, Zenon DEF FlowStarted
<1>3. CASE PhaseEntered
  BY <1>0, <1>3, EmitPreserves, Zenon DEF PhaseEntered
<1>4. CASE PhaseFailed
  BY <1>0, <1>4, EmitPreserves DEF PhaseFailed
<1>5. CASE ErrorEvent
  BY <1>0, <1>5, EmitPreserves, Zenon DEF ErrorEvent
<1>6. CASE FlowFailed
  BY <1>0, <1>6, EmitPreserves, Zenon DEF FlowFailed
<1>7. CASE MessageDelta
  BY <1>0, <1>7, EmitPreserves, Zenon DEF MessageDelta, IInv, OutcomeFits
<1>8. CASE MessageCompleted
  BY <1>0, <1>8, EmitPreserves, Zenon DEF MessageCompleted, IInv, OutcomeFits
<1>9. CASE ToolStartedAgain
  BY <1>0, <1>9, EmitPreserves, Zenon DEF ToolStartedAgain
<1>10. CASE ToolLost
  BY <1>0, <1>10, EmitPreserves, Zenon DEF ToolLost, Errors
<1>11. CASE ToolEnd
  <2>1. CASE proc.outcome = "ok"
    BY <1>0, <1>11, <2>1, EmitPreserves, Zenon DEF ToolEnd
  <2>2. CASE proc.outcome # "ok"
    BY <1>0, <1>11, <2>2, EmitPreserves, Zenon DEF ToolEnd
  <2> QED
    BY <2>1, <2>2, Zenon
<1>12. CASE SessionEnded
  <2>1. CASE proc.error = "none"
    BY <1>0, <1>12, <2>1, EmitPreserves, Zenon DEF SessionEnded
  <2>2. CASE proc.error # "none"
    BY <1>0, <1>12, <2>2, EmitPreserves, Zenon DEF SessionEnded
  <2> QED
    BY <2>1, <2>2, Zenon
<1> QED
  BY <1>1, <1>2, <1>3, <1>4, <1>5, <1>6, <1>7, <1>8, <1>9, <1>10, <1>11, <1>12, Zenon

\* A failure that leaves all but the process alone.
LEMMA LocalFailPreserves ==
  ASSUME IInv, proc.pc # "down", NEW error \in Errors, NEW open \in BOOLEAN, Fail(error, open), Local
  PROVE  IInv'
<1>1. CoordinatorTypeOK' /\ Flagged'
  BY CoordinatorSteps, Zenon DEF IInv, Types, Local
<1> QED
  BY <1>1, FailPreserves, Zenon DEF Local, disk

\* Steps that are refused once Ctrl-C was answered.
LEMMA BoundarySteps ==
  ASSUME IInv,
         \/ PhaseBoundary \/ PhaseCompleted \/ TransitionBoundary \/ TransitionEnsure \/ FlowBoundary
         \/ FlowCompleted \/ TurnEnd \/ ToolStarted \/ ToolEnded \/ ToolLostEnd
  PROVE  IInv'
<1> USE DEF At, Leads, PCs, Working, InAttempt, Undispatched, Ending, Intending, ProviderSteps, ToolSteps,
            Answered, Deciding
<1>0. proc \in Processes /\ proc.phase + 1 \in Nat /\ proc.tools \in Nat
  BY DEF IInv, Types, Processes
<1>1. ASSUME proc.pc # "down", Local,
             Fail("cancelled", TRUE) \/ Fail("cancelled", FALSE) \/ Fail("runtime_error", TRUE)
      PROVE  IInv'
  BY <1>1, LocalFailPreserves, Zenon DEF Errors
<1>2. ASSUME NEW next \in PCs, Leads(next), Local, Goto(next)
      PROVE  IInv'
  <2>1. proc' \in Processes /\ proc' = [proc EXCEPT !.pc = next]
    BY <1>0, <1>2 DEF Goto, Processes
  <2>2. CoordinatorTypeOK' /\ Flagged'
    BY <1>2, CoordinatorSteps, Zenon DEF IInv, Types, Local
  <2>3. Quiet /\ proc'.pc = next /\ proc'.outcome = proc.outcome
    BY <1>0, <1>2, <2>1, <2>2, ZenonT(60) DEF Quiet, Types, IInv, Local, disk, Processes
  <2> QED
    BY <1>2, <2>3, LeadsPreserves, Zenon
<1>3. CASE PhaseBoundary
  <2>1. <<"phase", proc.phase + 1>> \in SnapshotRecords
    BY <1>0, Zenon DEF SnapshotRecords
  <2> QED
    BY <1>1, <1>3, <2>1, BoundaryPreserves, Zenon DEF PhaseBoundary
<1>4. CASE PhaseCompleted
  <2>1. <<"phase.completed", proc.phase + 1>> \in EventRecords
    BY <1>0, Zenon DEF EventRecords
  <2> QED
    BY <1>1, <1>4, <2>1, EmitPreserves, Zenon DEF PhaseCompleted
<1>5. CASE TransitionBoundary
  <2>1. <<"transition", proc.phase + 1>> \in SnapshotRecords
    BY <1>0, Zenon DEF SnapshotRecords
  <2> QED
    BY <1>1, <1>5, <2>1, BoundaryPreserves, Zenon DEF TransitionBoundary
<1>6. CASE TransitionEnsure
  <2>1. CASE ~effect_dispatch_allowed
    BY <1>1, <1>6, <2>1, Zenon DEF TransitionEnsure
  <2>2. CASE effect_dispatch_allowed
    <3>1. /\ proc' \in Processes /\ proc'.pc \in {"phase", "flow.boundary"}
          /\ proc'.outcome = proc.outcome
          /\ proc'.turns = proc.turns /\ proc'.tools = proc.tools
          /\ proc'.cur = proc.cur /\ proc'.completed = proc.completed
      <4>1. PICK next \in {"phase", "flow.boundary"} : proc' = [proc EXCEPT !.phase = @ + 1, !.pc = next]
        BY <1>6, <2>2, Zenon DEF TransitionEnsure
      <4>2. next \in PCs
        BY Zenon
      <4> HIDE DEF PCs
      <4> QED
        BY <1>0, <4>1, <4>2, Zenon DEF Processes
    <3>2. CoordinatorTypeOK' /\ Flagged'
      BY <1>6, CoordinatorSteps, Zenon DEF IInv, Types, Local, TransitionEnsure
    <3>3. Quiet
      BY <1>6, <3>1, <3>2, Zenon DEF Quiet, Types, IInv, Local, disk, TransitionEnsure
    <3> QED
      BY <1>6, <3>1, <3>3, LeadsPreserves, Zenon DEF TransitionEnsure
  <2> QED
    BY <2>1, <2>2, Zenon
<1>7. CASE FlowBoundary
  BY <1>1, <1>7, BoundaryPreserves, Zenon DEF FlowBoundary, SnapshotRecords
<1>8. CASE FlowCompleted
  BY <1>1, <1>8, EmitPreserves, Zenon DEF FlowCompleted, EventRecords
<1>9. CASE TurnEnd
  <2>1. proc.outcome \in {"done", "bad", "tool"}
    BY <1>9, Zenon DEF TurnEnd, IInv, OutcomeFits, Answers
  <2> QED
    BY <1>1, <1>2, <1>9, <2>1, Zenon DEF TurnEnd
<1>10. CASE ToolStarted
  <2>1. <<"tool.started", proc.tools>> \in EventRecords
    BY <1>0, Zenon DEF EventRecords
  <2>2. proc.cur[1] = "tool"
    BY <1>10, Zenon DEF ToolStarted, IInv, OutcomeFits
  <2> QED
    BY <1>1, <1>10, <2>1, <2>2, EmitPreserves, Zenon DEF ToolStarted
<1>11. CASE ToolEnded \/ ToolLostEnd
  BY <1>1, <1>11, Zenon DEF ToolEnded, ToolLostEnd
<1> QED
  BY <1>3, <1>4, <1>5, <1>6, <1>7, <1>8, <1>9, <1>10, <1>11, Zenon

-----------------------------------------------------------------------------
(* The actions that begin, dispatch and settle an attempt. *)

\* Where a step with this outcome may lead, its attempt being what it is.
Decides(outcome, next) ==
  /\ proc.pc # "down"
  /\ next \in Working => proc.pc \in Working
  /\ next \in InAttempt => proc.pc \in InAttempt
  /\ next \in Undispatched => proc.pc \in Undispatched
  /\ next \in ProviderSteps => proc.cur[1] = "provider"
  /\ next \in ToolSteps => proc.cur[1] = "tool"
  /\ next \in Answered => outcome \in Answers
  /\ next = "provider.returned" =>
       /\ outcome \in Answers \cup {"failed", "lost", "cancelled"}
       /\ outcome = "cancelled" => cancelled'
  /\ next \in Deciding => outcome \in OutcomesOf(proc.cur)
  /\ next \notin Intending

\* The process takes note of an outcome and goes on.
LEMMA PersistPreserves ==
  ASSUME IInv, NEW outcome \in Outcomes, NEW next \in PCs,
         Persist(outcome, next) \/ (Goto(next) /\ outcome = proc.outcome),
         UNCHANGED <<intents, results, recovery, events, synced, contexts, dispatched>>,
         CoordinatorTypeOK', Flagged', Decides(outcome, next)
  PROVE  IInv'
<1>1. /\ proc' \in Processes /\ proc'.pc = next /\ proc'.outcome = outcome
      /\ proc'.turns = proc.turns /\ proc'.tools = proc.tools
      /\ proc'.cur = proc.cur /\ proc'.completed = proc.completed
  BY ZenonT(60) DEF Persist, Goto, Processes, IInv, Types
<1>2. Quiet
  BY <1>1, Zenon DEF Quiet, IInv, Types
<1>3. Follows
  BY <1>1, Zenon DEF Follows, Decides
<1>4. OutcomeFits'
  BY <1>1, Zenon DEF OutcomeFits, Decides, OutcomesOf
<1> QED
  BY <1>2, <1>3, <1>4, QuietPreserves, Zenon

\* What the outcome of a provider attempt makes of the process.
LEMMA ProviderOutcomeTyped ==
  ASSUME IInv, NEW outcome \in ProviderOutcomes
  PROVE  LET p == ProviderOutcome(outcome)
         IN  /\ p \in Processes /\ p.pc \in {"phase.failed", "message"}
             /\ p.pc = "message" => p.outcome \in Answers
             /\ p.completed = proc.completed /\ p.turns = proc.turns /\ p.tools = proc.tools
             /\ p.cur = proc.cur
<1>0. /\ proc \in Processes /\ "phase.failed" \in PCs /\ "message" \in PCs
      /\ "cancelled" \in Errors /\ "provider_error" \in Errors
  BY Zenon DEF IInv, Types, PCs, Working, Ending, Errors
<1>1. CASE outcome = "cancelled"
  <2>1. ProviderOutcome(outcome) = [proc EXCEPT !.pc = "phase.failed", !.error = "cancelled"]
    BY <1>1, Zenon DEF ProviderOutcome, Answers
  <2> QED
    BY <1>0, <2>1, Zenon DEF Processes
<1>2. CASE outcome = "failed"
  <2>1. ProviderOutcome(outcome) = [proc EXCEPT !.pc = "phase.failed", !.error = "provider_error"]
    BY <1>2, Zenon DEF ProviderOutcome, Answers
  <2> QED
    BY <1>0, <2>1, Zenon DEF Processes
<1>3. CASE outcome \in Answers
  <2>1. outcome \in Outcomes
    BY <1>3, Zenon DEF Outcomes, ProviderOutcomes
  <2>2. ProviderOutcome(outcome) = [proc EXCEPT !.pc = "message", !.outcome = outcome]
    BY <1>3, Zenon DEF ProviderOutcome, Answers
  <2> QED
    BY <1>0, <1>3, <2>1, <2>2, ZenonT(60) DEF Processes
<1> QED
  BY <1>1, <1>2, <1>3, Zenon DEF ProviderOutcomes

\* What a completed attempt makes of the process that consumes it.
LEMMA Consumes ==
  ASSUME IInv, NEW a \in Attempts, NEW outcome \in OutcomesOf(a),
         a[2] > IF a[1] = "provider" THEN proc.turns ELSE proc.tools
  PROVE  /\ Consume(a, outcome) \in Processes
         /\ Consume(a, outcome).pc \in {"phase.failed", "message", "tool.restarted"}
         /\ Consume(a, outcome).pc = "message" => Consume(a, outcome).outcome \in Answers
         /\ Consume(a, outcome).completed = proc.completed
         /\ Consume(a, outcome).turns >= proc.turns
         /\ Consume(a, outcome).tools >= proc.tools
<1> DEFINE p == IF a[1] = "provider" THEN ProviderOutcome(outcome) ELSE ToolOutcome(outcome)
<1>0. proc \in Processes /\ {"phase.failed", "message", "tool.restarted"} \subseteq PCs
  BY Zenon DEF IInv, Types, PCs, Working, Ending
<1>1. /\ p \in Processes /\ p.pc \in {"phase.failed", "message", "tool.restarted"}
      /\ p.pc = "message" => p.outcome \in Answers
      /\ p.completed = proc.completed /\ p.turns = proc.turns /\ p.tools = proc.tools
  <2>1. CASE a[1] = "provider"
    BY <2>1, ProviderOutcomeTyped, Zenon DEF OutcomesOf
  <2>2. CASE a[1] # "provider"
    <3>1. outcome \in Outcomes /\ outcome \in ToolOutcomes
      BY <2>2, Zenon DEF OutcomesOf, Outcomes
    <3>2. p = ToolOutcome(outcome)
      BY <2>2, Zenon
    <3>3. CASE outcome = "preflight"
      <4>1. p = [proc EXCEPT !.pc = "phase.failed", !.error = "runtime_error"]
        BY <3>2, <3>3, Zenon DEF ToolOutcome
      <4>2. "runtime_error" \in Errors
        BY Zenon DEF Errors
      <4> HIDE DEF p
      <4> QED
        BY <1>0, <4>1, <4>2, Zenon DEF Processes
    <3>4. CASE outcome # "preflight"
      <4>1. p = [proc EXCEPT !.pc = "tool.restarted", !.outcome = outcome]
        BY <3>2, <3>4, Zenon DEF ToolOutcome
      <4> HIDE DEF p
      <4> QED
        BY <1>0, <3>1, <4>1, Zenon DEF Processes
    <3> QED
      BY <3>3, <3>4, Zenon
  <2> QED
    BY <2>1, <2>2, Zenon
<1> HIDE DEF p
<1>2. a[1] \in {"provider", "tool"} /\ a[2] \in Nat
  BY BoundsAssumption DEF Attempts
<1>3. Consume(a, outcome) = [Began(p, a) EXCEPT !.consumed = @ \cup {a}]
  BY Zenon DEF Consume, p
<1>4. proc.turns \in Nat /\ proc.tools \in Nat
  BY <1>0, Zenon DEF Processes
<1> DEFINE q == Began(p, a)
<1>5. /\ q \in Processes /\ q.pc = p.pc /\ q.outcome = p.outcome /\ q.completed = p.completed
      /\ q.turns = (IF a[1] = "provider" THEN a[2] ELSE p.turns)
      /\ q.tools = (IF a[1] = "tool" THEN a[2] ELSE p.tools)
  BY <1>1, <1>2, Zenon DEF Began, Processes
<1> HIDE DEF q
<1>6. q.turns >= proc.turns /\ q.tools >= proc.tools
  BY <1>1, <1>2, <1>4, <1>5
<1>7. Consume(a, outcome) = [q EXCEPT !.consumed = @ \cup {a}]
  BY <1>3, Zenon DEF q
<1> QED
  BY <1>1, <1>5, <1>6, <1>7 DEF Processes

\* recover_attempt with the number after the last one: what it does not find
\* completed has no intent either.
LEMMA RecoverPreserves ==
  ASSUME IInv, NEW a \in Attempts, NEW new, recover_attempt(a, new), SnapshotOnly,
         \/ proc.pc = "turn" /\ a = <<"provider", proc.turns + 1>> /\ new = "provider.intent"
         \/ proc.pc = "tool" /\ a = <<"tool", proc.tools + 1>> /\ new = "tool.intent"
  PROVE  IInv'
<1> DEFINE Number == IF a[1] = "provider" THEN proc.turns ELSE proc.tools
           Reached == Counted(proc.cur)
<1>1. /\ proc \in Processes /\ proc.turns \in Nat /\ proc.tools \in Nat
      /\ recovery \in Seq(SnapshotRecords)
  BY Zenon DEF IInv, Types, Processes
<1>2. a[2] = Number + 1 /\ a[2] > Number /\ a[2] \in Nat /\ a[1] \in {"provider", "tool"}
  BY <1>1
<1>3. CoordinatorTypeOK' /\ Flagged'
  BY CoordinatorSteps, Zenon DEF IInv, Types, SnapshotOnly
<1>4. Uncertain = {} /\ Uncertain' = {}
  BY Zenon DEF IInv, Standing, Working, SnapshotOnly, Uncertain
<1>5. ASSUME proc' \in Processes, recovery' \in Seq(SnapshotRecords),
             proc'.completed = proc.completed, proc'.turns >= proc.turns, proc'.tools >= proc.tools,
             proc'.pc \in Working \cup Ending,
             proc'.pc \in Intending => proc'.cur \notin intents /\ Reached',
             OutcomeFits'
      PROVE  IInv'
  <2>1. Types' /\ Ledger'
    BY <1>3, <1>5, Zenon DEF Types, Ledger, OutcomesOf, IInv, SnapshotOnly
  <2>2. \A b \in Attempts : b[2] \in Nat
    BY BoundsAssumption DEF Attempts
  <2>3. \A b \in Attempts : Counted(b) => Counted(b)'
    <3>1. proc'.turns \in Nat /\ proc'.tools \in Nat
      BY <1>5, Zenon DEF Processes
    <3> QED
      BY <1>1, <1>5, <2>2, <3>1, SMTT(60) DEF Counted
  <2>4. proc.pc # "down"
    BY Zenon
  <2>5. Passed'
    BY <1>5, <2>3, <2>4, Zenon DEF Passed, IInv, Types, SnapshotOnly
  <2>6. Standing'
    BY <1>4, <1>5, Zenon DEF Standing, SnapshotOnly, Working, Ending, InAttempt, Undispatched, Intending
  <2> QED
    BY <1>3, <1>5, <2>1, <2>5, <2>6, Zenon DEF IInv
<1>6. CASE RecoveryDiverges
  <2>1. /\ proc' \in Processes /\ proc'.pc = "claim" /\ proc'.completed = proc.completed
        /\ proc'.turns = proc.turns /\ proc'.tools = proc.tools
    BY <1>1, <1>6, Zenon DEF RecoveryDiverges, Processes, PCs, Ending
  <2>2. OutcomeFits'
    BY <2>1, Zenon DEF OutcomeFits, ProviderSteps, ToolSteps, Answered, Deciding
  <2>3. recovery' \in Seq(SnapshotRecords)
    BY <1>1, <1>6, Zenon DEF RecoveryDiverges
  <2> QED
    BY <1>1, <1>5, <2>1, <2>2, <2>3 DEF Ending, Intending
<1>7. ASSUME a \in proc.completed,
             proc' = Consume(a, results[a]) \/ proc' = [Consume(a, results[a]) EXCEPT !.recorded = @ + 1],
             recovery' = recovery \/ recovery' = Append(recovery, <<"attempt", a, results[a]>>)
      PROVE  IInv'
  <2>1. results[a] \in OutcomesOf(a) /\ results[a] \in Outcomes
    BY <1>7, Zenon DEF IInv, Passed, Ledger, Types
  <2> DEFINE p == Consume(a, results[a])
  <2>2. /\ p \in Processes /\ p.pc \in {"phase.failed", "message", "tool.restarted"}
        /\ p.pc = "message" => p.outcome \in Answers
        /\ p.completed = proc.completed /\ p.turns >= proc.turns /\ p.tools >= proc.tools
    BY <1>2, <2>1, Consumes, Zenon
  <2> HIDE DEF p
  <2>3. proc' = p \/ proc' = [p EXCEPT !.recorded = @ + 1]
    BY <1>7, Zenon DEF p
  <2>4. /\ proc' \in Processes /\ proc'.pc \in {"phase.failed", "message", "tool.restarted"}
        /\ proc'.pc = "message" => proc'.outcome \in Answers
        /\ proc'.completed = proc.completed /\ proc'.turns >= proc.turns /\ proc'.tools >= proc.tools
    BY <2>2, <2>3 DEF Processes
  <2>5. recovery' \in Seq(SnapshotRecords)
    <3>1. PICK r \in SnapshotRecords : r = <<"attempt", a, results[a]>>
      BY <2>1, Zenon DEF SnapshotRecords
    <3>2. recovery' = recovery \/ recovery' = Append(recovery, r)
      BY <1>7, <3>1, Zenon
    <3>3. recovery \in Seq(SnapshotRecords)
      BY <1>1, Zenon
    <3> QED
      BY <3>2, <3>3
  <2>6. OutcomeFits'
    BY <2>4, Zenon DEF OutcomeFits, ProviderSteps, ToolSteps, Answered, Deciding
  <2> QED
    BY <1>5, <2>4, <2>5, <2>6, Zenon DEF Working, Ending, Intending
<1>8. ASSUME a \notin proc.completed, proc' = [Began(proc, a) EXCEPT !.pc = new], UNCHANGED recovery
      PROVE  IInv'
  <2>1. a \notin intents
    BY <1>1, <1>2, <1>8 DEF IInv, Passed, Counted
  <2>2. new \in Intending /\ new \in PCs
    BY Zenon DEF Intending, PCs, Working
  <2>3. /\ proc' \in Processes /\ proc'.pc = new /\ proc'.cur = a /\ proc'.completed = proc.completed
        /\ proc'.turns = (IF a[1] = "provider" THEN a[2] ELSE proc.turns)
        /\ proc'.tools = (IF a[1] = "tool" THEN a[2] ELSE proc.tools)
    BY <1>1, <1>2, <1>8, <2>2, Zenon DEF Began, Processes
  <2>4. proc'.turns >= proc.turns /\ proc'.tools >= proc.tools
    BY <1>1, <1>2, <2>3
  <2>5. Reached'
    BY <1>1, <1>2, <2>3 DEF Counted
  <2>6. OutcomeFits'
    BY <2>3 DEF OutcomeFits, ProviderSteps, ToolSteps, Answered, Deciding
  <2>7. recovery' \in Seq(SnapshotRecords)
    BY <1>1, <1>8, Zenon
  <2> QED
    BY <1>5, <2>1, <2>2, <2>3, <2>4, <2>5, <2>6, <2>7, Zenon DEF Working, Intending
<1> QED
  BY <1>6, <1>7, <1>8, Zenon DEF recover_attempt

\* provider_turn and tool_call ask for the attempt after the last one.
LEMMA AttemptBegins ==
  ASSUME IInv, ProviderTurn \/ ToolCall
  PROVE  IInv'
<1>0. proc.turns \in Nat /\ proc.tools \in Nat
  BY Zenon DEF IInv, Types, Processes
<1>1. CASE ProviderTurn
  <2>1. <<"provider", proc.turns + 1>> \in Attempts
    BY <1>0, <1>1, BoundsAssumption DEF ProviderTurn, Attempts
  <2>2. CASE effect_dispatch_allowed
    BY <1>1, <2>1, <2>2, RecoverPreserves, Zenon DEF ProviderTurn, At
  <2>3. CASE ~effect_dispatch_allowed
    BY <1>1, <2>3, LocalFailPreserves, Zenon DEF ProviderTurn, At, Errors
  <2> QED
    BY <2>2, <2>3, Zenon
<1>2. CASE ToolCall
  <2>1. <<"tool", proc.tools + 1>> \in Attempts
    BY <1>0, <1>2, BoundsAssumption DEF ToolCall, Attempts
  <2> QED
    BY <1>2, <2>1, RecoverPreserves, Zenon DEF ToolCall, At
<1> QED
  BY <1>1, <1>2, Zenon

\* The append of an intent, which no attempt had before.
LEMMA IntentPreserves ==
  ASSUME IInv, AttemptIntent
  PROVE  IInv'
<1>1. PICK next \in {"provider.claim", "tool.preflight"} :
        /\ \/ proc.pc = "provider.intent" /\ next = "provider.claim"
           \/ proc.pc = "tool.intent" /\ next = "tool.preflight"
        /\ WriteIntent(next)
  BY Zenon DEF AttemptIntent, At
<1>2. /\ UNCHANGED <<results, recovery, events, synced, contexts, dispatched>>
      /\ CoordinatorTypeOK' /\ Flagged'
  BY CoordinatorSteps, Zenon DEF AttemptIntent, IInv, Types
<1>3. /\ proc \in Processes /\ proc.cur \in Attempts /\ proc.cur \notin intents
      /\ Uncertain = {} /\ Counted(proc.cur)
  BY <1>1, Zenon DEF IInv, Types, Processes, Standing, Working, Intending
<1>4. CASE ~effect_dispatch_allowed
  BY <1>1, <1>2, <1>4, FailPreserves, Zenon DEF WriteIntent, Errors
<1>5. CASE effect_dispatch_allowed /\ ~PrefixReplayed
  <2>1. proc' = [proc EXCEPT !.event_commit_failed = TRUE, !.pc = "claim"] /\ UNCHANGED intents
    BY <1>1, <1>5, Zenon DEF WriteIntent
  <2>2. /\ proc' \in Processes /\ proc'.pc = "claim" /\ proc'.outcome = proc.outcome
        /\ proc'.turns = proc.turns /\ proc'.tools = proc.tools
        /\ proc'.cur = proc.cur /\ proc'.completed = proc.completed
    BY <1>3, <2>1, Zenon DEF Processes, PCs, Ending
  <2>3. Quiet
    BY <1>2, <2>1, <2>2, Zenon DEF Quiet, Types, IInv
  <2>4. Leads("claim") /\ "claim" \in PCs
    BY <1>1, Zenon DEF Leads, PCs, Ending, Working, InAttempt, Undispatched, Intending, ProviderSteps, ToolSteps,
                Answered, Deciding
  <2> QED
    BY <2>2, <2>3, <2>4, LeadsPreserves, Zenon
<1>6. CASE effect_dispatch_allowed /\ PrefixReplayed
  <2>1. Goto(next) /\ intents' = intents \cup {proc.cur}
    BY <1>1, <1>6, Zenon DEF WriteIntent
  <2>2. /\ proc' \in Processes /\ proc'.pc = next
        /\ proc'.turns = proc.turns /\ proc'.tools = proc.tools
        /\ proc'.cur = proc.cur /\ proc'.completed = proc.completed
    BY <1>1, <1>3, <2>1, Zenon DEF Goto, Processes, PCs, InAttempt, Undispatched
  <2>3. results[proc.cur] = "none" /\ dispatched[proc.cur] = 0
    BY <1>3 DEF IInv, Ledger, Types
  <2>4. Types'
    BY <1>2, <1>3, <2>1, <2>2, Zenon DEF Types, IInv
  <2>5. Ledger'
    BY <1>2, <2>1, Zenon DEF IInv, Ledger
  <2>6. Passed'
    BY <1>1, <1>2, <1>3, <2>1, <2>2, Zenon DEF IInv, Passed, Counted
  <2>7. Uncertain' = {proc.cur}
    BY <1>2, <1>3, <2>1, <2>3, Zenon DEF Uncertain
  <2>8. Standing'
    BY <1>1, <1>2, <2>2, <2>3, <2>7, Zenon DEF Standing, Working, Intending
  <2>9. OutcomeFits'
    BY <1>1, <2>2, Zenon DEF IInv, OutcomeFits, ProviderSteps, ToolSteps, Answered, Deciding
  <2> QED
    BY <1>2, <2>4, <2>5, <2>6, <2>8, <2>9, Zenon DEF IInv
<1> QED
  BY <1>4, <1>5, <1>6, Zenon

\* The call to the provider and the Start of a Tool, of an attempt that has
\* not been dispatched.
LEMMA DispatchPreserves ==
  ASSUME IInv, ProviderDispatch \/ ToolStart
  PROVE  IInv'
<1>1. /\ UNCHANGED <<intents, results, recovery, events, synced, contexts>>
      /\ CoordinatorTypeOK' /\ Flagged'
  <2>1. UNCHANGED <<intents, results, recovery, events, synced, contexts>>
    BY Zenon DEF ProviderDispatch, ToolStart, disk
  <2>2. \E p \in Permits : claim_operation(p)
    BY Zenon DEF ProviderDispatch, ToolStart, Permits
  <2> QED
    BY <2>1, <2>2, CoordinatorSteps, Zenon DEF IInv, Types
<1>2. /\ proc \in Processes /\ proc.cur \in Attempts /\ dispatched[proc.cur] = 0
      /\ Uncertain = {proc.cur} /\ proc.cur \in intents
      /\ proc.pc \in InAttempt /\ proc.pc # "down"
  BY Zenon DEF IInv, Types, Processes, Standing, Undispatched, InAttempt, ProviderDispatch, ToolStart, At,
         Uncertain
<1>3. CASE ~claim_allowed
  <2>1. Persist("cancelled", "attempt.terminal") /\ UNCHANGED dispatched
    BY <1>3, Zenon DEF ProviderDispatch, ToolStart
  <2>2. "cancelled" \in Outcomes /\ "attempt.terminal" \in PCs
    BY Zenon DEF Outcomes, ProviderOutcomes, PCs, InAttempt
  <2>3. Decides("cancelled", "attempt.terminal")
    BY <1>2, Zenon DEF Decides, Working, InAttempt, Undispatched, ProviderSteps, ToolSteps, Answered, Deciding,
                OutcomesOf, ProviderOutcomes, ToolOutcomes, Intending
  <2> QED
    BY <1>1, <2>1, <2>2, <2>3, PersistPreserves, Zenon
<1>4. CASE claim_allowed
  <2>1. PICK next \in {"provider.flight", "tool.flight"} :
          /\ Goto(next) /\ dispatched' = [dispatched EXCEPT ![proc.cur] = @ + 1]
          /\ next = "provider.flight" => proc.pc = "provider.claim"
          /\ next = "tool.flight" => proc.pc = "tool.claim"
    BY <1>4, Zenon DEF ProviderDispatch, ToolStart, At
  <2>2. /\ proc' \in Processes /\ proc'.pc = next
        /\ proc'.turns = proc.turns /\ proc'.tools = proc.tools
        /\ proc'.cur = proc.cur /\ proc'.completed = proc.completed
    BY <1>2, <2>1, Zenon DEF Goto, Processes, PCs, InAttempt
  <2>3. Types'
    BY <1>1, <1>2, <2>1, <2>2 DEF Types, IInv
  <2>4. Ledger'
    BY <1>1, <1>2, <2>1 DEF IInv, Ledger, Types
  <2>5. Passed'
    BY <1>1, <1>2, <2>2, Zenon DEF IInv, Passed, Counted
  <2>6. Uncertain' = {proc.cur}
    BY <1>1, <1>2, Zenon DEF Uncertain
  <2>7. Standing'
    BY <2>1, <2>2, <2>6, Zenon DEF Standing, Working, Intending, Undispatched
  <2>8. OutcomeFits'
    BY <2>1, <2>2, Zenon DEF IInv, OutcomeFits, ProviderSteps, ToolSteps, Answered, Deciding
  <2> QED
    BY <1>1, <2>3, <2>4, <2>5, <2>7, <2>8, Zenon DEF IInv
<1> QED
  BY <1>3, <1>4, Zenon

\* A result in the Run Log, of the uncertain attempt.
LEMMA TerminalPreserves ==
  ASSUME IInv, AttemptTerminal
  PROVE  IInv'
<1>1. /\ UNCHANGED <<intents, recovery, events, synced, contexts, dispatched>>
      /\ CoordinatorTypeOK' /\ Flagged'
  BY CoordinatorSteps, Zenon DEF AttemptTerminal, IInv, Types
<1>2. /\ proc \in Processes /\ proc.cur \in Attempts /\ proc.pc # "down"
      /\ proc.outcome \in OutcomesOf(proc.cur) /\ proc.outcome \in Outcomes
      /\ Uncertain = {proc.cur} /\ proc.cur \in intents
  BY Zenon DEF IInv, Types, Processes, Standing, OutcomeFits, Deciding, InAttempt, AttemptTerminal, At, Uncertain
<1>3. proc.outcome # "none"
  BY <1>2, Zenon DEF OutcomesOf, ProviderOutcomes, ToolOutcomes, Answers
<1>4. /\ proc' \in Processes /\ proc'.pc = "attempt.record" /\ proc'.outcome = proc.outcome
      /\ proc'.turns = proc.turns /\ proc'.tools = proc.tools
      /\ proc'.cur = proc.cur /\ proc'.completed = proc.completed
  BY <1>2, Zenon DEF AttemptTerminal, Goto, Processes, PCs, Working
<1>5. results' = [results EXCEPT ![proc.cur] = proc.outcome]
  BY Zenon DEF AttemptTerminal
<1>6. Types'
  BY <1>1, <1>2, <1>4, <1>5, Zenon DEF Types, IInv
<1>7. Ledger'
  BY <1>1, <1>2, <1>5, Zenon DEF IInv, Ledger, Types, OutcomesOf
<1>8. Passed'
  <2>1. \A a \in proc.completed : results'[a] # "none"
    BY <1>2, <1>3, <1>5, Zenon DEF IInv, Passed, Types, Processes
  <2> QED
    BY <1>1, <1>2, <1>4, <2>1, Zenon DEF IInv, Passed, Counted
<1>9. Uncertain' = {}
  BY <1>1, <1>2, <1>3, <1>5, Zenon DEF Uncertain, IInv, Types
<1>10. Standing'
  BY <1>4, <1>9, Zenon DEF Standing, Intending, InAttempt, Undispatched
<1>11. OutcomeFits'
  BY <1>2, <1>4, Zenon DEF OutcomeFits, ProviderSteps, ToolSteps, Answered, OutcomesOf
<1> QED
  BY <1>1, <1>6, <1>7, <1>8, <1>10, <1>11, Zenon DEF IInv

\* The copy of a result in the recovery snapshot.
LEMMA RecordPreserves ==
  ASSUME IInv, AttemptRecord
  PROVE  IInv'
<1>1. UNCHANGED <<intents, results, events, synced, contexts, dispatched>>
  BY Zenon DEF AttemptRecord
<1>2. CoordinatorTypeOK' /\ Flagged'
  <2>1. CASE guard = "none"
    BY <2>1, CoordinatorSteps, Zenon DEF AttemptRecord, IInv, Types
  <2>2. CASE guard # "none"
    <3>1. release_operation(guard)
      BY <2>2, Zenon DEF AttemptRecord
    <3> QED
      BY <3>1, Zenon DEF release_operation, IInv, Types, CoordinatorTypeOK, Flagged, OperationStates, Permits, Bounded
  <2> QED
    BY <2>1, <2>2, Zenon
<1>3. /\ proc \in Processes /\ proc.cur \in Attempts /\ proc.pc = "attempt.record"
      /\ proc.outcome \in OutcomesOf(proc.cur) /\ proc.outcome \in Outcomes
  BY Zenon DEF IInv, Types, Processes, OutcomeFits, Deciding, AttemptRecord, At
<1>4. proc.cur[1] \in {"provider", "tool"}
  BY <1>3, Zenon DEF Attempts
<1>5. ASSUME proc' \in Processes, recovery' \in Seq(SnapshotRecords),
             proc'.pc \in {"phase.failed", "tool.end", "message", "claim"},
             proc'.pc = "message" => proc'.outcome \in Answers,
             proc'.turns = proc.turns, proc'.tools = proc.tools,
             proc'.cur = proc.cur, proc'.completed = proc.completed
      PROVE  IInv'
  <2>1. Quiet
    BY <1>1, <1>2, <1>5, Zenon DEF Quiet, Types, IInv
  <2>2. Follows
    BY <1>3, <1>5, Zenon DEF Follows, Working, Intending, InAttempt, Undispatched
  <2>3. OutcomeFits'
    BY <1>5, Zenon DEF OutcomeFits, ProviderSteps, ToolSteps, Answered, Deciding
  <2> QED
    BY <2>1, <2>2, <2>3, QuietPreserves, Zenon
<1>6. CASE ensure_live_append
  <2>1. proc' = Recorded /\ recovery' = Append(recovery, <<"attempt", proc.cur, proc.outcome>>)
    BY <1>6, Zenon DEF AttemptRecord
  <2>2. <<"attempt", proc.cur, proc.outcome>> \in SnapshotRecords
    BY <1>3, Zenon DEF SnapshotRecords
  <2>3. recovery' \in Seq(SnapshotRecords)
    BY <2>1, <2>2 DEF IInv, Types
  <2>4. /\ proc' \in Processes /\ proc'.pc \in {"phase.failed", "tool.end", "message", "claim"}
        /\ proc'.pc = "message" => proc'.outcome \in Answers
        /\ proc'.turns = proc.turns /\ proc'.tools = proc.tools
        /\ proc'.cur = proc.cur /\ proc'.completed = proc.completed
    <3>1. CASE proc.cur[1] = "tool"
      <4>1. Recorded = IF proc.outcome = "preflight"
                       THEN [proc EXCEPT !.pc = "phase.failed", !.error = "runtime_error"]
                       ELSE [proc EXCEPT !.pc = "tool.end"]
        BY <3>1, Zenon DEF Recorded
      <4> QED
        BY <1>3, <2>1, <4>1, ZenonT(60) DEF Processes, Errors, PCs, Working, Ending
    <3>2. CASE proc.cur[1] = "provider"
      <4>1. PICK outcome \in ProviderOutcomes : Recorded = ProviderOutcome(outcome)
        <5>1. "cancelled" \in ProviderOutcomes /\ proc.outcome \in ProviderOutcomes
          BY <1>3, <3>2, Zenon DEF OutcomesOf, ProviderOutcomes
        <5>2. Recorded = ProviderOutcome("cancelled") \/ Recorded = ProviderOutcome(proc.outcome)
          BY <3>2, Zenon DEF Recorded
        <5> QED
          BY <5>1, <5>2, Zenon
      <4> QED
        BY <2>1, <4>1, ProviderOutcomeTyped, Zenon
    <3> QED
      BY <1>4, <3>1, <3>2, Zenon
  <2> QED
    BY <1>5, <2>3, <2>4, Zenon
<1>7. CASE ~ensure_live_append
  <2>1. RecoveryDiverges
    BY <1>7, Zenon DEF AttemptRecord
  <2>2. /\ proc' \in Processes /\ proc'.pc = "claim"
        /\ proc'.turns = proc.turns /\ proc'.tools = proc.tools
        /\ proc'.cur = proc.cur /\ proc'.completed = proc.completed
    BY <1>3, <2>1, Zenon DEF RecoveryDiverges, Processes, PCs, Ending
  <2>3. recovery' \in Seq(SnapshotRecords)
    BY <2>1, Zenon DEF RecoveryDiverges, IInv, Types
  <2> QED
    BY <1>5, <2>2, <2>3, Zenon
<1> QED
  BY <1>6, <1>7, Zenon

\* The provider's return is one of the outcomes the process knows; that it saw
\* Ctrl-C is one only when dispatch is no longer allowed.
LEMMA OutcomeCovered ==
  ASSUME IInv, ProviderReturned
  PROVE  ~effect_dispatch_allowed \/ proc.outcome \in Answers \cup {"failed", "lost"}
BY Zenon DEF IInv, OutcomeFits, Flagged, effect_dispatch_allowed, ProviderReturned, At, Bounded, Permits, Types,
       CoordinatorTypeOK, Answers

\* Steps inside an attempt: under a permit, and between two of them.
LEMMA AttemptSteps ==
  ASSUME IInv,
         \/ ProviderReturns \/ ProviderReturned \/ AttemptCommit \/ ToolPreflight
         \/ ToolPreflightReturns \/ ToolReturns
  PROVE  IInv'
<1>1. /\ UNCHANGED <<intents, results, recovery, events, synced, contexts, dispatched>>
      /\ CoordinatorTypeOK' /\ Flagged'
  <2>1. UNCHANGED <<intents, results, recovery, events, synced, contexts, dispatched>>
    BY Zenon DEF ProviderReturns, ProviderReturned, AttemptCommit, ToolPreflight, ToolPreflightReturns,
           ToolReturns, disk
  <2>2. CASE ProviderReturned
    <3>1. claim_terminal \/ UNCHANGED coordinator
      BY <2>2, OutcomeCovered, Zenon DEF ProviderReturned
    <3> QED
      BY <2>1, <3>1, CoordinatorSteps, Zenon DEF IInv, Types
  <2>3. CASE ~ProviderReturned
    <3>1. \E p \in Permits : claim_operation(p) \/ release_operation(p)
      BY <2>3, Zenon DEF ProviderReturns, AttemptCommit, ToolPreflight, ToolPreflightReturns, ToolReturns, Permits
    <3> QED
      BY <2>1, <3>1, CoordinatorSteps, Zenon DEF IInv, Types
  <2> QED
    BY <2>2, <2>3, Zenon
<1>2. /\ proc \in Processes /\ proc.cur \in Attempts /\ proc.outcome \in Outcomes
      /\ proc.cur[1] \in {"provider", "tool"}
  BY Zenon DEF IInv, Types, Processes, Attempts
<1> USE DEF At, Working, InAttempt, Undispatched, Intending, ProviderSteps, ToolSteps, Answered, Deciding,
            PCs, Ending
<1>3. CASE ProviderReturns
  <2>1. PICK answer \in Answers \cup {"failed", "lost"} \cup (IF cancelled THEN {"cancelled"} ELSE {}) :
          Persist(answer, "provider.returned")
    BY <1>3, Zenon DEF ProviderReturns
  <2>2. answer \in Outcomes /\ "provider.returned" \in PCs
    BY <2>1, Zenon DEF Outcomes, ProviderOutcomes
  <2>3. answer = "cancelled" => cancelled'
    BY <1>3, <2>1, Zenon DEF ProviderReturns, release_operation, Answers
  <2>4. proc.cur[1] = "provider" /\ proc.pc = "provider.flight"
    BY <1>3, Zenon DEF ProviderReturns, IInv, OutcomeFits
  <2>5. Decides(answer, "provider.returned")
    BY <2>1, <2>3, <2>4, Zenon DEF Decides
  <2> QED
    BY <1>1, <2>1, <2>2, <2>5, PersistPreserves, Zenon
<1>4. CASE ProviderReturned
  <2>1. proc.cur[1] = "provider" /\ proc.pc = "provider.returned"
    BY <1>4, Zenon DEF ProviderReturned, IInv, OutcomeFits
  <2>2. \/ Persist("cancelled", "attempt.terminal")
        \/ proc.outcome = "failed" /\ Goto("attempt.terminal")
        \/ Fail("runtime_error", TRUE)
        \/ proc.outcome \in Answers /\ Goto("attempt.commit")
    BY <1>4, OutcomeCovered, Zenon DEF ProviderReturned
  <2>3. CASE Persist("cancelled", "attempt.terminal")
    <3>1. Decides("cancelled", "attempt.terminal")
      BY <2>1, Zenon DEF Decides, OutcomesOf, ProviderOutcomes
    <3> QED
      BY <1>1, <2>3, <3>1, PersistPreserves, Zenon DEF Outcomes, ProviderOutcomes
  <2>4. CASE proc.outcome = "failed" /\ Goto("attempt.terminal")
    <3>1. Decides(proc.outcome, "attempt.terminal")
      BY <2>1, <2>4, Zenon DEF Decides, OutcomesOf, ProviderOutcomes
    <3> QED
      BY <1>1, <1>2, <2>4, <3>1, PersistPreserves, Zenon
  <2>5. CASE Fail("runtime_error", TRUE)
    BY <1>1, <2>1, <2>5, FailPreserves, Zenon DEF Errors
  <2>6. CASE proc.outcome \in Answers /\ Goto("attempt.commit")
    <3>1. Decides(proc.outcome, "attempt.commit")
      BY <2>1, <2>6, Zenon DEF Decides, OutcomesOf, ProviderOutcomes
    <3> QED
      BY <1>1, <1>2, <2>6, <3>1, PersistPreserves, Zenon
  <2> QED
    BY <2>2, <2>3, <2>4, <2>5, <2>6, Zenon
<1>5. CASE AttemptCommit
  <2>1. proc.outcome \in OutcomesOf(proc.cur) /\ proc.pc = "attempt.commit"
    BY <1>5, Zenon DEF AttemptCommit, IInv, OutcomeFits
  <2>2. \/ Goto("attempt.terminal")
        \/ Persist("cancelled", "attempt.terminal") \/ Persist(proc.outcome, "attempt.terminal")
    BY <1>5, Zenon DEF AttemptCommit
  <2>3. Decides("cancelled", "attempt.terminal") /\ Decides(proc.outcome, "attempt.terminal")
    BY <2>1, Zenon DEF Decides, OutcomesOf, ProviderOutcomes, ToolOutcomes
  <2> QED
    BY <1>1, <1>2, <2>2, <2>3, PersistPreserves, Zenon DEF Outcomes, ProviderOutcomes
<1>6. CASE ToolPreflight
  <2>1. Goto("tool.preflighting") \/ Fail("cancelled", TRUE)
    BY <1>6, Zenon DEF ToolPreflight
  <2>2. Decides(proc.outcome, "tool.preflighting")
    BY <1>6, Zenon DEF ToolPreflight, Decides, IInv, OutcomeFits
  <2>3. CASE Goto("tool.preflighting")
    BY <1>1, <1>2, <2>2, <2>3, PersistPreserves, Zenon
  <2>4. CASE Fail("cancelled", TRUE)
    BY <1>1, <1>6, <2>4, FailPreserves, Zenon DEF Errors, ToolPreflight
  <2> QED
    BY <2>1, <2>3, <2>4, Zenon
<1>7. CASE ToolPreflightReturns
  <2>1. \/ Goto("tool.started") \/ Persist("preflight", "attempt.commit")
        \/ Fail("cancelled", TRUE) \/ Fail("runtime_error", TRUE)
    BY <1>7, Zenon DEF ToolPreflightReturns
  <2>2. proc.cur[1] = "tool" /\ proc.pc = "tool.preflighting"
    BY <1>7, Zenon DEF ToolPreflightReturns, IInv, OutcomeFits
  <2>3. Decides(proc.outcome, "tool.started") /\ Decides("preflight", "attempt.commit")
    BY <2>2, Zenon DEF Decides, OutcomesOf, ToolOutcomes
  <2>4. CASE Goto("tool.started") \/ Persist("preflight", "attempt.commit")
    BY <1>1, <1>2, <2>3, <2>4, PersistPreserves, Zenon DEF Outcomes, ToolOutcomes
  <2>5. CASE Fail("cancelled", TRUE) \/ Fail("runtime_error", TRUE)
    BY <1>1, <2>2, <2>5, FailPreserves, Zenon DEF Errors
  <2> QED
    BY <2>1, <2>4, <2>5, Zenon
<1>8. CASE ToolReturns
  <2>1. \/ \E outcome \in {"ok", "exit", "code", "cancelled"} :
             Persist(outcome, "attempt.commit") \/ Persist(outcome, "attempt.terminal")
        \/ Goto("tool.lost")
    BY <1>8, Zenon DEF ToolReturns
  <2>2. proc.cur[1] = "tool" /\ proc.pc = "tool.flight"
    BY <1>8, Zenon DEF ToolReturns, IInv, OutcomeFits
  <2>3. ASSUME NEW outcome \in {"ok", "exit", "code", "cancelled"}, NEW next \in {"attempt.commit", "attempt.terminal"},
               Persist(outcome, next)
        PROVE  IInv'
    <3>1. Decides(outcome, next) /\ outcome \in Outcomes
      BY <2>2, Zenon DEF Decides, OutcomesOf, ToolOutcomes, Outcomes
    <3> QED
      BY <1>1, <2>3, <3>1, PersistPreserves, Zenon
  <2>4. Decides(proc.outcome, "tool.lost")
    BY <2>2, Zenon DEF Decides
  <2>5. CASE Goto("tool.lost")
    BY <1>1, <1>2, <2>4, <2>5, PersistPreserves, Zenon
  <2> QED
    BY <2>1, <2>3, <2>5, Zenon
<1> QED
  BY <1>3, <1>4, <1>5, <1>6, <1>7, <1>8, Zenon

\* The end of an execution.
LEMMA EndSteps ==
  ASSUME IInv, ClaimTerminal \/ TerminalBoundary \/ FinishRun
  PROVE  IInv'
<1> USE DEF At, Leads, PCs, Working, InAttempt, Undispatched, Ending, Intending, ProviderSteps, ToolSteps,
            Answered, Deciding
<1>0. /\ proc \in Processes /\ proc.emitted + 1 \in Nat /\ proc.error \in Errors
      /\ events \in Seq(EventRecords)
  BY DEF IInv, Types, Processes
<1>1. CASE ClaimTerminal
  <2>1. /\ proc' \in Processes /\ proc'.pc \in {"finish", "terminal"} /\ proc'.outcome = proc.outcome
        /\ proc'.turns = proc.turns /\ proc'.tools = proc.tools
        /\ proc'.cur = proc.cur /\ proc'.completed = proc.completed
    <3>1. PICK next \in {"finish", "terminal"}, error \in Errors :
            proc' = [proc EXCEPT !.error = error, !.pc = next]
      BY <1>0, <1>1, Zenon DEF ClaimTerminal, Errors
    <3>2. next \in PCs
      BY Zenon
    <3> HIDE DEF PCs
    <3> QED
      BY <1>0, <3>1, <3>2, Zenon DEF Processes
  <2>2. CoordinatorTypeOK' /\ Flagged'
    BY <1>1, CoordinatorSteps, Zenon DEF ClaimTerminal, IInv, Types
  <2>3. Quiet
    BY <1>1, <2>1, <2>2, Zenon DEF Quiet, Types, IInv, ClaimTerminal, disk
  <2> QED
    BY <1>1, <2>1, <2>3, LeadsPreserves, Zenon DEF ClaimTerminal
<1>2. CASE TerminalBoundary
  <2>1. CASE ensure_completed_attempts_consumed
    <3>1. <<"terminal", proc.error # "none", proc.emitted + 1>> \in SnapshotRecords
      BY <1>0, Zenon DEF SnapshotRecords
    <3> QED
      BY <1>2, <2>1, <3>1, BoundaryPreserves, Zenon DEF TerminalBoundary
  <2>2. CASE ~ensure_completed_attempts_consumed
    <3>1. RecoveryDiverges
      BY <1>2, <2>2, Zenon DEF TerminalBoundary
    <3>2. /\ proc' \in Processes /\ proc'.pc = "finish" /\ proc'.outcome = proc.outcome
          /\ proc'.turns = proc.turns /\ proc'.tools = proc.tools
          /\ proc'.cur = proc.cur /\ proc'.completed = proc.completed
      BY <1>0, <1>2, <3>1, ZenonT(60) DEF RecoveryDiverges, Processes, TerminalBoundary
    <3>3. CoordinatorTypeOK' /\ Flagged'
      BY <1>2, CoordinatorSteps, Zenon DEF TerminalBoundary, SnapshotOnly, IInv, Types
    <3>4. Quiet
      BY <1>2, <3>1, <3>2, <3>3, Zenon DEF Quiet, Types, IInv, TerminalBoundary, SnapshotOnly, RecoveryDiverges
    <3> QED
      BY <1>2, <3>2, <3>4, LeadsPreserves, Zenon DEF TerminalBoundary
  <2> QED
    BY <2>1, <2>2, Zenon
<1>3. CASE FinishRun
  <2>1. /\ proc' \in Processes /\ proc'.pc = "return" /\ proc'.outcome = proc.outcome
        /\ proc'.turns = proc.turns /\ proc'.tools = proc.tools
        /\ proc'.cur = proc.cur /\ proc'.completed = proc.completed
    BY <1>0, <1>3, ZenonT(60) DEF FinishRun, Goto, Processes
  <2>2. CoordinatorTypeOK' /\ Flagged'
    BY <1>3, CoordinatorSteps, Zenon DEF FinishRun, IInv, Types
  <2>3. synced' \in Nat
    BY <1>0, <1>3 DEF FinishRun
  <2>4. Quiet
    BY <1>3, <2>1, <2>2, <2>3, Zenon DEF Quiet, Types, IInv, FinishRun
  <2> QED
    BY <1>3, <2>1, <2>4, LeadsPreserves, Zenon DEF FinishRun
<1> QED
  BY <1>1, <1>2, <1>3, Zenon

\* The state of a process that is not there.
LEMMA NoProcessTyped == NoProcess \in Processes
<1>1. <<"provider", 1>> \in Attempts
  BY BoundsAssumption DEF Attempts
<1> QED
  BY <1>1, Zenon DEF NoProcess, Processes, PCs, Outcomes, Errors

\* A process that ends, however it does, leaves the disk's part of the invariant.
LEMMA DownPreserves ==
  ASSUME IInv, proc' = NoProcess, UNCHANGED <<intents, results, recovery, contexts, dispatched, synced>>,
         events' \in Seq(EventRecords), CoordinatorTypeOK', Flagged'
  PROVE  IInv'
<1>1. Types'
  BY NoProcessTyped, Zenon DEF Types, IInv
<1>2. proc'.pc = "down"
  BY Zenon DEF NoProcess
<1>3. Ledger' /\ Passed'
  BY <1>2, Zenon DEF IInv, Ledger, OutcomesOf, Passed
<1>4. Standing' /\ OutcomeFits'
  BY <1>2, Zenon DEF Standing, OutcomeFits, Working, InAttempt, Undispatched, Intending, ProviderSteps, ToolSteps,
              Answered, Deciding
<1> QED
  BY <1>1, <1>3, <1>4, Zenon DEF IInv

\* The end of the process: its return, a crash, a Ctrl-C that exits.
LEMMA ProcessSteps ==
  ASSUME IInv, Return \/ Crash \/ Interrupt
  PROVE  IInv'
<1>1. ASSUME NEW power \in BOOLEAN, ProcessEnds(power)
      PROVE  IInv'
  <2>1. CoordinatorTypeOK' /\ Flagged'
    BY <1>1, Zenon DEF ProcessEnds, CoordinatorTypeOK, OperationStates, Flagged
  <2>2. events' \in Seq(EventRecords)
    <3>1. PICK n \in Surviving(power) : events' = SubSeq(events, 1, n)
      BY <1>1, Zenon DEF ProcessEnds
    <3>2. n \in 0..Len(events) /\ events \in Seq(EventRecords)
      BY <3>1 DEF Surviving, IInv, Types
    <3> QED
      BY <3>1, <3>2
  <2> QED
    BY <1>1, <2>1, <2>2, DownPreserves, Zenon DEF ProcessEnds
<1>2. CASE Return
  <2>1. CoordinatorTypeOK' /\ Flagged'
    BY <1>2, CoordinatorSteps, Zenon DEF Return, IInv, Types
  <2> QED
    BY <1>2, <2>1, DownPreserves, Zenon DEF Return, disk, IInv, Types
<1>3. CASE Crash
  BY <1>1, <1>3, BoundsAssumption, Zenon DEF Crash
<1>4. CASE Interrupt
  <2>1. CASE interrupt_action = "Exit"
    BY <1>1, <1>4, <2>1, Zenon DEF Interrupt
  <2>2. CASE interrupt_action # "Exit"
    <3>1. interrupt /\ UNCHANGED <<disk, proc, guard, dispatched>>
      BY <1>4, <2>2, Zenon DEF Interrupt
    <3>2. CoordinatorTypeOK' /\ Flagged'
      BY <3>1, CoordinatorSteps, Zenon DEF IInv, Types
    <3>3. Quiet
      BY <3>1, <3>2, Zenon DEF Quiet, Types, IInv, disk
    <3>4. Follows
      BY <1>4, <3>1, Zenon DEF Follows, Interrupt
    <3>5. OutcomeFits'
      BY <3>1, Zenon DEF IInv, OutcomeFits, OutcomesOf, interrupt
    <3> QED
      BY <3>3, <3>4, <3>5, QuietPreserves, Zenon
  <2> QED
    BY <2>1, <2>2, Zenon
<1> QED
  BY <1>2, <1>3, <1>4, Zenon

\* Opening a Run is refused while an attempt is uncertain, so every intent it
\* finds is completed.
LEMMA OpenPreserves ==
  ASSUME IInv, Open
  PROVE  IInv'
<1>1. UNCHANGED <<intents, results, recovery, events, synced, contexts, dispatched>>
  BY Zenon DEF Open, disk
<1>2. CoordinatorTypeOK' /\ Flagged'
  BY CoordinatorSteps, Zenon DEF Open, IInv, Types
<1>3. /\ Len(recovery) \in Nat /\ Len(events) \in Nat /\ contexts \in Nat
      /\ Completed \subseteq Attempts /\ "start" \in PCs
  BY DEF IInv, Types, Completed, PCs, Working
<1>4. proc' = [NoProcess EXCEPT !.pc = "start", !.records = Len(recovery), !.completed = Completed,
                                !.prefix = Len(events), !.manifests = contexts]
  BY Zenon DEF Open
<1>5. proc' \in Processes /\ proc'.pc = "start" /\ proc'.completed = Completed
  BY <1>3, <1>4, NoProcessTyped, Zenon DEF Processes
<1>6. Types' /\ Ledger'
  BY <1>1, <1>2, <1>5, Zenon DEF IInv, Types, Ledger, OutcomesOf
<1>7. Uncertain = {} /\ Uncertain' = {}
  BY <1>1, Zenon DEF Open, Uncertain
<1>8. Passed'
  BY <1>1, <1>5, <1>7, Zenon DEF Passed, Completed, Uncertain
<1>9. Standing' /\ OutcomeFits'
  BY <1>5, <1>7, Zenon DEF Standing, OutcomeFits, InAttempt, Undispatched, Intending, ProviderSteps, ToolSteps,
                    Answered, Deciding
<1> QED
  BY <1>2, <1>6, <1>8, <1>9, Zenon DEF IInv

\* flow reconcile-tool settles an attempt that has an intent, while no process
\* executes the Run.
LEMMA ReconcilePreserves ==
  ASSUME IInv, Reconcile
  PROVE  IInv'
<1>1. /\ UNCHANGED <<intents, recovery, events, synced, contexts, proc, dispatched>>
      /\ CoordinatorTypeOK' /\ Flagged' /\ proc.pc = "down"
  BY CoordinatorSteps, Zenon DEF Reconcile, IInv, Types, At
<1>2. PICK a \in Uncertain, outcome \in {"ok", "exit", "cancelled"} :
        a[1] = "tool" /\ results' = [results EXCEPT ![a] = outcome]
  BY Zenon DEF Reconcile
<1>3. a \in Attempts /\ a \in intents /\ outcome \in OutcomesOf(a) /\ outcome \in Outcomes
  BY <1>2, Zenon DEF Uncertain, IInv, Types, OutcomesOf, ToolOutcomes, Outcomes
<1>4. Types'
  BY <1>1, <1>2, <1>3, Zenon DEF Types, IInv
<1>5. Ledger'
  BY <1>1, <1>2, <1>3, Zenon DEF Types, IInv, Ledger, OutcomesOf
<1>6. Passed' /\ Standing' /\ OutcomeFits'
  BY <1>1, Zenon DEF Passed, Standing, OutcomeFits, Working, InAttempt, Undispatched, Intending, ProviderSteps,
              ToolSteps, Answered, Deciding
<1> QED
  BY <1>1, <1>4, <1>5, <1>6, Zenon DEF IInv

-----------------------------------------------------------------------------
(* The theorems. *)

LEMMA IInvStep == IInv /\ [Next]_vars => IInv'
<1> SUFFICES ASSUME IInv, [Next]_vars PROVE IInv'
  BY Zenon
<1>1. CASE UNCHANGED vars
  <2>1. Types' /\ Flagged'
    BY <1>1, Zenon DEF vars, coordinator, disk, IInv, Types, CoordinatorTypeOK, Flagged
  <2>2. Ledger' /\ Passed'
    BY <1>1, Zenon DEF vars, disk, IInv, Ledger, OutcomesOf, Passed, Counted
  <2>3. Standing' /\ OutcomeFits'
    BY <1>1, Zenon DEF vars, coordinator, disk, IInv, Standing, Uncertain, Counted, OutcomeFits, OutcomesOf
  <2> QED
    BY <2>1, <2>2, <2>3, Zenon DEF IInv
<1>2. CASE Open
  BY <1>2, OpenPreserves, Zenon
<1>3. CASE Execute
  BY <1>3, EventSteps, BoundarySteps, AttemptBegins, IntentPreserves, DispatchPreserves,
     TerminalPreserves, RecordPreserves, AttemptSteps, EndSteps, ProcessSteps, Zenon DEF Execute
<1>4. CASE Crash \/ Interrupt
  BY <1>4, ProcessSteps, Zenon
<1>5. CASE Reconcile
  BY <1>5, ReconcilePreserves, Zenon
<1> QED
  BY <1>1, <1>2, <1>3, <1>4, <1>5, Zenon DEF Next

\* The inductive invariant holds throughout: what the process has passed, which
\* attempt can be uncertain, and whether it can have reached the outside.
THEOREM Invariance == Spec => []IInv
<1>1. Init => IInv
  <2> SUFFICES ASSUME Init PROVE IInv
    BY Zenon
  <2>1. Types
    <3>1. CoordinatorTypeOK
      BY Zenon DEF Init, CoordinatorInit, CoordinatorTypeOK, OperationStates
    <3>2. results \in [Attempts -> Outcomes] /\ dispatched \in [Attempts -> Nat]
      BY Zenon DEF Init, Outcomes
    <3>3. recovery \in Seq(SnapshotRecords) /\ events \in Seq(EventRecords)
      BY DEF Init
    <3> QED
      BY <3>1, <3>2, <3>3, NoProcessTyped, Zenon DEF Init, Types
  <2>2. Flagged /\ Ledger
    BY DEF Init, CoordinatorInit, Flagged, Ledger
  <2>3. Passed /\ Standing /\ OutcomeFits
    BY Zenon DEF Init, NoProcess, Passed, Standing, OutcomeFits, Working, InAttempt, Undispatched, Intending,
           ProviderSteps, ToolSteps, Answered, Deciding
  <2> QED
    BY <2>1, <2>2, <2>3, Zenon DEF IInv
<1> QED
  BY <1>1, IInvStep, PTL DEF Spec

\* No attempt reaches the provider or a Tool twice (recover_attempt, and the
\* refusal of exact Resume while an attempt is uncertain).
THEOREM AtMostOnceTheorem == Spec => []AtMostOnce
<1>1. IInv => AtMostOnce
  BY Zenon DEF IInv, Ledger, AtMostOnce
<1> QED
  BY <1>1, Invariance, PTL

\* What a step does to the log of attempts.
Intends ==
  /\ proc.cur \in Attempts /\ proc.cur \notin intents /\ Uncertain = {}
  /\ intents' = intents \cup {proc.cur} /\ UNCHANGED <<results, dispatched>>
Dispatches ==
  /\ proc.cur \in Uncertain /\ dispatched[proc.cur] = 0
  /\ dispatched' = [dispatched EXCEPT ![proc.cur] = @ + 1] /\ UNCHANGED <<intents, results>>
Settles ==
  \E a \in Uncertain, outcome \in Outcomes \ {"none"} :
    results' = [results EXCEPT ![a] = outcome] /\ UNCHANGED <<intents, dispatched>>

LEMMA LogSteps ==
  ASSUME IInv, Next
  PROVE  Intends \/ Dispatches \/ Settles \/ UNCHANGED <<intents, results, dispatched>>
<1>0. proc.cur \in Attempts
  BY Zenon DEF IInv, Types, Processes
<1>1. CASE AttemptIntent
  <2>1. proc.cur \notin intents /\ Uncertain = {}
    BY <1>1, Zenon DEF IInv, Standing, AttemptIntent, At, Working, Intending
  <2> QED
    BY <1>0, <1>1, <2>1, Zenon DEF Intends, AttemptIntent, WriteIntent
<1>2. CASE ProviderDispatch \/ ToolStart
  <2>1. proc.cur \in Uncertain /\ dispatched[proc.cur] = 0
    BY <1>2, Zenon DEF IInv, Standing, ProviderDispatch, ToolStart, At, InAttempt, Undispatched
  <2> QED
    BY <1>2, <2>1, Zenon DEF Dispatches, ProviderDispatch, ToolStart, disk
<1>3. CASE AttemptTerminal
  <2>1. proc.cur \in Uncertain /\ proc.outcome \in OutcomesOf(proc.cur)
    BY <1>3, Zenon DEF IInv, Standing, OutcomeFits, AttemptTerminal, At, InAttempt, Deciding
  <2>2. proc.outcome \in Outcomes \ {"none"}
    BY <2>1, Zenon DEF OutcomesOf, Outcomes, ProviderOutcomes, ToolOutcomes, Answers
  <2> QED
    BY <1>3, <2>1, <2>2, Zenon DEF Settles, AttemptTerminal
<1>4. CASE Reconcile
  <2>1. {"ok", "exit", "cancelled"} \subseteq Outcomes \ {"none"}
    BY Zenon DEF Outcomes, ToolOutcomes
  <2> QED
    BY <1>4, <2>1, Zenon DEF Settles, Reconcile
<1>5. CASE Crash \/ Interrupt \/ Open
  BY <1>5, Zenon DEF Crash, Interrupt, Open, ProcessEnds, disk
<1>6. CASE Execute /\ ~(AttemptIntent \/ ProviderDispatch \/ ToolStart \/ AttemptTerminal)
  BY <1>6, Zenon DEF Execute, EmitStep, Local, SnapshotOnly, disk, SessionStarted, FlowStarted, PhaseEntered,
     PhaseBoundary, PhaseCompleted, TransitionBoundary, TransitionEnsure, FlowBoundary, FlowCompleted,
     PhaseFailed, ErrorEvent, FlowFailed, ProviderTurn, ProviderReturns, ProviderReturned, AttemptCommit,
     AttemptRecord, MessageDelta, MessageCompleted, TurnEnd, ToolCall, ToolStartedAgain, ToolPreflight,
     ToolPreflightReturns, ToolStarted, ToolReturns, ToolLost, ToolLostEnd, ToolEnd, ToolEnded,
     ClaimTerminal, TerminalBoundary, SessionEnded, FinishRun, Return
<1> QED
  BY <1>1, <1>2, <1>3, <1>4, <1>5, <1>6, Zenon DEF Next

\* The refinement mapping: how far each attempt came.
Log ==
  [a \in Attempts |->
     IF results[a] # "none" THEN "settled"
     ELSE IF dispatched[a] > 0 THEN "dispatched"
     ELSE IF a \in intents THEN "intended"
     ELSE "none"]

\* Every step of a Run appends an intent while no attempt is uncertain,
\* dispatches or settles the attempt that is, or leaves the log of attempts
\* alone: a crash, a Resume and a Ctrl-C do the last.
THEOREM AttemptLogTheorem == Spec => ImplementsAttemptOnce
<1>1. Init => AttemptLog!Init
  BY DEF Init, AttemptLog!Init
<1>2. IInv /\ [Next]_vars => [AttemptLog!Next]_Log
  <2> SUFFICES ASSUME IInv, Next, Log' # Log
               PROVE  AttemptLog!Next
    BY Zenon DEF vars, disk, Log
  <2>1. /\ results \in [Attempts -> Outcomes] /\ dispatched \in [Attempts -> Nat]
        /\ intents \subseteq Attempts
    BY Zenon DEF IInv, Types
  <2>2. \A a \in Attempts : dispatched[a] > 0 \/ results[a] # "none" => a \in intents
    BY Zenon DEF IInv, Ledger
  <2>3. CASE Intends
    <3>1. PICK a \in Attempts : a = proc.cur
      BY <2>3, Zenon DEF Intends
    <3>2. AttemptLog!Intend(a)
      <4>1. Log[a] = "none"
        BY <2>2, <2>3, <3>1, Zenon DEF Log, Intends
      <4>2. \A b \in Attempts : Log[b] \in {"settled", "none"}
        BY <2>1, <2>2, <2>3, Zenon DEF Log, Intends, Uncertain
      <4>3. Log' = [Log EXCEPT ![a] = "intended"]
        BY <2>1, <2>2, <2>3, <3>1, Zenon DEF Log, Intends
      <4> QED
        BY <4>1, <4>2, <4>3, Zenon DEF AttemptLog!Intend, AttemptLog!Open, Log
    <3> QED
      BY <3>2, Zenon DEF AttemptLog!Next
  <2>4. CASE Dispatches
    <3>1. PICK a \in Attempts : a = proc.cur /\ a \in intents /\ results[a] = "none"
      BY <2>1, <2>4, Zenon DEF Dispatches, Uncertain
    <3>2. AttemptLog!Dispatch(a)
      <4>1. Log[a] = "intended"
        BY <2>4, <3>1, SMTT(60) DEF Log, Dispatches
      <4>2. Log' = [Log EXCEPT ![a] = "dispatched"]
        <5>1. \A b \in Attempts : dispatched'[b] = IF b = a THEN 1 ELSE dispatched[b]
          BY <2>1, <2>4, <3>1 DEF Dispatches
        <5>2. results' = results /\ intents' = intents
          BY <2>4, Zenon DEF Dispatches
        <5>3. \A b \in Attempts : Log'[b] = IF b = a THEN "dispatched" ELSE Log[b]
          BY <2>1, <3>1, <5>1, <5>2, SMTT(60) DEF Log
        <5> QED
          BY <3>1, <5>3, Zenon DEF Log
      <4> QED
        BY <4>1, <4>2, Zenon DEF AttemptLog!Dispatch, Log
    <3> QED
      BY <3>2, Zenon DEF AttemptLog!Next
  <2>5. CASE Settles
    <3>1. PICK a \in Uncertain, outcome \in Outcomes \ {"none"} :
            results' = [results EXCEPT ![a] = outcome] /\ UNCHANGED <<intents, dispatched>>
      BY <2>5, Zenon DEF Settles
    <3>2. a \in Attempts /\ a \in intents /\ results[a] = "none"
      BY <2>1, <3>1, Zenon DEF Uncertain
    <3>3. AttemptLog!Settle(a)
      <4>1. Log[a] \in {"intended", "dispatched"}
        BY <3>2, Zenon DEF Log
      <4>2. Log' = [Log EXCEPT ![a] = "settled"]
        BY <2>1, <3>1, <3>2, Zenon DEF Log
      <4> QED
        BY <4>1, <4>2, Zenon DEF AttemptLog!Settle, AttemptLog!Open, Log
    <3> QED
      BY <3>2, <3>3, Zenon DEF AttemptLog!Next
  <2>6. CASE UNCHANGED <<intents, results, dispatched>>
    BY <2>6, Zenon DEF Log
  <2> QED
    BY <2>3, <2>4, <2>5, <2>6, LogSteps, Zenon
<1> QED
  BY <1>1, <1>2, Invariance, PTL DEF Spec, ImplementsAttemptOnce, AttemptLog!Spec, Log
=============================================================================

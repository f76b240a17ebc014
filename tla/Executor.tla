------------------------------ MODULE Executor -------------------------------
(***************************************************************************)
(* One Tool call through the one-shot Executor: Flow's client              *)
(* (runtime/executor/client), the companion process it starts              *)
(* (flow-agent-executor), the inner supervisor that the companion runs     *)
(* inside the native protection, and the Tool.  Time passes in ticks of    *)
(* one second.  The polling loops are milliseconds apart, so every process *)
(* in such a loop takes a pass before the next tick (late).                *)
(***************************************************************************)
EXTENDS Integers

CONSTANTS
  Timeout,     \* the Tool's timeout_ms
  Allowance,   \* what the client adds to it for each of its windows
  Cancelling,  \* how long the client waits for a companion it has signalled
  Bound        \* TERM grace, forced reap, output drain, status record

ASSUME Durations == {Timeout, Allowance, Cancelling, Bound} \subseteq Nat \ {0}

VARIABLES
  client,     \* the dispatching thread of Flow
  outer,      \* the companion process
  inner,      \* its inner supervisor, below the native launcher
  tool,       \* the Tool's root process
  cancelled,  \* productive_cancellation()
  late,       \* processes that owe a pass before the next tick
  fault       \* what went wrong outside the code, at most once

vars == <<client, outer, inner, tool, cancelled, late, fault>>

Never == -1  \* a timer that is not set
Exits == {"zero", "signal"}
Triggers == {"cancelled", "timeout", "cap", "collector", "drain"}
Responses == Exits \cup Triggers \cup {"Error"}
Unstarted == {"Cancelled", "Rejected", "Dropped"}

Init ==
  /\ client = [pc |-> "preflight", step |-> "poll", request |-> FALSE, started |-> FALSE,
               seen |-> "none", eof |-> FALSE, signalled |-> FALSE, lost |-> FALSE,
               left |-> Timeout + Allowance, cancel |-> Never, result |-> "none"]
  /\ outer = [pc |-> "preflight", step |-> "poll", flag |-> FALSE, primary |-> "none",
              phase |-> "none", status |-> "none", reaped |-> FALSE, drained |-> FALSE,
              forced |-> FALSE, class |-> "none", out |-> "none", exit |-> "none",
              left |-> Never, cleanup |-> Never]
  /\ inner = [pc |-> "none", control |-> TRUE, record |-> FALSE, exit |-> "none",
              phase |-> "none", left |-> Never, cleanup |-> Never]
  /\ tool \in [pc : {"none"}, exit : {"none"}, asked : {"none"}, flood : {FALSE},
               held : {FALSE}, stubborn : BOOLEAN]
  /\ cancelled = FALSE
  /\ late = {"client"}
  /\ fault = "none"

Passed(process) == late' = late \ {process}

------------------------------------------------------------------------------
(* The client: preflight_one_shot and start_one_shot.                      *)

\* Mutant: a return leaves the companion alone.
Killed_not(o) == o

\* Every return drops the ChildGuard, which kills the companion's process
\* group and reaps it, or aborts Flow.
Killed(o) == IF o.exit = "none" THEN [o EXCEPT !.pc = "exited", !.exit = "killed"] ELSE o

Answer(result) ==
  /\ client' = [client EXCEPT !.pc = "done", !.result = result]
  /\ outer' = Killed(outer)

\* The first half of a pass of the preflight loop, up to the output poll.  The
\* request may need several writes.
PollPreflight ==
  /\ client.pc = "preflight" /\ client.step = "poll"
  /\ LET stopped == cancelled /\ client.seen # "rejected"
         broken == ~client.request /\ outer.pc = "exited"
     IN  \/ client.left = 0 /\ Answer("Invalid")
         \/ client.left > 0 /\ stopped /\ Answer("Cancelled")
         \/ client.left > 0 /\ ~stopped /\ broken /\ Answer("Invalid")
         \/ /\ client.left > 0 /\ ~stopped /\ ~broken
            /\ \E written \in BOOLEAN :
                 client' = [client EXCEPT !.step = "observe", !.request = @ \/ written,
                              !.seen = outer.out, !.eof = outer.pc = "exited"]
            /\ UNCHANGED outer
  /\ UNCHANGED <<inner, tool, cancelled, late, fault>>

\* The second half: the response, if it is complete, and the exit.
ObservePreflight ==
  /\ client.pc = "preflight" /\ client.step = "observe"
  /\ \/ /\ client.seen = "ready"
        /\ IF outer.exit # "none"
           THEN Answer("Invalid")
           ELSE client' = [client EXCEPT !.pc = "waiting", !.left = Never] /\ UNCHANGED outer
     \/ client.seen = "none" /\ client.eof /\ Answer("Invalid")
     \/ /\ client.seen = "rejected" /\ client.eof
        /\ Answer(IF outer.exit = "ok" THEN "Rejected" ELSE "Invalid")
     \/ /\ client.seen \in {"none", "rejected"} /\ ~client.eof
        /\ client' = [client EXCEPT !.step = "poll"]
        /\ UNCHANGED outer
  /\ Passed("client")
  /\ UNCHANGED <<inner, tool, cancelled, fault>>

\* Between Ready and start the caller commits tool.started; if it cannot, it
\* drops the waiting companion.
Drop ==
  /\ client.pc = "waiting"
  /\ Answer("Dropped")
  /\ UNCHANGED <<inner, tool, cancelled, late, fault>>

Start ==
  /\ client.pc = "waiting"
  /\ IF cancelled
     THEN Answer("Cancelled") /\ UNCHANGED late
     ELSE /\ client' = [client EXCEPT !.pc = "start", !.step = "poll", !.seen = "none",
                          !.left = Timeout + Allowance]
          /\ late' = late \cup {"client"}
          /\ UNCHANGED outer
  /\ UNCHANGED <<inner, tool, cancelled, fault>>

\* The first half of a pass after Ready: the start record, until it is written
\* and stdin is closed, and the output poll.
PollStart ==
  /\ client.pc = "start" /\ client.step = "poll"
  /\ LET broken == ~client.started /\ (client.left = 0 \/ outer.pc = "exited")
     IN  \/ broken /\ Answer("Invalid") /\ UNCHANGED late
         \/ /\ ~broken
            /\ \E written \in BOOLEAN :
                 LET begins == written /\ ~client.started
                 IN  /\ client' = [client EXCEPT !.step = "observe", !.started = @ \/ written,
                                     !.left = IF begins THEN Timeout + Allowance ELSE @,
                                     !.seen = outer.out, !.eof = outer.pc = "exited"]
                     /\ late' = late \cup {p \in {"outer"} : begins}
            /\ UNCHANGED outer
  /\ UNCHANGED <<inner, tool, cancelled, fault>>

\* SIGTERM reaches the flag of the run in progress; before that run has
\* registered its own flag, the one of the readiness check takes the signal.
Signalled(o) == IF o.pc = "loop" THEN [o EXCEPT !.flag = TRUE] ELSE o

Signals == cancelled /\ ~client.signalled /\ outer.exit = "none"
CancelTimer == IF Signals THEN Cancelling ELSE client.cancel
Overdue == client.left = 0 \/ CancelTimer = 0

\* Mutant: the exit alone ends the loop, whatever was read before it.
Finished_on_exit == outer.exit # "none"

\* The exit and the end of both streams were seen.
Finished == outer.exit # "none" /\ client.eof

\* The second half: exit, cancellation, deadlines, and the terminal response.
ObserveStart ==
  /\ client.pc = "start" /\ client.step = "observe"
  /\ \/ Overdue /\ Answer("Invalid")
     \/ /\ ~Overdue /\ Finished
        /\ Answer(IF client.started /\ outer.exit = "ok" /\ client.seen \in Responses
                  THEN client.seen ELSE "Invalid")
     \/ /\ ~Overdue /\ ~Finished
        /\ client' = [client EXCEPT !.step = "poll", !.signalled = @ \/ Signals,
                        !.cancel = CancelTimer, !.lost = @ \/ (Signals /\ outer.pc # "loop")]
        /\ outer' = IF Signals THEN Signalled(outer) ELSE outer
  /\ Passed("client")
  /\ UNCHANGED <<inner, tool, cancelled, fault>>

ClientPass == PollPreflight \/ ObservePreflight \/ Start \/ PollStart \/ ObserveStart
Client == ClientPass \/ Drop

\* The first Ctrl-C, and the end of the whole Flow process.
Cancel ==
  /\ ~cancelled /\ client.pc \in {"preflight", "waiting", "start"}
  /\ cancelled' = TRUE
  /\ UNCHANGED <<client, outer, inner, tool, late, fault>>

FlowDies ==
  /\ client.pc \in {"preflight", "waiting", "start"} /\ fault = "none"
  /\ client' = [client EXCEPT !.pc = "dead"]
  /\ fault' = "flow"
  /\ UNCHANGED <<outer, inner, tool, cancelled, late>>

------------------------------------------------------------------------------
(* The companion: execute_request, and run_bounded around the launcher.    *)

Exited(code) == outer' = [outer EXCEPT !.pc = "exited", !.exit = code]

\* preflight: the request, the readiness check, and the flushed answer.
OuterPreflight ==
  /\ outer.pc = "preflight" /\ client.request
  /\ \/ outer' = [outer EXCEPT !.pc = "await", !.out = "ready"]
     \/ outer' = [outer EXCEPT !.pc = "leaving", !.out = "rejected"]
     \/ Exited("failed")
  /\ UNCHANGED <<client, inner, tool, cancelled, late, fault>>

\* After a flushed rejection the companion only has to exit.
OuterLeave ==
  /\ outer.pc = "leaving"
  /\ Exited("ok")
  /\ UNCHANGED <<client, inner, tool, cancelled, late, fault>>

\* Mutant: the end of stdin is taken for the start.
OuterStart_at_eof ==
  /\ outer.pc = "await"
  /\ client.started \/ client.pc \in {"done", "dead"}
  /\ outer' = [outer EXCEPT !.pc = "setup"]
  /\ UNCHANGED <<client, inner, tool, cancelled, late, fault>>

\* complete_preflight_buffered reads stdin to its end; anything but the whole
\* matching start record is an error.
OuterStart ==
  /\ outer.pc = "await"
  /\ \/ client.started /\ outer' = [outer EXCEPT !.pc = "setup"]
     \/ ~client.started /\ client.pc = "dead" /\ Exited("failed")
  /\ UNCHANGED <<client, inner, tool, cancelled, late, fault>>

\* execute and the head of run_bounded: the objects are verified again, the
\* flag is registered, the launcher is spawned.
OuterSetup ==
  /\ outer.pc = "setup"
  /\ \/ /\ outer' = [outer EXCEPT !.pc = "loop", !.out = "none", !.left = Timeout]
        /\ inner' = [inner EXCEPT !.pc = "boot"]
        /\ late' = late \cup {"inner", "outer"}
        /\ UNCHANGED fault
     \/ /\ fault = "none" /\ fault' = "setup"
        /\ outer' = [outer EXCEPT !.pc = "exited", !.exit = "ok", !.out = "Error"]
        /\ UNCHANGED <<inner, late>>
  /\ UNCHANGED <<client, tool, cancelled>>

select_primary(primary, candidate) ==
  IF primary = "none" \/ candidate = "collector" THEN candidate ELSE primary

\* One bounded read per stream: an output over its cap, a failed read, or the
\* end of both streams.
OuterPoll ==
  /\ outer.pc = "loop" /\ outer.step = "poll"
  /\ \E failed \in BOOLEAN :
       LET capped == IF tool.flood THEN select_primary(outer.primary, "cap") ELSE outer.primary
       IN  /\ failed => fault = "none"
           /\ fault' = IF failed THEN "collector" ELSE fault
           /\ outer' = [outer EXCEPT
                !.step = "arbitrate",
                !.primary = IF failed THEN select_primary(capped, "collector") ELSE capped,
                !.drained = @ \/ (inner.pc = "exited" /\ ~tool.held)]
  /\ UNCHANGED <<client, inner, tool, cancelled, late>>

\* Mutant: the grace ends without the forced kill.
Advance_unforced(phase, timer, complete, drained) ==
  CASE phase = "grace" /\ (complete \/ timer = 0) -> IF drained THEN "complete" ELSE "drain"
    [] phase = "drain" /\ drained -> "complete"
    [] phase = "drain" /\ ~drained /\ timer = 0 -> "undrained"
    [] OTHER -> phase

\* CleanupController::advance, as the phase it goes on to.
Advance(phase, timer, complete, drained) ==
  CASE phase \in {"grace", "forced"} /\ complete -> IF drained THEN "complete" ELSE "drain"
    [] phase = "grace" /\ ~complete /\ timer = 0 -> "forced"
    [] phase = "forced" /\ ~complete /\ timer = 0 -> "failed"
    [] phase = "drain" /\ drained -> "complete"
    [] phase = "drain" /\ ~drained /\ timer = 0 -> "undrained"
    [] OTHER -> phase

\* Mutant: the exit is looked at before the deadline.
Arbitrated_exit_first(exited) ==
  IF outer.primary # "none" THEN outer.primary
  ELSE IF exited /\ ~outer.reaped THEN "exit"
  ELSE IF outer.flag THEN "cancelled"
  ELSE IF outer.left = 0 THEN "timeout"
  ELSE "none"

\* Cancellation before the deadline before the exit.
Arbitrated(exited) ==
  IF outer.primary # "none" THEN outer.primary
  ELSE IF outer.flag THEN "cancelled"
  ELSE IF outer.left = 0 THEN "timeout"
  ELSE IF exited /\ ~outer.reaped THEN "exit"
  ELSE "none"

\* The rest of a pass of run_bounded.  A trigger starts the cleanup: while the
\* launcher runs, the control channel is closed for the inner supervisor; the
\* launcher itself is killed only after the grace.
OuterArbitrate ==
  /\ outer.pc = "loop" /\ outer.step = "arbitrate"
  /\ LET exited == inner.pc = "exited" \/ outer.forced
         reaped == outer.reaped \/ exited
         primary == Arbitrated(exited)
         begins == outer.phase = "none" /\ primary # "none"
         phase == IF begins THEN "grace" ELSE outer.phase
         timer == IF begins THEN Bound ELSE outer.cleanup
         next == Advance(phase, timer, reaped, outer.drained)
         settled == next \in {"complete", "undrained"}
         forces == phase = "grace" /\ next = "forced"
         closes == begins /\ ~reaped
     IN  /\ outer' = [outer EXCEPT
              !.pc = IF settled THEN "record" ELSE IF next = "failed" THEN "exited" ELSE @,
              !.step = "poll", !.primary = primary, !.phase = next, !.reaped = reaped,
              !.status = IF exited /\ ~outer.reaped /\ outer.phase = "none"
                         THEN inner.exit ELSE @,
              !.cleanup = IF next # phase THEN Bound ELSE timer,
              !.forced = @ \/ forces,
              !.class = IF next = "undrained" THEN "drain" ELSE IF settled THEN primary ELSE @,
              !.exit = IF next = "failed" THEN "failed" ELSE @]
         /\ inner' = [inner EXCEPT !.control = @ /\ ~closes]
         /\ late' = (late \ {"outer"}) \cup {p \in {"inner"} : closes \/ forces}
                       \cup {p \in {"outer"} : settled}
  /\ UNCHANGED <<client, tool, cancelled, fault>>

\* apply_inner_status: only a recorded status of a reaped Tool is evidence.
Evidence == /\ inner.record
            /\ outer.status = "ok" \/ (outer.status = "none" /\ outer.class # "exit")

\* The end of execute: the status record within its bound, and the response.
OuterRecord ==
  /\ outer.pc = "record"
  /\ \/ /\ inner.pc = "exited" /\ Evidence
        /\ outer' = [outer EXCEPT !.pc = "exited", !.exit = "ok",
                       !.out = IF outer.class = "exit" THEN tool.exit ELSE outer.class]
     \/ inner.pc = "exited" /\ ~Evidence /\ Exited("failed")
     \/ inner.pc # "exited" /\ outer.cleanup = 0 /\ Exited("failed")
     \/ inner.pc # "exited" /\ outer.cleanup > 0 /\ UNCHANGED outer
  /\ Passed("outer")
  /\ UNCHANGED <<client, inner, tool, cancelled, fault>>

Outer == OuterLeave \/ OuterStart \/ OuterSetup \/ OuterPoll \/ OuterArbitrate \/ OuterRecord

\* The companion dies with Flow (parent death signal), or by itself.
OuterDies ==
  /\ outer.exit = "none"
  /\ \/ client.pc = "dead" /\ UNCHANGED fault
     \/ client.pc # "dead" /\ fault = "none" /\ fault' = "companion"
  /\ outer' = Killed(outer)
  /\ UNCHANGED <<client, inner, tool, cancelled, late>>

------------------------------------------------------------------------------
(* The inner supervisor (run_inner) and the Tool.                          *)

InnerBoot ==
  /\ inner.pc = "boot"
  /\ \/ /\ inner' = [inner EXCEPT !.pc = "run", !.left = Timeout]
        /\ tool' = [tool EXCEPT !.pc = "running"]
        /\ UNCHANGED fault
     \/ /\ fault = "none" /\ fault' = "boot"
        /\ inner' = [inner EXCEPT !.pc = "exited", !.exit = "failed"]
        /\ UNCHANGED tool
  /\ late' = late \cup {"outer"}
  /\ UNCHANGED <<client, outer, cancelled>>

Doomed == outer.pc = "exited" \/ outer.forced

\* One pass: a Tool that has ended is reaped and its status recorded;
\* cancellation or the deadline ends it, by TERM and then by KILL.
InnerPass ==
  /\ inner.pc = "run"
  /\ LET begins == inner.phase = "none" /\ (~inner.control \/ inner.left = 0)
         phase == IF begins THEN "grace" ELSE inner.phase
         next == Advance(phase, IF begins THEN Bound ELSE inner.cleanup, FALSE, FALSE)
         forces == phase = "grace" /\ next = "forced"
     IN  IF tool.pc = "ended"
         THEN /\ inner' = [inner EXCEPT !.pc = "exited", !.exit = "ok", !.record = TRUE]
              /\ late' = (late \ {"inner"}) \cup {"outer"}
              /\ UNCHANGED tool
         ELSE /\ inner' = [inner EXCEPT !.phase = next,
                             !.cleanup = IF begins \/ forces THEN Bound ELSE @,
                             !.pc = IF next = "failed" THEN "exited" ELSE @,
                             !.exit = IF next = "failed" THEN "failed" ELSE @]
              /\ tool' = [tool EXCEPT !.asked = IF forces THEN "kill"
                                                ELSE IF begins THEN "term" ELSE @]
              /\ late' = (IF Doomed THEN late ELSE late \ {"inner"})
                            \cup {p \in {"tool"} : begins \/ forces}
  /\ UNCHANGED <<client, outer, cancelled, fault>>

\* The launcher and everything below it die with the companion.
InnerDies ==
  /\ inner.pc \in {"boot", "run"} /\ Doomed
  /\ inner' = [inner EXCEPT !.pc = "exited", !.exit = "killed"]
  /\ tool' = IF tool.pc = "running" THEN [tool EXCEPT !.pc = "ended", !.exit = "signal"] ELSE tool
  /\ late' = late \cup {"outer"}
  /\ UNCHANGED <<client, outer, cancelled, fault>>

Obeys == tool.asked = "kill" \/ (tool.asked = "term" /\ ~tool.stubborn)

ToolEnds ==
  /\ tool.pc = "running"
  /\ \E exit \in Exits, held \in BOOLEAN :
       /\ tool.asked = "kill" => exit = "signal"
       /\ tool' = [tool EXCEPT !.pc = "ended", !.exit = exit, !.held = held]
  /\ late' = late \cup {"inner"}
  /\ UNCHANGED <<client, outer, inner, cancelled, fault>>

ToolFloods ==
  /\ tool.pc = "running" \/ tool.held
  /\ ~tool.flood
  /\ tool' = [tool EXCEPT !.flood = TRUE]
  /\ UNCHANGED <<client, outer, inner, cancelled, late, fault>>

------------------------------------------------------------------------------
Owes(p) ==
  CASE p = "client" -> client.pc \in {"preflight", "start"}
    [] p = "outer" -> outer.pc \in {"setup", "loop", "record"}
                      \/ (outer.pc = "await" /\ client.started)
    [] p = "inner" -> inner.pc \in {"boot", "run"}
    [] p = "tool" -> tool.pc = "running" /\ Obeys

Down(timer) == IF timer > 0 THEN timer - 1 ELSE timer

\* A second passes.
Tick ==
  /\ \A p \in late : ~Owes(p)
  /\ \E p \in {"client", "outer", "inner"} : Owes(p)
  /\ client' = [client EXCEPT !.left = Down(@), !.cancel = Down(@)]
  /\ outer' = [outer EXCEPT !.left = Down(@), !.cleanup = Down(@)]
  /\ inner' = [inner EXCEPT !.left = Down(@), !.cleanup = Down(@)]
  /\ late' = {p \in {"client", "outer", "inner", "tool"} : Owes(p)}
  /\ UNCHANGED <<tool, cancelled, fault>>

Next ==
  \/ Client \/ Cancel \/ FlowDies
  \/ OuterPreflight \/ Outer \/ OuterDies
  \/ InnerBoot \/ InnerPass \/ InnerDies \/ ToolEnds \/ ToolFloods
  \/ Tick

Spec == Init /\ [][Next]_vars

\* Processes that are not killed run, signals arrive, time passes, and the
\* caller's commit of tool.started returns.  Nothing is assumed of the preflight
\* or of a Tool nobody has asked to end.
FairSpec ==
  /\ Spec
  /\ WF_vars(Client) /\ WF_vars(Outer)
  /\ WF_vars(InnerBoot \/ InnerPass) /\ WF_vars(InnerDies)
  /\ WF_vars(OuterDies /\ client.pc = "dead")
  /\ WF_vars(ToolEnds /\ Obeys) /\ WF_vars(Tick)

------------------------------------------------------------------------------
(* Properties.                                                             *)

ClientPlaces == {"preflight", "waiting", "start", "done", "dead"}
OuterPlaces == {"preflight", "leaving", "await", "setup", "loop", "record", "exited"}
InnerPlaces == {"none", "boot", "run", "exited"}
Codes == {"none", "ok", "failed", "killed"}
CleanupPhases == {"none", "grace", "forced", "drain", "complete", "undrained", "failed"}
Outputs == Responses \cup {"none", "ready", "rejected"}
Results == Responses \cup Unstarted \cup {"none", "Invalid"}
Reasons == Triggers \cup {"none", "exit"}

Clients ==
  [pc : ClientPlaces, step : {"poll", "observe"},
   request : BOOLEAN, started : BOOLEAN,
   seen : Outputs, eof : BOOLEAN,
   signalled : BOOLEAN, lost : BOOLEAN, left : Never .. Timeout + Allowance,
   cancel : Never .. Cancelling, result : Results]
Outers ==
  [pc : OuterPlaces, step : {"poll", "arbitrate"}, flag : BOOLEAN, primary : Reasons,
   phase : CleanupPhases, status : Codes, reaped : BOOLEAN, drained : BOOLEAN,
   forced : BOOLEAN, class : Reasons, out : Outputs, exit : Codes, left : Never .. Timeout, cleanup : Never .. Bound]
Inners ==
  [pc : InnerPlaces, control : BOOLEAN, record : BOOLEAN,
   exit : Codes, phase : {"none", "grace", "forced", "failed"},
   left : Never .. Timeout, cleanup : Never .. Bound]
Tools ==
  [pc : {"none", "running", "ended"}, exit : Exits \cup {"none"},
   asked : {"none", "term", "kill"}, flood : BOOLEAN, held : BOOLEAN, stubborn : BOOLEAN]

\* Every field of the four processes keeps its type, and no timer exceeds the
\* window the code gives it.
TypeOK ==
  /\ client \in Clients /\ outer \in Outers /\ inner \in Inners /\ tool \in Tools
  /\ cancelled \in BOOLEAN
  /\ late \subseteq {"client", "outer", "inner", "tool"}
  /\ fault \in {"none", "flow", "companion", "setup", "collector", "boot"}

\* No Tool without the start record: the companion launches it only after the
\* client, whose caller has committed tool.started, has delivered the whole
\* record, whatever else ends the preflight.
ToolNeedsStart == tool.pc # "none" => client.started

\* What start_one_shot answers is what happened, and no Tool runs without the start record.  An answer that lets the caller
\* say nothing was dispatched means that no Tool ran; a terminal class means that
\* the Tool has ended; an exit class is the Tool's own exit, never one that the
\* supervision asked for; cancellation and time-out name what occurred.
ResultTruthful ==
  LET result == client.result
  IN  /\ ToolNeedsStart
      /\ result \in Unstarted \cup {"Error"} => tool.pc = "none"
      /\ result \in Responses \ {"Error"} => tool.pc = "ended" /\ inner.record
      /\ result \in Exits => tool.exit = result /\ tool.asked = "none"
      /\ result = "cancelled" => cancelled
      /\ result = "timeout" => outer.left = 0
      /\ result = "cap" => tool.flood

\* A started Tool that obeys TERM leaves terminal evidence: its dispatch ends as
\* uncertain only if something outside failed, or if the cancellation signal
\* came before the companion was listening for it.
EvidenceKept ==
  client.result = "Invalid" /\ client.started /\ ~tool.stubborn
    => fault # "none" \/ client.lost

\* The dispatch ends and takes its processes with it: the client returns (or
\* Flow is dead), and from then on neither the companion nor the Tool runs.
DispatchEnds ==
  <>[](/\ client.pc \in {"done", "dead"}
       /\ outer.pc = "exited"
       /\ tool.pc # "running")
==============================================================================

----------------------------- MODULE ToolProcess -----------------------------
(***************************************************************************)
(* A Tool run in a process group of its own: the controller that collects  *)
(* its output and watches its exit, the cancellation and the deadline, and *)
(* the clean-up that ends the whole group (tool_runner/unix_process.rs).   *)
(*                                                                         *)
(* The operating system is external: the group's members run, ignore a     *)
(* signal, write and exit on their own, and the leader's id belongs to it  *)
(* until it is reaped, to anyone after.                                    *)
(***************************************************************************)
EXTENDS Naturals, FiniteSets

CONSTANTS
  Cap,        \* MAX_TOOL_STREAM_BYTES
  MaxOutput   \* what the group writes, at most

VARIABLES
  leader,     \* "running", "exited" and not yet reaped, or "reaped"
  status,     \* its exit status
  member,     \* another process of the group: "none", "running", "silent" once it closed the stream, or "gone"
  written,    \* what the group wrote to its stream
  read,       \* what the collector took, and what it keeps of it
  cancelled,
  overdue,    \* the run's deadline is past
  at,         \* where the controller is
  primary,    \* the trigger that ended the wait
  observed,   \* the exit status seen by then
  class,      \* the classification so far, "none" for a success
  signals,    \* the signals sent to the group, and whether one was sent to a group that may be another's
  expired     \* the current clean-up deadline is past

vars == <<leader, status, member, written, read, cancelled, overdue, at, primary, observed, class, signals, expired>>

Alive == member \in {"running", "silent"}
Group == leader # "reaped" \/ Alive
Writers == leader = "running" \/ member = "running"
CapExceeded == read > Cap
Eof == read = written /\ ~Writers

\* The operating system and the Tool: the leader may start a member that outlives it.
Fork == leader = "running" /\ member = "none" /\ member' \in {"running", "silent"} /\ UNCHANGED <<leader, status, written, read, cancelled, overdue, at, primary, observed, class, signals, expired>>
Exit ==
  /\ \/ leader = "running" /\ leader' = "exited" /\ status' \in {"zero", "nonzero", "signal"} /\ UNCHANGED member
     \/ Alive /\ member' = "gone" /\ UNCHANGED <<leader, status>>
  /\ UNCHANGED <<written, read, cancelled, overdue, at, primary, observed, class, signals, expired>>
Output == Writers /\ written < MaxOutput /\ written' = written + 1 /\ UNCHANGED <<leader, status, member, read, cancelled, overdue, at, primary, observed, class, signals, expired>>
Cancel == ~cancelled /\ at # "done" /\ cancelled' = TRUE /\ UNCHANGED <<leader, status, member, written, read, overdue, at, primary, observed, class, signals, expired>>
\* A clock reaches the run's deadline, or the one the clean-up has set.
Elapse ==
  /\ \/ ~overdue /\ at = "watch" /\ overdue' = TRUE /\ UNCHANGED expired
     \/ ~expired /\ at \notin {"start", "watch", "done"} /\ expired' = TRUE /\ UNCHANGED overdue
  /\ UNCHANGED <<leader, status, member, written, read, cancelled, at, primary, observed, class, signals>>

\* drain_available: everything that is there; what is over the cap is read and dropped.
drain_available == read' = written

\* A cancelled run starts nothing; the sockets or the process may not come up.
Start ==
  /\ at = "start"
  /\ \/ cancelled /\ at' = "done" /\ class' = "Cancelled" /\ leader' = "reaped"
     \/ ~cancelled /\ at' = "done" /\ class' = "ProcessSetupFailed" /\ leader' = "reaped"
     \/ ~cancelled /\ at' = "watch" /\ leader' = "running" /\ UNCHANGED class
  /\ UNCHANGED <<status, member, written, read, cancelled, overdue, primary, observed, signals, expired>>

\* execute_unix_tool's choice among what it sees at once.
Trigger == IF read' > Cap THEN "Cap" ELSE IF cancelled THEN "Cancelled" ELSE IF overdue THEN "TimedOut" ELSE IF leader = "exited" THEN "Exit" ELSE "none"

\* primary_classification.
primary_classification(trigger) ==
  CASE trigger = "Cap" -> "CapExceeded"
    [] trigger = "Cancelled" -> "Cancelled"
    [] trigger = "TimedOut" -> "ToolTimedOut"
    [] trigger = "CollectorFailed" -> "OutputCollectorFailed"
    [] trigger = "ReapFailed" -> "ProcessReapFailed"
    [] trigger = "Exit" -> CASE status = "zero" -> "none"
                             [] status = "nonzero" -> "NonzeroExit"
                             [] status = "signal" -> "SignalTermination"

\* The exit code: one that a signal ended has none.
exit_status == IF status = "signal" THEN "none" ELSE status

\* One turn of the controller; reading a stream or asking for the exit may fail.
Watch ==
  /\ at = "watch"
  /\ drain_available
  /\ observed' = IF leader = "exited" THEN exit_status ELSE observed
  /\ \/ Trigger = "none" /\ UNCHANGED <<at, primary, class>>
     \/ \E trigger \in {Trigger, "CollectorFailed", "ReapFailed"} \ {"none"} :
          /\ primary' = trigger /\ class' = primary_classification(trigger)
          /\ at' = IF trigger = "Cap" THEN "observe" ELSE "probe"
  /\ UNCHANGED <<leader, status, member, written, cancelled, overdue, signals, expired>>

\* observe_leader_exit: after a cap, the leader is given a while to exit by itself.
Observe ==
  /\ at = "observe" /\ drain_available
  /\ at' = IF leader = "exited" \/ expired THEN "probe" ELSE at
  /\ expired' = IF at' = at THEN expired ELSE FALSE
  /\ UNCHANGED <<leader, status, member, written, cancelled, overdue, primary, observed, class, signals>>

\* A group of which only the exited leader is left may be reported gone, or not to be signalled.
OnlyLeft == leader = "exited" /\ ~Alive

\* cleanup_process_group: a group that is gone is only reaped; another is told to end.
Probe ==
  /\ at = "probe"
  /\ at' = "term" \/ (OnlyLeft /\ at' = "reap")
  /\ expired' = FALSE
  /\ UNCHANGED <<leader, status, member, written, read, cancelled, overdue, primary, observed, class, signals>>

\* signal_process_group: sent while the leader is not reaped, so the id is still the group's own.
\* A member may ignore TERM and none ignores KILL; the signal may be denied.
Sent(signal) == signals' = [sent |-> signals.sent \cup {signal}, stray |-> signals.stray \/ leader = "reaped"]
Term ==
  /\ at = "term"
  /\ \/ /\ Sent("TERM") /\ at' = "grace"
        /\ leader' \in {leader, IF leader = "running" THEN "exited" ELSE leader}
        /\ status' = IF leader' # leader THEN "signal" ELSE status
        /\ member' \in {member, IF Alive THEN "gone" ELSE member}
        /\ UNCHANGED class
     \/ leader = "exited" /\ Sent("denied") /\ at' = "reap" /\ UNCHANGED <<leader, status, member, class>>
     \/ leader = "running" /\ Sent("denied") /\ at' = "drain" /\ class' = "ProcessSignalFailed" /\ UNCHANGED <<leader, status, member>>
  /\ expired' = FALSE
  /\ UNCHANGED <<written, read, cancelled, overdue, primary, observed>>

\* Mutant: a leader that ended in the grace is reaped before the rest of the group is killed.
Grace_reaped ==
  /\ at = "grace" /\ drain_available
  /\ at' = IF leader = "exited" \/ expired THEN "kill" ELSE at
  /\ leader' = IF leader = "exited" THEN "reaped" ELSE leader
  /\ expired' = IF at' = at THEN expired ELSE FALSE
  /\ UNCHANGED <<status, member, written, cancelled, overdue, primary, observed, class, signals>>

\* wait_for_process_group: to the grace's end, or until the leader has exited.
Grace ==
  /\ at = "grace" /\ drain_available
  /\ \/ at' = (IF leader = "exited" \/ expired THEN "kill" ELSE at) /\ UNCHANGED signals
     \/ OnlyLeft /\ at' = "reap" /\ signals' = [signals EXCEPT !.sent = @ \cup {"denied"}]
  /\ expired' = IF at' = at THEN expired ELSE FALSE
  /\ UNCHANGED <<leader, status, member, written, cancelled, overdue, primary, observed, class>>

Kill ==
  /\ at = "kill"
  /\ \/ /\ Sent("KILL") /\ at' = "reap"
        /\ leader' = (IF leader = "running" THEN "exited" ELSE leader) /\ status' = (IF leader = "running" THEN "signal" ELSE status)
        /\ member' = IF Alive THEN "gone" ELSE member
        /\ UNCHANGED class
     \/ leader = "exited" /\ Sent("denied") /\ at' = "reap" /\ UNCHANGED <<leader, status, member, class>>
     \/ leader = "running" /\ Sent("denied") /\ at' = "drain" /\ class' = "ProcessSignalFailed" /\ UNCHANGED <<leader, status, member>>
  /\ expired' = FALSE
  /\ UNCHANGED <<written, read, cancelled, overdue, primary, observed>>

\* Mutant: a group that is still there when its leader is reaped is left alone.
Reap_leader ==
  /\ at = "reap" /\ drain_available
  /\ \/ leader = "exited" /\ leader' = "reaped" /\ at' = "drain" /\ UNCHANGED class
     \/ leader = "reaped" /\ at' = "drain" /\ UNCHANGED <<leader, class>>
     \/ leader # "exited" /\ expired /\ at' = "drain" /\ class' = "ProcessReapFailed" /\ UNCHANGED leader
  /\ expired' = FALSE
  /\ UNCHANGED <<status, member, written, cancelled, overdue, primary, observed, signals>>

\* ensure_leader_reaped and finish_process_group_cleanup: the leader is reaped
\* and the group must be gone, before the deadline.
Reap ==
  /\ at = "reap" /\ drain_available
  /\ \/ leader = "exited" /\ leader' = "reaped" /\ UNCHANGED <<at, class, expired>>
     \/ leader = "reaped" /\ ~Alive /\ at' = "drain" /\ expired' = FALSE /\ UNCHANGED <<leader, class>>
     \/ /\ Group /\ leader # "exited" /\ expired
        /\ at' = "drain" /\ expired' = FALSE
        /\ class' = (IF leader = "reaped" /\ "denied" \in signals.sent THEN "ProcessSignalFailed" ELSE "ProcessReapFailed")
        /\ UNCHANGED leader
  /\ UNCHANGED <<status, member, written, cancelled, overdue, primary, observed, signals>>

CleanupFailed == class \in {"ProcessSignalFailed", "ProcessReapFailed"}

\* The rest of the output, until every writer is gone; then the caps have the last word.
Drain ==
  /\ at = "drain" /\ drain_available
  /\ \/ /\ read' = written /\ ~Writers
        /\ at' = "done"
        /\ class' = IF ~CleanupFailed /\ primary # "CollectorFailed" /\ read' > Cap THEN "CapExceeded" ELSE class
     \/ Writers /\ expired /\ at' = "done" /\ class' = "OutputDrainTimeout"
     \/ Writers /\ ~expired /\ UNCHANGED <<at, class>>
     \/ at' = "done" /\ class' = "OutputCollectorFailed"
  /\ UNCHANGED <<leader, status, member, written, cancelled, overdue, primary, observed, signals, expired>>

\* visible_exit_code.
visible_exit_code == IF primary \in {"Cancelled", "TimedOut"} THEN "none" ELSE observed

Init ==
  /\ leader = "none" /\ status = "none" /\ member = "none" /\ written = 0 /\ read = 0
  /\ cancelled = FALSE /\ overdue = FALSE /\ at = "start" /\ primary = "none" /\ observed = "none"
  /\ class = "none" /\ signals = [sent |-> {}, stray |-> FALSE] /\ expired = FALSE

Controller == Start \/ Watch \/ Observe \/ Probe \/ Term \/ Grace \/ Kill \/ Reap \/ Drain

Next == Fork \/ Exit \/ Output \/ Cancel \/ Elapse \/ Controller

Spec == Init /\ [][Next]_vars

------------------------------------------------------------------------------
\* A signal never reaches another group: none is sent once the leader, whose
\* id is the group's, has been reaped.
NoStraySignal == ~signals.stray

\* ToolTerminalClassification::matches_terminal, of the classes that say something of the exit code.
matches_terminal ==
  /\ class \in {"ToolTimedOut", "Cancelled", "SignalTermination"} => visible_exit_code = "none"
  /\ class = "NonzeroExit" => visible_exit_code = "nonzero"

\* A Tool is reported as it ended. A success means it exited with zero, wrote
\* no more than the cap, and that nothing of its group is left running; a run
\* that leaves something running says so by a failure of its clean-up.  The
\* class and the exit code are a pair that the records of a Run accept.
OutcomeTold ==
  at = "done" /\ primary # "none" =>
    /\ class = "none" => primary = "Exit" /\ status = "zero" /\ ~CapExceeded /\ visible_exit_code = "zero"
    /\ Group => CleanupFailed \/ class \in {"OutputDrainTimeout", "OutputCollectorFailed"}
    /\ visible_exit_code = "zero" => status = "zero"
    /\ matches_terminal
=============================================================================

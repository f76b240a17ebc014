------------------------------ MODULE LiveStream ------------------------------
(***************************************************************************)
(* The command line following a Run while it is written (flow-agent-cli,   *)
(* streaming.rs): the operation runs in a thread of its own and feeds the  *)
(* live-event channel; the main thread takes wake-ups, reads the committed *)
(* events from the event stream (SessionEventReader) and prints them, and  *)
(* after joining the operation reads the verified rest.                    *)
(***************************************************************************)
EXTENDS EventWriter

VARIABLE follower

vars == <<writer, follower>>

FollowerTypeOK ==
  /\ follower.pc \in {"recv", "load", "read", "join", "final", "done"}
  /\ {follower.wake, follower.high, follower.observed, follower.first, follower.cursor}
       \subseteq Events \cup {0}
  /\ follower.output \in Seq(Events)
  /\ follower.open \in BOOLEAN /\ follower.error \in BOOLEAN

Init ==
  /\ WriterInit
  /\ follower = [pc |-> "recv",
                 wake |-> 0,       \* first_committed_sequence of the wake-up
                 high |-> 0,       \* its highest_committed_sequence
                 observed |-> 0,   \* observed_high_watermark
                 first |-> 0,      \* of the first wake-up; the reader is open
                 cursor |-> 0,
                 output |-> <<>>,  \* events printed
                 open |-> TRUE,    \* nobody closed the pipe
                 error |-> FALSE]

\* The operation ended and released the leases it held.
operation_ended == client.pc = "done"

\* Recv of the capacity-one channel, first half: the queued wake-up.
Receives ==
  /\ follower.pc = "recv" /\ notifier.slot # 0
  /\ notifier' = [notifier EXCEPT !.slot = 0]
  /\ follower' = [follower EXCEPT !.pc = "load", !.wake = notifier.slot]
  /\ UNCHANGED <<kinds, client, queue, response, worker, stream, faults>>

\* Mutant: the wake-up's own sequence number is taken for the highest.
Loads_wake_only ==
  /\ follower.pc = "load"
  /\ follower' = [follower EXCEPT !.pc = "read", !.high = follower.wake,
                                  !.observed = IF follower.wake > @ THEN follower.wake ELSE @]
  /\ UNCHANGED writer

\* Second half: the high-watermark as it is after the wake-up was taken.
Loads ==
  /\ follower.pc = "load"
  /\ follower' = [follower EXCEPT !.pc = "read", !.high = notifier.high,
                                  !.observed = IF notifier.high > @ THEN notifier.high ELSE @]
  /\ UNCHANGED writer

\* Mutant: a closed channel is taken for a timeout.
Closed_as_timeout ==
  /\ follower.pc = "recv" /\ notifier.slot = 0 /\ worker.pc = "exit"
  /\ UNCHANGED vars

\* Every notifier is dropped and no wake-up is queued.
Closed ==
  /\ follower.pc = "recv" /\ notifier.slot = 0 /\ worker.pc = "exit"
  /\ follower' = [follower EXCEPT !.pc = "join"]
  /\ UNCHANGED writer

\* Mutant: an output that ended early is not noticed.
Printed_unnoticed(from, through, printed, failed) ==
  [follower EXCEPT
     !.output = @ \o [i \in 1..printed |-> from + i],
     !.cursor = IF through > from THEN through ELSE from,
     !.first = IF @ = 0 THEN follower.wake ELSE @]

\* The follower after it printed `printed` of the events above `from` up to
\* `through`: all of them, or fewer because the pipe was closed (the reader
\* still visits the rest), or fewer because a write failed.
Printed(from, through, printed, failed) ==
  [follower EXCEPT
     !.output = @ \o [i \in 1..printed |-> from + i],
     !.cursor = IF failed THEN from + printed
                ELSE IF through > from THEN through ELSE from,
     !.first = IF @ = 0 THEN follower.wake ELSE @,
     !.open = @ /\ printed = through - from,
     !.error = failed]

\* Mutant: the cursor does not start below the first committed event.
start_from_zero == follower.cursor

\* Where a read starts: the first wake-up of a resumed Run skips what the log
\* held before.
start ==
  LET first == IF follower.first = 0 THEN follower.wake ELSE follower.first
  IN  IF follower.cursor > first - 1 THEN follower.cursor ELSE first - 1

\* How many of the events in (from, through] are printed, and whether the
\* output failed.
Prints(from, through) ==
  LET new == IF through > from THEN through - from ELSE 0
  IN  IF ~follower.open THEN {<<0, FALSE>>}
      ELSE {<<new, FALSE>>} \cup (0..new - 1) \X {FALSE, TRUE}

\* write_new_events; a torn line is an error once no lease is held.  The first
\* read verifies the whole log before it visits an event.
Reads ==
  /\ follower.pc = "read"
  /\ \/ \E p \in Prints(start, follower.high) :
          follower' = [Printed(start, follower.high, p[1], p[2]) EXCEPT
            !.pc = IF p[2] \/ p[1] < follower.high - start THEN "join" ELSE "recv"]
     \/ /\ stream.torn /\ operation_ended
        /\ LET new == IF follower.first = 0 \/ follower.high < start THEN 0
                      ELSE follower.high - start
           IN  follower' = [Printed(start, start + new, new, FALSE) EXCEPT
                             !.pc = "join", !.error = TRUE]
  /\ UNCHANGED writer

\* worker.join(), then the last high-watermark.
Joins ==
  /\ follower.pc = "join" /\ operation_ended
  /\ follower' = [follower EXCEPT !.pc = "final",
                                  !.observed = IF notifier.high > @ THEN notifier.high ELSE @]
  /\ UNCHANGED writer

\* write_verified_events, unless reading failed before or no event was ever
\* notified; the complete log is verified first.
Finishes ==
  /\ follower.pc = "final"
  /\ IF follower.error \/ follower.first = 0
     THEN follower' = [follower EXCEPT !.pc = "done"]
     ELSE IF stream.torn
     THEN follower' = [follower EXCEPT !.pc = "done", !.error = TRUE]
     ELSE \E p \in Prints(follower.cursor, follower.observed) :
            follower' = [Printed(follower.cursor, follower.observed, p[1], p[2]) EXCEPT
                          !.pc = "done"]
  /\ UNCHANGED writer

Follower == Receives \/ Loads \/ Closed \/ Reads \/ Joins \/ Finishes

Next == (WriterNext /\ UNCHANGED follower) \/ Follower

Spec == Init /\ [][Next]_vars

\* All three threads run, and the operation drops its writer in the end.
FairSpec ==
  /\ Spec
  /\ WF_vars(Worker /\ UNCHANGED follower)
  /\ WF_vars((Finish \/ ClientProgress) /\ UNCHANGED follower)
  /\ WF_vars(Follower)

-----------------------------------------------------------------------------
(* Properties.                                                             *)

TypeOK == WriterTypeOK /\ FollowerTypeOK

\* What is printed is the committed log from the first new event on, every
\* event once and in order, through coalesced wake-ups, early exits and the
\* final read (write_new_events, write_verified_events).
PrintedInOrder ==
  /\ \A i \in DOMAIN follower.output : follower.output[i] = Prior + i
  /\ Prior + Len(follower.output) <= Len(stream.log)

\* When the follower waits with no wake-up queued, and none about to be, it has
\* read all that is announced: a commit that finds the channel full is seen
\* through the high-watermark (try_notify_run, recv_timeout).
NoLostWakeup ==
  follower.pc = "recv" /\ notifier.slot = 0 /\ worker.step # "wake" /\ notifier.high # 0
    => follower.cursor = notifier.high

\* A command that ends without an output error, and whose output stayed open,
\* has printed every event the writer announced, hence every event whenever
\* the operation reported no error (stream_live_operation).
CompleteOutput ==
  follower.pc = "done" /\ follower.open /\ ~follower.error =>
    /\ Len(follower.output) = (IF notifier.high = 0 THEN 0 ELSE notifier.high - Prior)
    /\ ~client.told => Prior + Len(follower.output) = Len(kinds)

\* The follower prints the log in order, misses no wake-up, and prints all of it before the
\* command ends, whenever the writer batches, rolls back or fails (stream_live_operation).
OutputFollowsLog == PrintedInOrder /\ NoLostWakeup /\ CompleteOutput

\* The command ends: neither a slow, failed or early-closed output nor a
\* failing writer leaves a thread waiting for the other.
CommandEnds == <>(follower.pc = "done")
=============================================================================

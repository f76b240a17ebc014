----------------------------- MODULE EventWriter -----------------------------
(***************************************************************************)
(* The serial event writer of one Run (flow-agent-core,                    *)
(* runtime/serial_event_writer.rs with the backend of                      *)
(* runtime/conversations/event_persistence.rs) and the live-event channel  *)
(* it feeds (runtime/live_events.rs).                                      *)
(*                                                                         *)
(* Two threads: the client, which constructs events one after the other    *)
(* and waits for the answers it needs, and the worker, which owns the      *)
(* event log.  Deltas are batched and answered late; every other event is  *)
(* flushed, appended and answered before the client goes on.  The file     *)
(* system may fail an append (part of the batch stays, possibly with a     *)
(* torn line) or a sync (the unsynced bytes can no longer be trusted: a    *)
(* later sync that succeeds says nothing about them).                      *)
(***************************************************************************)
EXTENDS Naturals, Sequences

CONSTANTS
  Kinds,          \* the kinds of events the client constructs
  Prior,          \* events the log holds when the Run is resumed
  MaxEvents,      \* events it may hold in the end
  QueueCapacity,  \* EVENT_WRITER_QUEUE_CAPACITY
  BatchCapacity,  \* EVENT_WRITER_BATCH_CAPACITY
  MaxFaults       \* failing file operations

ASSUME EventWriterAssumption ==
  /\ Kinds \subseteq {"delta", "context", "plain", "checkpoint"}
  /\ Prior \in Nat
  /\ MaxEvents \in Nat /\ MaxEvents >= Prior
  /\ QueueCapacity \in Nat \ {0}
  /\ BatchCapacity \in Nat \ {0}
  /\ MaxFaults \in Nat

VARIABLES
  kinds,      \* kinds[n]: what event n (sequence number n) is
  client,     \* SerialWriterClient
  queue,      \* the bounded channel to the worker; Shutdown or an event
  response,   \* the acknowledgement channel of each event and of Shutdown
  worker,     \* the worker loop and its ConversationWriterBackend
  stream,     \* the event and context streams on disk
  notifier,   \* LiveEventNotifier: high-watermark and capacity-one wake-up
  faults

writer == <<kinds, client, queue, response, worker, stream, notifier, faults>>

Events == 1..MaxEvents

Shutdown == 0

\* The worker has nothing left to do with the command it received.
Nothing == MaxEvents + 1

is_micro_batch_event(kind) == kind = "delta"

is_event_sync_checkpoint(kind) == kind = "checkpoint"

Outcomes == {"open", "ok", "failed"}

WriterTypeOK ==
  /\ kinds \in Seq(Kinds \cup {"plain"}) /\ Len(kinds) <= MaxEvents
  /\ client.pc \in {"ready", "drain", "send", "await", "shutdown", "collect", "done"}
  /\ client.deferred \in Seq(Events)
  /\ client.failed \in BOOLEAN /\ client.told \in BOOLEAN
  /\ queue \in Seq(Events \cup {Shutdown}) /\ Len(queue) <= QueueCapacity
  /\ response \in [Events \cup {Shutdown} -> Outcomes]
  /\ worker.pc \in {"loop", "batch", "deliver", "commit", "shutdown", "exit"}
  /\ worker.batch \in Seq(Events)
  /\ worker.outbox \in Seq([event : Events, appended : BOOLEAN, failed : BOOLEAN])
  /\ worker.step \in {"watermark", "wake", "ack"}
  /\ worker.then \in Events \cup {Shutdown, Nothing}
  /\ {worker.pending_error, worker.stopped, worker.dirty} \subseteq BOOLEAN
  /\ worker.previous \in Events \cup {0}
  /\ stream.log \in Seq(Events)
  /\ stream.synced \in 0..Len(stream.log)
  /\ {stream.torn, stream.doubtful} \subseteq BOOLEAN
  /\ stream.contexts \subseteq Events
  /\ notifier \in [high : Events \cup {0}, slot : Events \cup {0}]
  /\ faults \in 0..MaxFaults

WriterInit ==
  /\ kinds = [n \in 1..Prior |-> "plain"]
  /\ client = [pc |-> "ready", deferred |-> <<>>, failed |-> FALSE, told |-> FALSE]
  /\ queue = <<>>
  /\ response = [e \in Events \cup {Shutdown} |-> IF e \in 1..Prior THEN "ok" ELSE "open"]
  /\ worker = [pc |-> "loop", batch |-> <<>>, outbox |-> <<>>, step |-> "watermark",
               then |-> Nothing, pending_error |-> FALSE, stopped |-> FALSE,
               dirty |-> FALSE, previous |-> Prior]
  /\ stream = [log |-> [n \in 1..Prior |-> n],  \* complete event lines, synced or not
               torn |-> FALSE,                  \* an incomplete line follows them
               synced |-> Prior,                \* how many of them are known to be on disk
               doubtful |-> FALSE,              \* a sync failed while lines were unsynced
               contexts |-> {}]                 \* events whose context manifest is synced
  /\ notifier = [high |-> 0, slot |-> 0]
  /\ faults = 0

-----------------------------------------------------------------------------
(* SerialWriterClient.                                                     *)

clientOnly == <<kinds, queue, response, worker, stream, notifier, faults>>

\* commit, up to the send.  A client that has applied a failure refuses every
\* further event, which changes nothing.
Commit(kind) ==
  /\ client.pc = "ready" /\ ~client.failed
  /\ Len(kinds) < MaxEvents
  /\ kinds' = Append(kinds, kind)
  /\ client' = [client EXCEPT !.pc =
       IF is_micro_batch_event(kind) /\ Len(client.deferred) = BatchCapacity
       THEN "drain" ELSE "send"]
  /\ UNCHANGED <<queue, response, worker, stream, notifier, faults>>

\* Mutant: the channel is not bounded.
Send_unbounded ==
  /\ client.pc = "send"
  /\ queue' = Append(queue, Len(kinds))
  /\ client' = [client EXCEPT
       !.pc = IF is_micro_batch_event(kinds[Len(kinds)]) THEN "ready" ELSE "await",
       !.deferred = Append(@, Len(kinds))]
  /\ UNCHANGED <<kinds, response, worker, stream, notifier, faults>>

\* The blocking send; the answer of a batchable event is collected later, that
\* of any other after all the deferred ones.
Send ==
  /\ client.pc = "send" /\ Len(queue) < QueueCapacity
  /\ queue' = Append(queue, Len(kinds))
  /\ client' = [client EXCEPT
       !.pc = IF is_micro_batch_event(kinds[Len(kinds)]) THEN "ready" ELSE "await",
       !.deferred = Append(@, Len(kinds))]
  /\ UNCHANGED <<kinds, response, worker, stream, notifier, faults>>

\* take_deferred_failures and apply: one answer.
TakeResponse ==
  /\ client.pc \in {"drain", "await", "collect"} /\ client.deferred # <<>>
  /\ response[Head(client.deferred)] # "open"
  /\ LET failure == response[Head(client.deferred)] = "failed"
     IN  client' = [client EXCEPT !.deferred = Tail(@),
                                  !.failed = @ \/ failure,
                                  !.told = @ \/ failure]
  /\ UNCHANGED clientOnly

\* All deferred answers are in.  A failure met before the send returns without
\* sending the event.
Drained ==
  /\ client.pc \in {"drain", "await"} /\ client.deferred = <<>>
  /\ client' = [client EXCEPT !.pc =
       IF client.pc = "drain" /\ ~client.failed THEN "send" ELSE "ready"]
  /\ kinds' = IF client.pc = "drain" /\ client.failed THEN SubSeq(kinds, 1, Len(kinds) - 1) ELSE kinds
  /\ UNCHANGED <<queue, response, worker, stream, notifier, faults>>

\* finish (also run by Drop): send Shutdown, collect the deferred answers, then
\* the answer to Shutdown, and join the worker.
Finish ==
  /\ client.pc = "ready"
  /\ client' = [client EXCEPT !.pc = "shutdown"]
  /\ UNCHANGED clientOnly

SendShutdown ==
  /\ client.pc = "shutdown" /\ Len(queue) < QueueCapacity
  /\ queue' = Append(queue, Shutdown)
  /\ client' = [client EXCEPT !.pc = "collect"]
  /\ UNCHANGED <<kinds, response, worker, stream, notifier, faults>>

Joined ==
  /\ client.pc = "collect" /\ client.deferred = <<>>
  /\ response[Shutdown] # "open" /\ worker.pc = "exit"
  /\ LET failure == response[Shutdown] = "failed"
     IN  client' = [client EXCEPT !.pc = "done", !.failed = @ \/ failure,
                                  !.told = @ \/ failure]
  /\ UNCHANGED clientOnly

\* What the client does once it has been called.
ClientProgress == Send \/ TakeResponse \/ Drained \/ SendShutdown \/ Joined

Client == (\E kind \in Kinds : Commit(kind)) \/ Finish \/ ClientProgress
-----------------------------------------------------------------------------
(* The worker loop and its backend.                                        *)

\* What an append of n lines may do: all of them; or fail after keeping a
\* prefix of complete lines; or fail with an incomplete suffix that could not
\* be removed, and then how much was kept is not known.
Appends(n) ==
  {[ok |-> TRUE, kept |-> n, known |-> TRUE]} \cup
  IF faults = MaxFaults THEN {}
  ELSE {[ok |-> FALSE, kept |-> k, known |-> TRUE] : k \in 0..n} \cup
       {[ok |-> FALSE, kept |-> k, known |-> FALSE] : k \in 0..n - 1}

\* A failed append may have failed in the sync that seals a segment.
Unsynced(result) == ~result.ok /\ stream.synced < Len(stream.log)

Syncs == IF faults = MaxFaults THEN {TRUE} ELSE BOOLEAN

\* The streams after a sync.
Synced(ok, s) ==
  [s EXCEPT !.synced = IF ok /\ ~s.doubtful THEN Len(s.log) ELSE @,
            !.doubtful = @ \/ (~ok /\ s.synced < Len(s.log))]

\* validate_constructed_event: the next sequence number, whatever became of
\* the events before it.
Valid(events) == \A i \in DOMAIN events : events[i] = worker.previous + i

Outbox(events, kept) ==
  [i \in DOMAIN events |-> [event |-> events[i], appended |-> i <= kept, failed |-> i > kept]]

reject_batch(events) == Outbox(events, 0)

\* Where the worker goes when nothing is left to acknowledge.
Resumed(w) ==
  [w EXCEPT !.pc = IF w.then = Nothing THEN "loop"
                   ELSE IF w.then = Shutdown THEN "shutdown" ELSE "commit"]

\* is_due: the batch window closed.
BatchDue ==
  /\ worker.pc = "loop" /\ worker.batch # <<>>
  /\ worker' = [worker EXCEPT !.pc = "batch"]
  /\ UNCHANGED <<kinds, client, queue, response, stream, notifier, faults>>

\* Mutant: a failed periodic sync is forgotten.
Tick_forgets ==
  /\ worker.pc = "loop"
  /\ worker.dirty /\ ~worker.stopped /\ ~worker.pending_error
  /\ \E ok \in Syncs :
       /\ stream' = Synced(ok, stream)
       /\ worker' = [worker EXCEPT !.dirty = FALSE]
       /\ faults' = faults + (IF ok THEN 0 ELSE 1)
  /\ UNCHANGED <<kinds, client, queue, response, notifier>>

\* tick: the dirty interval passed; a failure waits for the next answer.
Tick ==
  /\ worker.pc = "loop"
  /\ worker.dirty /\ ~worker.stopped /\ ~worker.pending_error
  /\ \E ok \in Syncs :
       /\ stream' = Synced(ok, stream)
       /\ worker' = [worker EXCEPT !.pending_error = ~ok, !.dirty = FALSE]
       /\ faults' = faults + (IF ok THEN 0 ELSE 1)
  /\ UNCHANGED <<kinds, client, queue, response, notifier>>

\* Mutant: a worker that stopped no longer takes commands.
Receive_unless_stopped ==
  /\ worker.pc = "loop" /\ queue # <<>> /\ ~worker.stopped
  /\ queue' = Tail(queue)
  /\ LET command == Head(queue)
     IN  worker' =
           IF command # Shutdown /\ is_micro_batch_event(kinds[command])
           THEN [worker EXCEPT !.batch = Append(@, command),
                               !.pc = IF Len(worker.batch) + 1 = BatchCapacity
                                      THEN "batch" ELSE @]
           ELSE [worker EXCEPT !.then = command, !.pc = "batch"]
  /\ UNCHANGED <<kinds, client, response, stream, notifier, faults>>

\* recv_timeout: a batchable event joins the batch, which is committed when it
\* is full; any other command commits the batch first.
Receive ==
  /\ worker.pc = "loop" /\ queue # <<>>
  /\ queue' = Tail(queue)
  /\ LET command == Head(queue)
     IN  worker' =
           IF command # Shutdown /\ is_micro_batch_event(kinds[command]) /\ ~worker.stopped
           THEN [worker EXCEPT !.batch = Append(@, command),
                               !.pc = IF Len(worker.batch) + 1 = BatchCapacity
                                      THEN "batch" ELSE @]
           ELSE [worker EXCEPT !.then = command, !.pc = "batch"]
  /\ UNCHANGED <<kinds, client, response, stream, notifier, faults>>

\* Mutant: a batch that failed part-way is acknowledged whole.
batch_outbox_whole(events, result) == Outbox(events, Len(events))

\* partition_failed_batch: the answers to a batch that was handed to the appender.
batch_outbox(events, result) ==
  IF result.known THEN Outbox(events, result.kept) ELSE reject_batch(events)

\* commit_batch of the batch just taken.
CommitBatch ==
  /\ worker.pc = "batch"
  /\ LET events == worker.batch
         taken == [worker EXCEPT !.batch = <<>>]
     IN  \/ /\ events = <<>>
            /\ worker' = Resumed(taken)
            /\ UNCHANGED <<stream, faults>>
         \/ /\ events # <<>>
            /\ worker.pending_error \/ ~Valid(events)
            /\ worker' = [taken EXCEPT !.pc = "deliver", !.outbox = reject_batch(events),
                                       !.stopped = TRUE, !.pending_error = FALSE]
            /\ UNCHANGED <<stream, faults>>
         \/ /\ events # <<>>
            /\ ~worker.pending_error /\ Valid(events)
            /\ \E result \in Appends(Len(events)) :
                 /\ stream' = [stream EXCEPT !.log = @ \o SubSeq(events, 1, result.kept),
                                             !.torn = ~result.known,
                                             !.doubtful = @ \/ Unsynced(result)]
                 /\ faults' = faults + (IF result.ok THEN 0 ELSE 1)
                 /\ worker' = [taken EXCEPT
                      !.pc = "deliver",
                      !.outbox = batch_outbox(events, result),
                      !.dirty = @ \/ (result.known /\ result.kept > 0),
                      !.pending_error = ~result.ok /\ result.kept = Len(events),
                      !.stopped = ~result.ok,
                      !.previous = events[Len(events)]]
  /\ UNCHANGED <<kinds, client, queue, response, notifier>>

\* The context manifest of an event could not be stored or synced.
ContextFails(event) ==
  /\ kinds[event] = "context" /\ faults < MaxFaults
  /\ faults' = faults + 1
  /\ worker' = [worker EXCEPT !.pc = "deliver", !.then = Nothing, !.previous = event,
                              !.outbox = reject_batch(<<event>>), !.stopped = TRUE]
  /\ UNCHANGED stream

\* Mutant: a checkpoint is acknowledged before it is synced.
AppendEvent_unsynced(event) ==
  \E result \in Appends(1) :
    LET appended == result.known /\ result.kept = 1
    IN  /\ stream' = [stream EXCEPT
             !.log = @ \o SubSeq(<<event>>, 1, result.kept), !.torn = ~result.known,
             !.contexts = @ \cup {e \in {event} : kinds[e] = "context"}]
        /\ worker' = [worker EXCEPT
             !.pc = "deliver", !.then = Nothing, !.previous = event,
             !.outbox = <<[event |-> event, appended |-> appended, failed |-> ~result.ok]>>,
             !.dirty = @ \/ appended, !.stopped = ~result.ok]
        /\ faults' = faults + (IF result.ok THEN 0 ELSE 1)

\* commit_semantic of a valid event: its context first, then the line, then,
\* for a checkpoint, both streams are synced.
AppendEvent(event) ==
  \E result \in Appends(1), ok \in Syncs :
    LET appended == result.known /\ result.kept = 1
        checkpoint == appended /\ is_event_sync_checkpoint(kinds[event])
        written == [stream EXCEPT
          !.log = @ \o SubSeq(<<event>>, 1, result.kept), !.torn = ~result.known,
          !.doubtful = @ \/ Unsynced(result),
          !.contexts = @ \cup {e \in {event} : kinds[e] = "context"}]
        failures == (IF result.ok THEN 0 ELSE 1) + (IF checkpoint /\ ~ok THEN 1 ELSE 0)
    IN  /\ checkpoint \/ ok
        /\ faults + failures <= MaxFaults
        /\ faults' = faults + failures
        /\ stream' = IF checkpoint THEN Synced(ok, written) ELSE written
        /\ worker' = [worker EXCEPT
             !.pc = "deliver", !.then = Nothing, !.previous = event,
             !.outbox = <<[event |-> event, appended |-> appended, failed |-> failures > 0]>>,
             !.dirty = (@ \/ appended) /\ ~checkpoint,
             !.stopped = failures > 0]

\* Mutant: an event after a failed batch is appended like any other.
CommitEvent_unstopped ==
  /\ worker.pc = "commit"
  /\ LET refused == worker.pending_error \/ ~Valid(<<worker.then>>)
     IN  \/ /\ refused
            /\ worker' = [worker EXCEPT
                 !.pc = "deliver", !.then = Nothing, !.outbox = reject_batch(<<worker.then>>),
                 !.pending_error = FALSE, !.stopped = TRUE]
            /\ UNCHANGED <<stream, faults>>
         \/ ~refused /\ AppendEvent(worker.then)
  /\ UNCHANGED <<kinds, client, queue, response, notifier>>

\* commit.
CommitEvent ==
  /\ worker.pc = "commit"
  /\ LET refused == worker.stopped \/ worker.pending_error \/ ~Valid(<<worker.then>>)
     IN  \/ /\ refused
            /\ worker' = [worker EXCEPT
                 !.pc = "deliver", !.then = Nothing, !.outbox = reject_batch(<<worker.then>>),
                 !.pending_error = @ /\ worker.stopped, !.stopped = TRUE]
            /\ UNCHANGED <<stream, faults>>
         \/ ~refused /\ ContextFails(worker.then)
         \/ ~refused /\ AppendEvent(worker.then)
  /\ UNCHANGED <<kinds, client, queue, response, notifier>>

delivering == worker.pc = "deliver" /\ worker.outbox # <<>>

\* try_notify_run, first half: fetch_max of the high-watermark.
Watermark ==
  /\ delivering /\ worker.step = "watermark" /\ Head(worker.outbox).appended
  /\ notifier' = [notifier EXCEPT !.high = IF Head(worker.outbox).event > @
                                          THEN Head(worker.outbox).event ELSE @]
  /\ worker' = [worker EXCEPT !.step = "wake"]
  /\ UNCHANGED <<kinds, client, queue, response, stream, faults>>

\* Second half: try_send, which never blocks.
Wake ==
  /\ delivering /\ worker.step = "wake"
  /\ notifier' = [notifier EXCEPT !.slot = IF @ = 0 THEN Head(worker.outbox).event ELSE @]
  /\ worker' = [worker EXCEPT !.step = "ack"]
  /\ UNCHANGED <<kinds, client, queue, response, stream, faults>>

\* acknowledge: the answer, after the notification if the line is in the log.
Acknowledge ==
  /\ delivering
  /\ worker.step = "ack" \/ ~Head(worker.outbox).appended
  /\ response' = [response EXCEPT ![Head(worker.outbox).event] =
                    IF Head(worker.outbox).failed THEN "failed" ELSE "ok"]
  /\ worker' = [worker EXCEPT !.outbox = Tail(@), !.step = "watermark"]
  /\ UNCHANGED <<kinds, client, queue, stream, notifier, faults>>

Delivered ==
  /\ worker.pc = "deliver" /\ worker.outbox = <<>>
  /\ worker' = Resumed(worker)
  /\ UNCHANGED <<kinds, client, queue, response, stream, notifier, faults>>

\* Mutant: the last sync is skipped.
ShutDown_unsynced ==
  /\ worker.pc = "shutdown"
  /\ response' = [response EXCEPT ![Shutdown] =
                    IF worker.pending_error THEN "failed" ELSE "ok"]
  /\ worker' = [worker EXCEPT !.pc = "exit", !.pending_error = FALSE, !.dirty = FALSE]
  /\ UNCHANGED <<kinds, client, queue, stream, notifier, faults>>

\* shutdown: the last sync and its answer end the worker and drop its notifier.
ShutDown ==
  /\ worker.pc = "shutdown"
  /\ \E ok \in IF stream.torn THEN {FALSE} ELSE Syncs :
       /\ response' = [response EXCEPT ![Shutdown] =
                         IF ok /\ ~worker.pending_error THEN "ok" ELSE "failed"]
       /\ stream' = Synced(ok, stream)
       /\ faults' = faults + (IF ok \/ stream.torn THEN 0 ELSE 1)
  /\ worker' = [worker EXCEPT !.pc = "exit", !.pending_error = FALSE, !.dirty = FALSE]
  /\ UNCHANGED <<kinds, client, queue, notifier>>

Worker ==
  \/ BatchDue \/ Tick \/ Receive \/ CommitBatch \/ CommitEvent
  \/ Watermark \/ Wake \/ Acknowledge \/ Delivered \/ ShutDown

WriterNext == Client \/ Worker

WriterSpec == WriterInit /\ [][WriterNext]_writer

\* The client and the worker are threads that run; the caller alone decides
\* whether there is a further event or the end.
WriterFairSpec == WriterSpec /\ WF_writer(Worker) /\ WF_writer(ClientProgress)

-----------------------------------------------------------------------------
(* Properties.                                                             *)

\* The event stream is the sequence of events as they were sent, without a
\* gap, a repetition or a swap, whatever append failed (commit_batch, commit
\* and the stopped flag): the validator alone would let an event follow a
\* batch that was validated and then not appended.  An event that carries a
\* context manifest is there only after its manifest (commit_semantic).
LogInOrder ==
  \A i \in DOMAIN stream.log :
    stream.log[i] = i /\ (kinds[i] = "context" => i \in stream.contexts)

\* An event answered without an error is in the log, and a checkpoint answered
\* without an error is on disk with all events before it (commit_semantic).
AcknowledgedKept ==
  \A e \in Prior + 1..MaxEvents : response[e] = "ok" =>
    /\ \E i \in DOMAIN stream.log : stream.log[i] = e
    /\ is_event_sync_checkpoint(kinds[e]) => stream.synced >= e

\* Every failed file operation, the periodic sync between two events included,
\* reaches the caller by the time finish returns (pending_error).
FaultsReported == client.pc = "done" /\ faults > 0 => client.told

\* A caller that was never told of an error finds every event it committed in
\* the log and on disk after finish (shutdown).
CleanFinishDurable ==
  client.pc = "done" /\ ~client.told =>
    /\ Len(stream.log) = Len(kinds) /\ ~stream.torn
    /\ stream.synced = Len(kinds)

\* What the writer answers is so: an acknowledged event is kept, a failed file operation is
\* told, and a writer that finished without an error has everything on disk.
DurabilityTold == AcknowledgedKept /\ FaultsReported /\ CleanFinishDurable

\* Whatever fails, and although nobody takes the wake-ups, each commit returns
\* and finish ends with the worker joined (bounded channels, batch window).
CommitsReturn == client.pc # "ready" ~> client.pc \in {"ready", "done"}

=============================================================================

---------------------------- MODULE SessionWriter ----------------------------
(***************************************************************************)
(* The serial event writer of a Fixture session (flow-agent-core,          *)
(* runtime/event_writer.rs): the client, the queue and the worker loop are *)
(* those of EventWriter; the backend is the session's own, and the client  *)
(* makes the session's reservation active when it learns that the first    *)
(* event is in the log.  A reservation that never became active takes the  *)
(* session's files with it when it is dropped.                             *)
(***************************************************************************)
EXTENDS EventWriter

VARIABLES sync_required,  \* WriterWorker's: the log has lines to sync at the end
          appended,       \* the events whose outcome says so
          active          \* the reservation's state

session == <<sync_required, appended, active>>
sessionVars == <<kinds, client, queue, response, worker, stream, notifier, faults,
                 sync_required, appended, active>>

SessionInit == WriterInit /\ sync_required = FALSE /\ appended = {} /\ active = (Prior > 0)

\* SerialSessionWriter::apply_outcome of a deferred or awaited answer: an event
\* in the log makes the session active, which may fail.
apply_outcome ==
  /\ client.pc \in {"drain", "await", "collect"} /\ client.deferred # <<>>
  /\ response[Head(client.deferred)] # "open"
  /\ \E ok \in IF Head(client.deferred) \in appended /\ ~active THEN Syncs ELSE {TRUE} :
       LET failure == response[Head(client.deferred)] = "failed" \/ ~ok
       IN  /\ client' = [client EXCEPT !.deferred = Tail(@), !.failed = @ \/ failure, !.told = @ \/ failure]
           /\ active' = (active \/ (Head(client.deferred) \in appended /\ ok))
           /\ faults' = faults + (IF ok THEN 0 ELSE 1)
  /\ UNCHANGED <<kinds, queue, response, worker, stream, notifier, sync_required, appended>>

SessionClient ==
  \/ ((\E kind \in Kinds : Commit(kind)) \/ Send \/ Drained \/ Finish \/ SendShutdown \/ Joined) /\ UNCHANGED session
  \/ apply_outcome
-----------------------------------------------------------------------------
\* Mutant: what was kept of a batch that failed part-way is not marked.
MarkDirty_whole(result) == result.ok

\* commit_batch marks the log when lines of the batch are in it.
MarkDirty(result) == result.known /\ result.kept > 0

commit_batch ==
  /\ worker.pc = "batch"
  /\ LET events == worker.batch
         taken == [worker EXCEPT !.batch = <<>>]
     IN  \/ /\ events = <<>>
            /\ worker' = Resumed(taken) /\ UNCHANGED <<stream, faults, sync_required>>
         \/ /\ events # <<>> /\ (worker.pending_error \/ ~Valid(events))
            /\ worker' = [taken EXCEPT !.pc = "deliver", !.outbox = reject_batch(events),
                                       !.stopped = TRUE, !.pending_error = FALSE]
            /\ UNCHANGED <<stream, faults, sync_required>>
         \/ /\ events # <<>> /\ ~worker.pending_error /\ Valid(events)
            /\ \E result \in Appends(Len(events)) :
                 /\ stream' = [stream EXCEPT !.log = @ \o SubSeq(events, 1, result.kept),
                                             !.torn = ~result.known,
                                             !.doubtful = @ \/ Unsynced(result)]
                 /\ faults' = faults + (IF result.ok THEN 0 ELSE 1)
                 /\ sync_required' = (sync_required \/ MarkDirty(result))
                 /\ worker' = [taken EXCEPT
                      !.pc = "deliver", !.outbox = batch_outbox(events, result),
                      !.dirty = @ \/ MarkDirty(result),
                      !.pending_error = ~result.ok /\ result.known /\ result.kept = Len(events),
                      !.stopped = ~result.ok, !.previous = events[Len(events)]]
  /\ UNCHANGED <<kinds, client, queue, response, notifier, appended, active>>

Reject(event) ==
  worker' = [worker EXCEPT !.pc = "deliver", !.then = Nothing, !.previous = event,
                           !.outbox = reject_batch(<<event>>), !.stopped = TRUE]

\* commit_session_event of a valid event: its manifest, its line, and for a
\* checkpoint the sync.
commit_session_event(event) ==
  \/ /\ kinds[event] = "context" /\ faults < MaxFaults /\ faults' = faults + 1
     /\ Reject(event) /\ UNCHANGED <<stream, sync_required>>
  \/ \E result \in Appends(1) :
       LET written == [stream EXCEPT
             !.log = @ \o SubSeq(<<event>>, 1, result.kept), !.torn = ~result.known,
             !.doubtful = @ \/ Unsynced(result),
             !.contexts = @ \cup {e \in {event} : kinds[e] = "context"}]
       IN  \/ /\ ~result.ok /\ stream' = written /\ faults' = faults + 1
              /\ Reject(event) /\ UNCHANGED sync_required
           \/ /\ result.ok
              /\ \E ok \in IF is_event_sync_checkpoint(kinds[event]) THEN Syncs ELSE {TRUE} :
                   LET checkpoint == is_event_sync_checkpoint(kinds[event])
                       dirty == ~checkpoint \/ ~ok
                   IN  /\ stream' = IF checkpoint THEN Synced(ok, written) ELSE written
                       /\ faults' = faults + (IF ok THEN 0 ELSE 1)
                       /\ sync_required' = dirty
                       /\ worker' = [worker EXCEPT
                            !.pc = "deliver", !.then = Nothing, !.previous = event,
                            !.outbox = <<[event |-> event, appended |-> TRUE, failed |-> ~ok]>>, !.dirty = dirty, !.stopped = ~ok]

\* commit: refused after a failure, which is reported once
commit ==
  /\ worker.pc = "commit"
  /\ LET event == worker.then
         refused == worker.stopped \/ worker.pending_error \/ ~Valid(<<event>>)
     IN  \/ /\ refused
            /\ worker' = [worker EXCEPT !.pc = "deliver", !.then = Nothing, !.outbox = reject_batch(<<event>>),
                            !.pending_error = @ /\ worker.stopped, !.stopped = TRUE]
            /\ UNCHANGED <<stream, faults, sync_required>>
         \/ ~refused /\ commit_session_event(event)
  /\ UNCHANGED <<kinds, client, queue, response, notifier, appended, active>>

\* Mutant: a sync that failed is not asked for again.
tick_once ==
  /\ worker.pc = "loop" /\ worker.dirty /\ ~worker.stopped /\ ~worker.pending_error
  /\ \E ok \in Syncs :
       /\ stream' = Synced(ok, stream) /\ faults' = faults + (IF ok THEN 0 ELSE 1)
       /\ worker' = [worker EXCEPT !.dirty = FALSE]
       /\ sync_required' = FALSE
  /\ UNCHANGED <<kinds, client, queue, response, notifier, appended, active>>

\* tick: the dirty interval passed
tick ==
  /\ worker.pc = "loop" /\ worker.dirty /\ ~worker.stopped /\ ~worker.pending_error
  /\ \E ok \in Syncs :
       /\ stream' = Synced(ok, stream) /\ faults' = faults + (IF ok THEN 0 ELSE 1)
       /\ worker' = [worker EXCEPT !.pending_error = ~ok, !.dirty = FALSE]
       /\ sync_required' = (sync_required /\ ~ok)
  /\ UNCHANGED <<kinds, client, queue, response, notifier, appended, active>>

\* acknowledge_batch, and the end of commit: the wake-up, then the answer
acknowledge_batch ==
  \/ (Watermark \/ Wake) /\ UNCHANGED session
  \/ /\ Acknowledge
     /\ appended' = appended \cup (IF Head(worker.outbox).appended THEN {Head(worker.outbox).event} ELSE {})
     /\ UNCHANGED <<sync_required, active>>

\* shutdown syncs what has not been synced.
shutdown ==
  /\ worker.pc = "shutdown"
  /\ \E ok \in IF ~sync_required THEN {TRUE} ELSE IF stream.torn THEN {FALSE} ELSE Syncs :
       /\ response' = [response EXCEPT ![Shutdown] = IF ok /\ ~worker.pending_error THEN "ok" ELSE "failed"]
       /\ stream' = IF sync_required THEN Synced(ok, stream) ELSE stream
       /\ faults' = faults + (IF ok \/ stream.torn THEN 0 ELSE 1)
       /\ sync_required' = (sync_required /\ ~ok)
  /\ worker' = [worker EXCEPT !.pc = "exit", !.pending_error = FALSE, !.dirty = FALSE]
  /\ UNCHANGED <<kinds, client, queue, notifier, appended, active>>

session_writer_worker ==
  \/ (BatchDue \/ Receive \/ Delivered) /\ UNCHANGED session
  \/ tick \/ commit_batch \/ commit \/ acknowledge_batch \/ shutdown

SessionNext == SessionClient \/ session_writer_worker

SessionSpec == SessionInit /\ [][SessionNext]_sessionVars
-----------------------------------------------------------------------------
\* The log of a Fixture session is what was sent, in order and without a gap; an
\* answer without an error is in it, and on disk when it is a checkpoint's.
SessionLog == LogInOrder /\ AcknowledgedKept

\* Every failure reaches the caller by the time finish returns, and a caller
\* that was told of none finds all its events on disk.  After whatever failure,
\* the events in the log are on disk if the last sync was not refused.
SessionFinish ==
  /\ FaultsReported /\ CleanFinishDurable
  /\ client.pc = "done" /\ response[Shutdown] = "ok" /\ ~stream.doubtful =>
       \A e \in appended : stream.synced >= e

\* A session with an event in it that the caller knows of is not taken away with
\* its reservation, unless the caller was told of a failure; and an active one
\* has an event.
SessionStays ==
  /\ client.pc = "done" /\ ~active => \A e \in Events : response[e] = "ok" => client.told
  /\ active => stream.log # <<>>
=============================================================================

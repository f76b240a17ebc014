--------------------------- MODULE LiveStreamProofs ---------------------------
(***************************************************************************)
(* The command line prints the log the writer of EventWriterProofs keeps:  *)
(* in order, from the first new event on, every event it was told of, and  *)
(* all of them unless its output was closed or an error is reported.       *)
(***************************************************************************)
EXTENDS LiveStream, EventWriterProofs

(* What the notifier announced and the follower printed. *)

Notified == IF notifier.high = 0 THEN Prior ELSE notifier.high
Printeds == Len(follower.output)

Followers ==
  [pc : {"recv", "load", "read", "join", "final", "done"}, wake : Nat, high : Nat, observed : Nat,
   first : Nat, cursor : Nat, output : Seq(Nat), open : BOOLEAN, error : BOOLEAN]

\* The lines of the log are announced in order, each before its answer.
Announcing ==
  /\ notifier \in [high : Nat, slot : Nat] /\ (notifier.high # 0 => notifier.high > Prior)
  /\ Notified <= Logged
  /\ \A i \in 1..Taken : worker.outbox[i].appended =>
       worker.outbox[i].event <= Logged /\ \A j \in 1..i : worker.outbox[j].appended
  /\ ~worker.stopped => \A i \in 1..Taken : worker.outbox[i].appended
  /\ worker.step # "watermark" =>
       Taken > 0 /\ worker.outbox[1].appended /\ Notified = worker.outbox[1].event
  /\ worker.step = "watermark" /\ Taken > 0 =>
       (worker.outbox[1].appended => Notified + 1 = worker.outbox[1].event)
  /\ Taken = 0 /\ ~worker.stopped => Notified = worker.previous

\* Before the first wake-up was taken: it is for the first new line.
Unwoken ==
  /\ follower.first = 0 /\ follower.pc \notin {"load", "read"}
  /\ notifier.slot \in {0, Prior + 1}
  /\ notifier.slot = 0 /\ notifier.high # 0 => worker.step = "wake" /\ notifier.high = Prior + 1

\* Before the first read.
Unread ==
  /\ follower.cursor = 0 /\ follower.output = <<>> /\ follower.open /\ ~follower.error
  /\ follower.pc \in {"join", "final", "done"} => notifier.high = 0 /\ worker.pc = "exit"
  /\ follower.wake # 0 => follower.wake = Prior + 1 /\ follower.pc \in {"load", "read"}

\* After it.
Reading ==
  /\ follower.first = Prior + 1 /\ follower.wake # 0
  /\ follower.cursor >= Prior /\ follower.cursor <= follower.observed
  /\ Prior + Printeds <= follower.cursor /\ (follower.open => Prior + Printeds = follower.cursor)

Following ==
  /\ follower \in Followers
  /\ notifier.slot # 0 \/ follower.wake # 0 => notifier.high # 0
  /\ follower.wake = 0 => Unwoken
  /\ IF follower.first = 0 THEN Unread ELSE Reading
  /\ follower.observed <= notifier.high
  /\ follower.pc = "read" =>
       follower.high >= follower.cursor /\ follower.high > Prior /\ follower.high <= follower.observed
  /\ ~follower.open \/ follower.error => follower.pc \in {"join", "final", "done"}
  /\ notifier.slot = 0 /\ worker.step # "wake" /\ notifier.high # 0 =>
       /\ follower.pc = "recv" => follower.cursor = notifier.high
       /\ follower.pc = "read" => follower.high = notifier.high
  /\ follower.pc \in {"final", "done"} => client.pc = "done" /\ follower.observed = notifier.high
  /\ follower.pc = "done" /\ follower.open /\ ~follower.error => Prior + Printeds = Notified
  /\ \A i \in 1..Printeds : follower.output[i] = Prior + i

FollowInv == WriterInv /\ Announcing /\ Following

-----------------------------------------------------------------------------
(* The notifier. *)

\* The outbox is as it was, and so is what is announced.
LEMMA AnnouncedAsBefore ==
  ASSUME Announcing, notifier' \in [high : Nat, slot : Nat], notifier'.high = notifier.high,
         worker'.outbox = worker.outbox, worker'.stopped = worker.stopped, worker'.step = worker.step,
         worker'.previous = worker.previous, stream'.log = stream.log
  PROVE  Announcing' /\ Notified' = Notified
<1>1. Notified' = Notified /\ Taken' = Taken /\ Logged' = Logged
  BY Zenon DEF Notified, Taken, Logged
<1> QED
  BY <1>1, Zenon DEF Announcing

\* An outbox of the n events after b, the first k of them in the log.
Lined(o, n, k, b) == \A i \in 1..n : o[i].event = b + i /\ (o[i].appended <=> i <= k)

\* The worker answers the next n events; the first k are in the log.
LEMMA AnnouncedLater ==
  ASSUME Announcing, Taken = 0, UNCHANGED notifier, worker'.step = worker.step,
         NEW n \in Nat, NEW k \in Nat, NEW b \in Nat, Taken' = n, n > 0,
         Logged \in Nat, Logged' \in Nat, Logged' >= Logged,
         Lined(worker'.outbox, n, k, b),
         k > 0 => Notified = b /\ Logged' >= b + k,
         ~worker'.stopped => k >= n
  PROVE  Announcing' /\ Notified' = Notified
<1>1. Notified' = Notified /\ Notified \in Nat /\ worker'.step = "watermark"
  BY EventWriterAssumption DEF Notified, Announcing
<1>2. \A i \in 1..n : i <= k => b + i <= Logged' /\ \A j \in 1..i : j \in 1..n /\ j <= k
  OBVIOUS
<1>3. Notified <= Logged'
  BY <1>1 DEF Announcing
<1>4. \A i \in 1..n : worker'.outbox[i].appended =>
        worker'.outbox[i].event <= Logged' /\ \A j \in 1..i : worker'.outbox[j].appended
  BY <1>2, Zenon DEF Lined
<1>5. ~worker'.stopped => \A i \in 1..n : worker'.outbox[i].appended
  <2>1. k >= n => \A i \in 1..n : i <= k
    OBVIOUS
  <2> QED
    BY <2>1, Zenon DEF Lined
<1>6. worker'.outbox[1].appended => Notified + 1 = worker'.outbox[1].event
  <2>1. 1 \in 1..n /\ (1 <= k => k > 0) /\ b + 1 = b + 1
    OBVIOUS
  <2> QED
    BY <2>1, Zenon DEF Lined
<1>7. n # 0
  OBVIOUS
<1> QED
  BY <1>1, <1>3, <1>4, <1>5, <1>6, <1>7, Zenon DEF Announcing

\* commit_batch: the lines of a batch that are in the log come first in its outbox.
LEMMA BatchAnnounced == ASSUME FollowInv, CommitBatch PROVE Announcing' /\ Notified' = Notified
<1>1. PICK a \in Nat : InFlight(a)
  BY Zenon DEF FollowInv, WriterInv
<1>2. Counts(a) /\ WriterInv /\ Announcing
  BY <1>1, Numbers, Zenon DEF FollowInv
<1> DEFINE events == worker.batch
<1>3. /\ worker.pc = "batch" /\ worker \in Workers /\ worker.outbox = <<>> /\ Taken = 0 /\ events \in Seq(Events)
      /\ stream \in Streams /\ UNCHANGED notifier
  BY <1>2, Zenon DEF CommitBatch, WriterInv, Types, Places, Taken, Workers
<1>4. notifier \in [high : Nat, slot : Nat]
  BY <1>2, Zenon DEF Announcing
<1>5. /\ Held = Len(events) /\ Held \in Nat /\ \A i \in 1..Held : events[i] = a + i
  <2>1. \A i \in 1..Held : events[i] = a + Taken + i
    BY <1>1, Zenon DEF InFlight, Batching
  <2>2. \A i \in 1..Held : a + Taken + i = a + i
    BY <1>2, <1>3 DEF Counts
  <2> QED
    BY <1>2, <2>1, <2>2, Zenon DEF Held, Counts
<1>6. ASSUME NEW j \in Nat
      PROVE  /\ Len(Outbox(events, j)) = Held
             /\ \A i \in 1..Held : Outbox(events, j)[i].event = a + i /\ (Outbox(events, j)[i].appended <=> i <= j)
  <2>1. /\ Len(Outbox(events, j)) = Len(events)
        /\ \A i \in 1..Len(events) :
             Outbox(events, j)[i].event = events[i] /\ (Outbox(events, j)[i].appended <=> i <= j)
    BY <1>3, OutboxOf, ZenonT(60)
  <2> HIDE DEF events
  <2> QED
    BY <2>1, <1>5, Zenon
<1>7. events # <<>> => Held > 0
  BY <1>3 DEF Held
<1>8. CASE events = <<>> /\ worker' = Resumed([worker EXCEPT !.batch = <<>>]) /\ UNCHANGED <<stream, faults>>
  <2>1. /\ worker'.outbox = worker.outbox /\ worker'.stopped = worker.stopped /\ worker'.step = worker.step
        /\ worker'.previous = worker.previous
    BY <1>3, <1>8, Zenon DEF Resumed, Workers
  <2> QED
    BY <1>2, <1>3, <1>4, <1>8, <2>1, AnnouncedAsBefore, Zenon
<1>9. CASE /\ events # <<>>
           /\ worker' = [[worker EXCEPT !.batch = <<>>] EXCEPT
                !.pc = "deliver", !.outbox = reject_batch(events), !.stopped = TRUE, !.pending_error = FALSE]
           /\ UNCHANGED <<stream, faults>>
  <2>1. worker'.outbox = Outbox(events, 0) /\ worker'.stopped /\ worker'.step = worker.step
    BY <1>3, <1>9, Zenon DEF reject_batch, Workers
  <2>2. Taken' = Held /\ Lined(worker'.outbox, Held, 0, a)
    BY <1>6, <2>1, Zenon DEF Taken, Lined
  <2>3. Logged' = Logged /\ Logged >= Logged /\ Logged \in Nat
    BY <1>2, <1>9 DEF Logged, Counts
  <2>4. 0 \in Nat /\ ~(0 > 0) /\ Held > 0
    BY <1>7, <1>9
  <2> HIDE DEF events
  <2> QED
    BY <1>2, <1>3, <1>5, <2>1, <2>2, <2>3, <2>4, AnnouncedLater, Zenon
<1>10. ASSUME NEW result \in Appends(Len(events)), events # <<>>,
              stream'.log = stream.log \o SubSeq(events, 1, result.kept),
              worker'.outbox = batch_outbox(events, result), worker'.stopped = ~result.ok,
              worker'.step = worker.step
       PROVE  Announcing' /\ Notified' = Notified
  <2> DEFINE k == IF result.known THEN result.kept ELSE 0
  <2>1. /\ result.kept \in Nat /\ result.kept <= Held /\ (result.ok => result.kept = Held /\ result.known)
        /\ k \in Nat /\ k <= result.kept /\ (result.ok => k = Held)
    BY <1>5, AppendsResult
  <2>2. worker'.outbox = Outbox(events, k)
    BY <1>10, Zenon DEF batch_outbox, reject_batch
  <2>3. Taken' = Held /\ Lined(worker'.outbox, Held, k, a)
    BY <1>6, <2>1, <2>2 DEF Taken, Lined
  <2>4. Logged = a /\ Notified = a
    <3>1. ~worker.stopped
      BY <1>2, <1>10, Zenon DEF WriterInv, Places
    <3>2. worker.previous = a + Taken /\ Logged = worker.previous /\ Notified = worker.previous
      BY <1>1, <1>2, <1>3, <3>1, Zenon DEF InFlight, Writing, WriterInv, LogKept, Announcing
    <3> QED
      BY <1>3, <3>2
  <2>5. Logged' = a + result.kept
    <3>1. Len(SubSeq(events, 1, result.kept)) = result.kept /\ SubSeq(events, 1, result.kept) \in Seq(Events)
      BY <1>3, <1>5, <2>1, Prefix
    <3>2. stream.log \in Seq(Nat) /\ Events \subseteq Nat
      BY <1>3 DEF Streams, Events
    <3> QED
      BY <1>10, <2>4, <3>1, <3>2 DEF Logged
  <2> HIDE DEF k, events
  <2>6. Logged' \in Nat /\ Logged' >= Logged /\ Logged' >= a + k /\ Logged \in Nat
    BY <2>1, <2>4, <2>5
  <2>7. (~worker'.stopped => k >= Held) /\ Held > 0
    BY <1>5, <1>7, <1>10, <2>1, Zenon
  <2> QED
    BY <1>2, <1>3, <1>5, <1>10, <2>1, <2>3, <2>4, <2>6, <2>7, AnnouncedLater, Zenon
<1>11. ASSUME NEW result \in Appends(Len(events)), events # <<>>,
              stream' = [stream EXCEPT !.log = @ \o SubSeq(events, 1, result.kept),
                                       !.torn = ~result.known, !.doubtful = @ \/ Unsynced(result)],
              worker' = [[worker EXCEPT !.batch = <<>>] EXCEPT
                      !.pc = "deliver",
                      !.outbox = batch_outbox(events, result),
                      !.dirty = @ \/ (result.known /\ result.kept > 0),
                      !.pending_error = ~result.ok /\ result.kept = Len(events),
                      !.stopped = ~result.ok,
                      !.previous = events[Len(events)]]
       PROVE  Announcing' /\ Notified' = Notified
  <2>1. stream'.log = stream.log \o SubSeq(events, 1, result.kept)
    BY <1>3, <1>11, Zenon DEF Streams
  <2>2. worker'.outbox = batch_outbox(events, result) /\ worker'.stopped = ~result.ok /\ worker'.step = worker.step
    BY <1>3, <1>11, Zenon DEF Workers
  <2> QED
    BY <1>10, <1>11, <2>1, <2>2, Zenon
<1> QED
  BY <1>8, <1>9, <1>11, Zenon DEF CommitBatch

\* commit: so does the one line of any other event.
LEMMA EventAnnounced == ASSUME FollowInv, CommitEvent PROVE Announcing' /\ Notified' = Notified
<1>1. PICK a \in Nat : InFlight(a)
  BY Zenon DEF FollowInv, WriterInv
<1>2. Counts(a) /\ WriterInv /\ Announcing
  BY <1>1, Numbers, Zenon DEF FollowInv
<1> DEFINE event == worker.then
<1>3. /\ worker.pc = "commit" /\ worker \in Workers /\ stream \in Streams /\ UNCHANGED notifier
  BY <1>2, Zenon DEF CommitEvent, WriterInv, Types
<1>4. /\ event = a + 1 /\ event \in Events /\ Taken = 0
      /\ (~worker.stopped => Logged = a /\ worker.previous = a)
  BY <1>1, <1>2, <1>3, EventReceived, Zenon
<1>5. ASSUME NEW k \in {0, 1}, Taken' = 1, worker'.outbox[1].event = event,
             worker'.outbox[1].appended <=> k = 1, worker'.step = worker.step,
             k = 1 => ~worker.stopped /\ Logged' >= a + 1, ~worker'.stopped => k = 1,
             Logged' \in Nat, Logged' >= Logged
      PROVE  Announcing' /\ Notified' = Notified
  <2>1. Taken' = 1 /\ Lined(worker'.outbox, 1, k, a)
    <3>2. \A i \in 1..1 : i = 1 /\ (k = 1 <=> i <= k)
      OBVIOUS
    <3> QED
      BY <1>4, <1>5, <3>2, Zenon DEF Lined
  <2>2. k > 0 => Notified = a /\ Logged' >= a + k
    <3>1. k > 0 => k = 1
      OBVIOUS
    <3> QED
      BY <1>2, <1>4, <1>5, <3>1, Zenon DEF Announcing
  <2>3. k \in Nat /\ 1 \in Nat /\ 1 > 0 /\ (k = 1 => k >= 1)
    OBVIOUS
  <2> QED
    BY <1>2, <1>3, <1>4, <1>5, <2>1, <2>2, <2>3, AnnouncedLater, Zenon DEF Counts
<1>6. ASSUME worker'.outbox = reject_batch(<<event>>), worker'.stopped, worker'.step = worker.step, UNCHANGED stream
      PROVE  Announcing' /\ Notified' = Notified
  <2>1. /\ Len(reject_batch(<<event>>)) = 1 /\ reject_batch(<<event>>)[1].event = event
        /\ reject_batch(<<event>>)[1].appended <=> 1 <= 0
    <3>1. <<event>> \in Seq(Events) /\ Len(<<event>>) = 1 /\ <<event>>[1] = event /\ 1 \in 1..1 /\ 0 \in Nat
      BY <1>4
    <3> QED
      BY <3>1, OutboxOf, Zenon DEF reject_batch
  <2>2. Taken' = 1 /\ Logged' \in Nat /\ Logged' >= Logged
    BY <1>2, <1>6, <2>1 DEF Taken, Logged, Counts
  <2>3. 0 \in {0, 1} /\ 0 # 1 /\ ~(1 <= 0)
    OBVIOUS
  <2> HIDE DEF event
  <2> QED
    BY <1>5, <1>6, <2>1, <2>2, <2>3, Zenon
<1>7. CASE worker' = [worker EXCEPT
                !.pc = "deliver", !.then = Nothing, !.outbox = reject_batch(<<event>>),
                !.pending_error = @ /\ worker.stopped, !.stopped = TRUE]
           /\ UNCHANGED stream
  BY <1>3, <1>6, <1>7, Zenon DEF Workers
<1>8. CASE ContextFails(event)
  BY <1>3, <1>6, <1>8, Zenon DEF Workers, ContextFails
<1>9. CASE ~worker.stopped /\ AppendEvent(event)
  <2>1. PICK result \in Appends(1), ok \in Syncs :
          LET appended == result.known /\ result.kept = 1
              checkpoint == appended /\ is_event_sync_checkpoint(kinds[event])
              written == [stream EXCEPT
                !.log = @ \o SubSeq(<<event>>, 1, result.kept), !.torn = ~result.known,
                !.doubtful = @ \/ Unsynced(result),
                !.contexts = @ \cup {e \in {event} : kinds[e] = "context"}]
              failures == (IF result.ok THEN 0 ELSE 1) + (IF checkpoint /\ ~ok THEN 1 ELSE 0)
          IN  /\ stream' = IF checkpoint THEN Synced(ok, written) ELSE written
              /\ worker' = [worker EXCEPT
                   !.pc = "deliver", !.then = Nothing, !.previous = event,
                   !.outbox = <<[event |-> event, appended |-> appended, failed |-> failures > 0]>>,
                   !.dirty = (@ \/ appended) /\ ~checkpoint,
                   !.stopped = failures > 0]
    BY <1>9, Zenon DEF AppendEvent
  <2> DEFINE appended == result.known /\ result.kept = 1
  <2> DEFINE failed == (IF result.ok THEN 0 ELSE 1)
                         + (IF (appended /\ is_event_sync_checkpoint(kinds[event])) /\ ~ok THEN 1 ELSE 0) > 0
  <2>2. /\ result.kept \in Nat /\ result.kept <= 1 /\ (result.ok => appended) /\ (~result.ok => failed)
    BY AppendsResult
  <2>3. /\ worker'.outbox = <<[event |-> event, appended |-> appended, failed |-> failed]>>
        /\ worker'.stopped = failed /\ worker'.step = worker.step
    BY <1>3, <2>1, Zenon DEF Workers
  <2>8. Taken' = 1 /\ worker'.outbox[1].event = event /\ (worker'.outbox[1].appended <=> appended)
    <3> DEFINE answer == [event |-> event, appended |-> appended, failed |-> failed]
    <3>1. answer.event = event /\ (answer.appended <=> appended)
      BY Zenon
    <3>2. worker'.outbox = <<answer>>
      BY <2>3, Zenon
    <3> HIDE DEF answer
    <3>3. Len(worker'.outbox) = 1 /\ worker'.outbox[1] = answer
      BY <3>2
    <3> QED
      BY <3>1, <3>3, Zenon DEF Taken
  <2>4. stream'.log = stream.log \o SubSeq(<<event>>, 1, result.kept)
    BY <1>3, <2>1, Zenon DEF Synced, Streams
  <2>5. Logged' = a + result.kept /\ Logged = a
    <3>1. <<event>> \in Seq(Events) /\ Len(<<event>>) = 1
      BY <1>4
    <3>2. Len(SubSeq(<<event>>, 1, result.kept)) = result.kept /\ SubSeq(<<event>>, 1, result.kept) \in Seq(Events)
      BY <2>2, <3>1, Prefix
    <3>3. stream.log \in Seq(Nat) /\ Events \subseteq Nat
      BY <1>3 DEF Streams, Events
    <3> QED
      BY <1>4, <1>9, <2>4, <3>2, <3>3 DEF Logged
  <2> HIDE DEF failed
  <2>6. Logged' \in Nat /\ Logged' >= Logged /\ (appended => Logged' >= a + 1)
    BY <2>2, <2>5
  <2> DEFINE k == IF appended THEN 1 ELSE 0
  <2>7. k \in {0, 1} /\ (k = 1 <=> appended)
    OBVIOUS
  <2> HIDE DEF k, appended
  <2> QED
    BY <1>5, <1>9, <2>2, <2>3, <2>6, <2>7, <2>8, Zenon
<1> QED
  BY <1>7, <1>8, <1>9, Zenon DEF CommitEvent

\* What the worker is about to announce or to answer.
LEMMA HeadOfOutbox ==
  ASSUME FollowInv, delivering, NEW a \in Nat, InFlight(a)
  PROVE  /\ Head(worker.outbox) = worker.outbox[1] /\ worker.outbox[1].event = a + 1 /\ a + 1 > Prior
         /\ Taken \in Nat /\ Taken > 0 /\ 1 \in 1..Taken /\ worker.outbox \in Seq(Answers)
         /\ Prior \in Nat /\ Notified \in Nat /\ Logged \in Nat
         /\ worker \in Workers /\ worker.pc = "deliver" /\ notifier \in [high : Nat, slot : Nat]
<1>1. /\ worker.pc = "deliver" /\ worker.outbox # <<>> /\ worker.outbox \in Seq(Answers) /\ worker \in Workers
      /\ notifier \in [high : Nat, slot : Nat]
  BY Zenon DEF delivering, FollowInv, WriterInv, Types, Workers, Announcing
<1>2. Taken \in Nat /\ Taken > 0 /\ Head(worker.outbox) = worker.outbox[1]
  BY <1>1 DEF Taken
<1>3. 1 \in 1..Taken
  BY <1>2
<1>4. worker.outbox[1].event = a + 1
  BY <1>3, Zenon DEF InFlight, Delivering
<1>5. a >= Prior /\ Prior \in Nat /\ Logged \in Nat
  BY Numbers, Zenon DEF InFlight, Answered, Counts, FollowInv
<1>6. Notified \in Nat
  BY <1>1, <1>5, Zenon DEF Notified
<1> QED
  BY <1>1, <1>2, <1>3, <1>4, <1>5, <1>6

\* acknowledge: the next line is announced next.
LEMMA AnswerAnnounced == ASSUME FollowInv, Acknowledge PROVE Announcing' /\ Notified' = Notified
<1>1. PICK a \in Nat : InFlight(a)
  BY Zenon DEF FollowInv, WriterInv
<1>2. /\ worker.outbox[1].event = a + 1 /\ Taken \in Nat /\ Taken > 0 /\ 1 \in 1..Taken /\ worker.outbox \in Seq(Answers)
      /\ Notified \in Nat /\ worker \in Workers /\ Head(worker.outbox) = worker.outbox[1]
  BY <1>1, HeadOfOutbox, Zenon DEF Acknowledge
<1>3. Announcing /\ UNCHANGED <<notifier, stream>>
  BY Zenon DEF FollowInv, Acknowledge
<1> DEFINE o == Tail(worker.outbox)
<1>4. worker'.outbox = o /\ worker'.step = "watermark" /\ worker'.stopped = worker.stopped /\ worker'.previous = worker.previous
  BY <1>2, Zenon DEF Acknowledge, Workers
<1>5. Len(o) = Taken - 1 /\ \A i \in 1..Taken - 1 : o[i] = worker.outbox[i + 1]
  BY <1>2 DEF Taken
<1> HIDE DEF o
<1>6. Taken' = Taken - 1 /\ Logged' = Logged /\ Notified' = Notified
  BY <1>3, <1>4, <1>5, Zenon DEF Taken, Logged, Notified
<1>7. \A i \in 1..Taken - 1 : i + 1 \in 1..Taken /\ \A j \in 1..i : j + 1 \in 1..i + 1 /\ j \in 1..Taken - 1
  BY <1>2
<1>8. \A i \in 1..Taken : worker.outbox[i].appended => 1 \in 1..i
  BY <1>2
<1>9. \A i \in 1..Taken - 1 : o[i].appended =>
        /\ o[i].event <= Logged /\ worker.outbox[1].appended
        /\ \A j \in 1..i : o[j].appended
  <2> SUFFICES ASSUME NEW i \in 1..Taken - 1, o[i].appended
               PROVE  /\ o[i].event <= Logged /\ worker.outbox[1].appended
                      /\ \A j \in 1..i : o[j].appended
    BY Zenon
  <2>1. i + 1 \in 1..Taken /\ worker.outbox[i + 1].appended
    BY <1>5, <1>7, Zenon
  <2>2. worker.outbox[i + 1].event <= Logged /\ \A j \in 1..i + 1 : worker.outbox[j].appended
    BY <1>3, <2>1, Zenon DEF Announcing
  <2> QED
    BY <1>5, <1>7, <1>8, <2>1, <2>2, ZenonT(60)
<1>10. ~worker.stopped => \A i \in 1..Taken - 1 : o[i].appended
  BY <1>3, <1>5, <1>7, Zenon DEF Announcing
<1>11. worker.outbox[1].appended => worker.step = "ack"
  BY <1>2, Zenon DEF Acknowledge
<1>12. worker.outbox[1].appended => Notified = a + 1
  BY <1>2, <1>3, <1>11, Zenon DEF Announcing
<1>13. Taken - 1 > 0 => (o[1].appended => Notified + 1 = o[1].event)
  <2> SUFFICES ASSUME Taken - 1 > 0, o[1].appended PROVE Notified + 1 = o[1].event
    BY Zenon
  <2>1. 1 \in 1..Taken - 1 /\ 2 \in 1..Taken
    BY <1>2
  <2>2. o[1] = worker.outbox[2] /\ worker.outbox[1].appended
    BY <1>5, <1>9, <2>1
  <2>3. worker.outbox[2].event = a + 2
    BY <1>1, <2>1, Zenon DEF InFlight, Delivering
  <2> QED
    BY <1>12, <2>2, <2>3
<1>14. Taken - 1 = 0 /\ ~worker.stopped => Notified = worker.previous
  <2> SUFFICES ASSUME Taken - 1 = 0, ~worker.stopped PROVE Notified = worker.previous
    BY Zenon
  <2>1. worker.outbox[1].appended
    BY <1>2, <1>3, Zenon DEF Announcing
  <2>2. worker.previous = a + Taken /\ Taken = 1
    BY <1>1, <1>2 DEF InFlight, Writing
  <2> QED
    BY <1>12, <2>1, <2>2, Zenon
<1> QED
  BY <1>3, <1>4, <1>6, <1>9, <1>10, <1>13, <1>14, Zenon DEF Announcing

\* The high-watermark moves to the next line.
LEMMA WatermarkAnnounced ==
  ASSUME FollowInv, Watermark
  PROVE  /\ Announcing' /\ notifier.high < notifier'.high /\ notifier'.high = Notified + 1
         /\ notifier'.slot = notifier.slot /\ worker'.step = "wake" /\ worker'.pc = "deliver"
<1>1. PICK a \in Nat : InFlight(a)
  BY Zenon DEF FollowInv, WriterInv
<1>2. /\ worker.outbox[1].event = a + 1 /\ a + 1 > Prior /\ Taken > 0 /\ Prior \in Nat
      /\ Notified \in Nat /\ Logged \in Nat /\ worker \in Workers /\ worker.pc = "deliver"
      /\ Head(worker.outbox) = worker.outbox[1] /\ notifier \in [high : Nat, slot : Nat] /\ 1 \in 1..Taken
  BY <1>1, HeadOfOutbox, Zenon DEF Watermark
<1>3. Announcing /\ UNCHANGED stream /\ worker.step = "watermark" /\ worker.outbox[1].appended
  BY <1>2, Zenon DEF FollowInv, Watermark
<1>4. /\ worker'.outbox = worker.outbox /\ worker'.step = "wake" /\ worker'.stopped = worker.stopped
      /\ worker'.previous = worker.previous /\ worker'.pc = "deliver"
  BY <1>2, Zenon DEF Watermark, Workers
<1>5. Taken' = Taken /\ Logged' = Logged
  BY <1>3, <1>4, Zenon DEF Taken, Logged
<1>6. Notified + 1 = a + 1 /\ a + 1 <= Logged
  BY <1>2, <1>3, Zenon DEF Announcing
<1>7. notifier.high \in Nat /\ notifier.slot \in Nat
  BY <1>2, Zenon
<1>8. notifier.high <= Notified
  BY <1>2, <1>7 DEF Notified
<1>9. a + 1 > notifier.high /\ a + 1 \in Nat /\ a + 1 # 0
  <2>1. Notified \in Nat
    BY <1>2, Zenon
  <2> QED
    BY <1>6, <1>7, <1>8, <2>1
<1>10. notifier' = [notifier EXCEPT !.high = a + 1]
  BY <1>2, <1>9, Zenon DEF Watermark
<1>11. notifier' \in [high : Nat, slot : Nat] /\ notifier'.high = a + 1 /\ notifier'.slot = notifier.slot
  BY <1>2, <1>9, <1>10, Zenon
<1>12. Notified' = a + 1
  BY <1>9, <1>11, Zenon DEF Notified
<1>13. Announcing'
  BY <1>2, <1>3, <1>4, <1>5, <1>6, <1>9, <1>11, <1>12 DEF Announcing
<1> QED
  BY <1>4, <1>6, <1>9, <1>11, <1>13, Zenon

\* The wake-up is in the channel.
LEMMA WakeAnnounced ==
  ASSUME FollowInv, Wake
  PROVE  /\ Announcing' /\ notifier'.high = notifier.high /\ notifier.high # 0
         /\ notifier'.slot # 0 /\ notifier'.slot = (IF notifier.slot = 0 THEN notifier.high ELSE notifier.slot)
         /\ worker'.step = "ack" /\ worker'.pc = "deliver" /\ worker.pc = "deliver" /\ worker.step = "wake"
<1>1. PICK a \in Nat : InFlight(a)
  BY Zenon DEF FollowInv, WriterInv
<1>2. /\ worker.outbox[1].event = a + 1 /\ a + 1 > Prior /\ Taken > 0 /\ Prior \in Nat
      /\ worker \in Workers /\ worker.pc = "deliver"
      /\ Head(worker.outbox) = worker.outbox[1] /\ notifier \in [high : Nat, slot : Nat]
  BY <1>1, HeadOfOutbox, Zenon DEF Wake
<1>3. Announcing /\ UNCHANGED stream /\ worker.step = "wake"
  BY Zenon DEF FollowInv, Wake
<1>4. /\ worker'.outbox = worker.outbox /\ worker'.step = "ack" /\ worker'.stopped = worker.stopped
      /\ worker'.previous = worker.previous /\ worker'.pc = "deliver"
  BY <1>2, Zenon DEF Wake, Workers
<1>5. Taken' = Taken /\ Logged' = Logged
  BY <1>3, <1>4, Zenon DEF Taken, Logged
<1>6. Notified = a + 1
  BY <1>2, <1>3, Zenon DEF Announcing
<1>7. notifier.high = a + 1 /\ a + 1 # 0 /\ a + 1 \in Nat
  BY <1>2, <1>6 DEF Notified
<1>8. notifier' = [notifier EXCEPT !.slot = IF notifier.slot = 0 THEN a + 1 ELSE notifier.slot]
  BY <1>2, Zenon DEF Wake
<1>9. /\ notifier' \in [high : Nat, slot : Nat] /\ notifier'.high = notifier.high
      /\ notifier'.slot = (IF notifier.slot = 0 THEN a + 1 ELSE notifier.slot)
  BY <1>2, <1>7, <1>8, Zenon
<1>10. Notified' = Notified
  BY <1>9, Zenon DEF Notified
<1>11. Announcing'
  BY <1>3, <1>4, <1>5, <1>9, <1>10, Zenon DEF Announcing
<1> QED
  BY <1>2, <1>3, <1>4, <1>7, <1>9, <1>11, Zenon

-----------------------------------------------------------------------------
(* The follower. *)

\* Nothing the follower sees has changed.
LEMMA FollowedAsBefore ==
  ASSUME Following, UNCHANGED <<notifier, follower>>, worker'.step = "wake" <=> worker.step = "wake",
         worker.pc = "exit" => worker'.pc = "exit", client.pc = "done" => client'.pc = "done"
  PROVE  Following'
<1>1. Notified' = Notified /\ Printeds' = Printeds
  BY Zenon DEF Notified, Printeds
<1>2. (Unwoken => Unwoken') /\ (Unread => Unread') /\ (Reading => Reading')
  BY <1>1, Zenon DEF Unwoken, Unread, Reading
<1> QED
  BY <1>1, <1>2, Zenon DEF Following

\* The worker is running: the command has not ended.
LEMMA NotEnded ==
  ASSUME FollowInv, worker.pc # "exit"
  PROVE  /\ follower.pc \notin {"final", "done"} /\ client.pc # "done"
         /\ follower.first = 0 => follower.pc \notin {"join", "final", "done"}
<1>1. client.pc # "done"
  BY Zenon DEF FollowInv, WriterInv, Telling
<1> QED
  BY <1>1, Zenon DEF FollowInv, Following, Unread

\* The high-watermark moves before its wake-up is sent.
LEMMA WatermarkFollowed == ASSUME FollowInv, Watermark, UNCHANGED follower PROVE Following'
<1>1. /\ notifier.high < notifier'.high /\ notifier'.high = Notified + 1
      /\ notifier'.slot = notifier.slot /\ worker'.step = "wake"
  BY WatermarkAnnounced, Zenon
<1>2. worker.pc # "exit" /\ worker.step # "wake" /\ Following
  BY Zenon DEF Watermark, delivering, FollowInv
<1>3. notifier.high \in Nat /\ notifier'.high \in Nat /\ Prior \in Nat /\ follower.observed \in Nat
  BY WatermarkAnnounced, EventWriterAssumption, Zenon DEF FollowInv, Announcing, Following, Followers
<1>4. notifier'.high # 0 /\ follower.observed <= notifier'.high
  <2>1. follower.observed <= notifier.high
    BY <1>2, Zenon DEF Following
  <2> QED
    BY <1>1, <1>3, <2>1
<1>5. notifier.high = 0 => notifier'.high = Prior + 1
  BY <1>1, Zenon DEF Notified
<1>6. /\ follower.pc \notin {"final", "done"}
      /\ follower.first = 0 => follower.pc \notin {"join", "final", "done"}
  BY <1>2, NotEnded, Zenon
<1>7. Printeds' = Printeds
  BY Zenon DEF Printeds
<1>8. Unwoken => Unwoken'
  BY <1>1, <1>2, <1>5, Zenon DEF Unwoken
<1>9. follower.first = 0 /\ Unread => Unread'
  BY <1>6, Zenon DEF Unread
<1>10. Reading => Reading'
  BY <1>7, Zenon DEF Reading
<1> QED
  BY <1>1, <1>2, <1>4, <1>6, <1>7, <1>8, <1>9, <1>10, Zenon DEF Following

\* The first wake-up is for the first new line.
LEMMA WakeFollowed == ASSUME FollowInv, Wake, UNCHANGED follower PROVE Following'
<1>1. /\ notifier'.high = notifier.high /\ notifier.high # 0 /\ notifier'.slot # 0
      /\ notifier'.slot = (IF notifier.slot = 0 THEN notifier.high ELSE notifier.slot)
      /\ worker.pc = "deliver"
  BY WakeAnnounced, Zenon
<1>2. Following
  BY Zenon DEF FollowInv
<1>3. /\ follower.pc \notin {"final", "done"}
      /\ follower.first = 0 => follower.pc \notin {"join", "final", "done"}
  BY <1>1, NotEnded, Zenon
<1>4. Printeds' = Printeds
  BY Zenon DEF Printeds
<1>5. Unwoken => Unwoken'
  BY <1>1, Zenon DEF Unwoken
<1>6. follower.first = 0 /\ Unread => Unread'
  BY <1>3, Zenon DEF Unread
<1>7. Reading => Reading'
  BY <1>4, Zenon DEF Reading
<1> QED
  BY <1>1, <1>2, <1>3, <1>4, <1>5, <1>6, <1>7, Zenon DEF Following

\* The writer's steps.
LEMMA WriterFollowed == ASSUME FollowInv, WriterNext, UNCHANGED follower PROVE Announcing' /\ Following'
<1>1. Following /\ Announcing /\ worker \in Workers /\ stream \in Streams /\ notifier \in [high : Nat, slot : Nat]
  BY Zenon DEF FollowInv, WriterInv, Types, Announcing
<1>2. CASE Client
  <2>1. UNCHANGED <<worker, stream, notifier>> /\ client.pc # "done"
    BY <1>2, Zenon DEF Client, ClientProgress, Commit, Finish, Send, TakeResponse, Drained, SendShutdown, Joined, clientOnly
  <2> QED
    BY <1>1, <2>1, AnnouncedAsBefore, FollowedAsBefore, Zenon
<1>3. CASE BatchDue \/ Tick \/ Receive \/ Delivered \/ ShutDown
  <2>1. UNCHANGED <<client, notifier>> /\ worker.pc # "exit"
    BY <1>3, Zenon DEF BatchDue, Tick, Receive, Delivered, ShutDown
  <2>2. stream'.log = stream.log
    BY <1>1, <1>3, Zenon DEF BatchDue, Tick, Receive, Delivered, ShutDown, Synced, Streams
  <2>3. /\ worker'.outbox = worker.outbox /\ worker'.stopped = worker.stopped /\ worker'.step = worker.step
        /\ worker'.previous = worker.previous
    <3>1. CASE BatchDue \/ Tick \/ ShutDown
      BY <1>1, <3>1, ZenonT(60) DEF BatchDue, Tick, ShutDown, Workers
    <3>2. CASE Receive
      BY <1>1, <3>2, Zenon DEF Receive, Workers
    <3>3. CASE Delivered
      BY <1>1, <3>3, Zenon DEF Delivered, Resumed, Workers
    <3> QED
      BY <1>3, <3>1, <3>2, <3>3, Zenon
  <2> QED
    BY <1>1, <2>1, <2>2, <2>3, AnnouncedAsBefore, FollowedAsBefore, Zenon
<1>4. CASE CommitBatch \/ CommitEvent
  <2>1. Announcing' /\ UNCHANGED <<client, notifier>> /\ worker.pc # "exit"
    BY <1>4, BatchAnnounced, EventAnnounced, Zenon DEF CommitBatch, CommitEvent
  <2>2. worker'.step = worker.step
    <3>1. CASE CommitBatch
      BY <1>1, <3>1, ZenonT(60) DEF CommitBatch, Resumed, Workers
    <3>2. CASE CommitEvent
      BY <1>1, <3>2, ZenonT(60) DEF CommitEvent, ContextFails, AppendEvent, Workers
    <3> QED
      BY <1>4, <3>1, <3>2, Zenon
  <2> QED
    BY <1>1, <2>1, <2>2, FollowedAsBefore, Zenon
<1>5. CASE Watermark
  BY <1>5, WatermarkAnnounced, WatermarkFollowed, Zenon
<1>6. CASE Wake
  BY <1>6, WakeAnnounced, WakeFollowed, Zenon
<1>7. CASE Acknowledge
  <2>1. Announcing' /\ UNCHANGED <<client, notifier>> /\ worker.pc # "exit"
    BY <1>7, AnswerAnnounced, Zenon DEF Acknowledge, delivering
  <2>2. worker'.step = "watermark"
    BY <1>1, <1>7, Zenon DEF Acknowledge, Workers
  <2>3. worker.step # "wake"
    <3>1. Head(worker.outbox) = worker.outbox[1]
      BY <1>1, <1>7 DEF Acknowledge, delivering, Workers
    <3> QED
      BY <1>1, <1>7, <3>1, Zenon DEF Acknowledge, Announcing
  <2> QED
    BY <1>1, <2>1, <2>2, <2>3, FollowedAsBefore, Zenon
<1> QED
  BY <1>2, <1>3, <1>4, <1>5, <1>6, <1>7, Zenon DEF WriterNext, Worker

\* Printing n more numbers after the first m of the lines printed.
LEMMA MoreOutput ==
  ASSUME NEW s \in Seq(Nat), NEW from \in Nat, NEW n \in Nat, Prior \in Nat,
         n > 0 => from = Prior + Len(s), \A i \in 1..Len(s) : s[i] = Prior + i
  PROVE  LET t == s \o [i \in 1..n |-> from + i]
         IN  t \in Seq(Nat) /\ Len(t) = Len(s) + n /\ \A i \in 1..Len(s) + n : t[i] = Prior + i
<1> DEFINE u == [i \in 1..n |-> from + i]
<1>1. u \in Seq(Nat) /\ Len(u) = n /\ \A i \in 1..n : u[i] = from + i
  OBVIOUS
<1> HIDE DEF u
<1>2. /\ s \o u \in Seq(Nat) /\ Len(s \o u) = Len(s) + Len(u) /\ Len(s) \in Nat
      /\ \A i \in 1..Len(s) : (s \o u)[i] = s[i]
      /\ \A i \in 1..Len(u) : (s \o u)[Len(s) + i] = u[i]
  <2>1. u \in Seq(Nat)
    BY <1>1, Zenon
  <2> QED
    BY <2>1
<1>3. ASSUME NEW i \in 1..Len(s) + n PROVE (s \o u)[i] = Prior + i
  <2>1. CASE i \in 1..Len(s)
    BY <1>2, <2>1, Zenon
  <2>2. CASE i \notin 1..Len(s)
    <3>1. i - Len(s) \in 1..n /\ Len(s) + (i - Len(s)) = i /\ n > 0
      BY <1>2, <2>2
    <3>2. (s \o u)[i] = from + (i - Len(s))
      BY <1>1, <1>2, <3>1, Zenon
    <3> QED
      BY <1>2, <3>1, <3>2
  <2> QED
    BY <2>1, <2>2, Zenon
<1>4. s \o u \in Seq(Nat) /\ Len(s \o u) = Len(s) + n /\ \A i \in 1..Len(s) + n : (s \o u)[i] = Prior + i
  BY <1>1, <1>2, <1>3, SMTT(60)
<1> QED
  BY <1>4, Zenon DEF u

\* Whether an output went as far as it should, and where the cursor is then.
LEMMA Cursor ==
  ASSUME NEW from \in Nat, NEW through \in Nat, NEW printed \in Nat, NEW failed \in BOOLEAN,
         NEW length \in Nat, NEW open \in BOOLEAN, Prior \in Nat, from + printed <= through,
         failed => from + printed < through, Prior + length <= from,
         open => from = Prior + length, ~open => printed = 0
  PROVE  LET cursor == IF failed THEN from + printed ELSE IF through > from THEN through ELSE from
             left == open /\ printed = through - from
         IN  /\ cursor \in Nat /\ cursor <= through /\ cursor >= from /\ (~failed => cursor = through)
             /\ Prior + (length + printed) <= cursor
             /\ left => Prior + (length + printed) = cursor
             /\ left <=> open /\ from + printed = through
  OBVIOUS

\* From where, up to where and how much the follower may print.
CanPrint(from, through, printed, failed) ==
  /\ from \in Nat /\ through \in Nat /\ printed \in Nat /\ failed \in BOOLEAN
  /\ from + printed <= through /\ (failed => from + printed < through)
  /\ Prior + Printeds <= from /\ (follower.open => from = Prior + Printeds)
  /\ ~follower.open => printed = 0

\* The follower when it has.
HasPrinted(f, from, through, printed, failed) ==
  /\ f \in Followers /\ f.pc = follower.pc /\ f.wake = follower.wake /\ f.high = follower.high
  /\ f.observed = follower.observed
  /\ f.first = (IF follower.first = 0 THEN follower.wake ELSE follower.first)
  /\ f.error = failed /\ (f.open <=> follower.open /\ from + printed = through)
  /\ f.cursor <= through /\ f.cursor >= from /\ (~failed => f.cursor = through)
  /\ Prior + Len(f.output) <= f.cursor /\ (f.open => Prior + Len(f.output) = f.cursor)
  /\ \A i \in 1..Len(f.output) : f.output[i] = Prior + i

\* Printed: what is printed stays in order and up to the cursor.
LEMMA PrintsMore ==
  ASSUME Following, Prior \in Nat, NEW from, NEW through, NEW printed, NEW failed,
         CanPrint(from, through, printed, failed), NEW f, f = Printed(from, through, printed, failed)
  PROVE  HasPrinted(f, from, through, printed, failed)
<1>0. /\ from \in Nat /\ through \in Nat /\ printed \in Nat /\ failed \in BOOLEAN
      /\ from + printed <= through /\ (failed => from + printed < through)
      /\ Prior + Printeds <= from /\ (follower.open => from = Prior + Printeds)
      /\ ~follower.open => printed = 0
  BY Zenon DEF CanPrint
<1>1. /\ follower \in Followers /\ follower.output \in Seq(Nat) /\ follower.open \in BOOLEAN
      /\ Printeds = Len(follower.output) /\ Printeds \in Nat /\ \A i \in 1..Printeds : follower.output[i] = Prior + i
  BY DEF Following, Followers, Printeds
<1> DEFINE output == follower.output \o [i \in 1..printed |-> from + i]
<1> DEFINE cursor == IF failed THEN from + printed ELSE IF through > from THEN through ELSE from
<1> DEFINE left == follower.open /\ printed = through - from
<1> DEFINE first == IF follower.first = 0 THEN follower.wake ELSE follower.first
<1>2. output \in Seq(Nat) /\ Len(output) = Printeds + printed /\ \A i \in 1..Printeds + printed : output[i] = Prior + i
  <2>1. printed > 0 => from = Prior + Len(follower.output)
    BY <1>0, <1>1
  <2> QED
    BY <1>0, <1>1, <2>1, MoreOutput, ZenonT(60)
<1>3. /\ cursor \in Nat /\ cursor <= through /\ cursor >= from /\ (~failed => cursor = through)
      /\ Prior + (Printeds + printed) <= cursor
      /\ left => Prior + (Printeds + printed) = cursor
      /\ left <=> follower.open /\ from + printed = through
  BY <1>0, <1>1, Cursor, SMTT(60)
<1>4. left \in BOOLEAN /\ first \in Nat
  BY <1>1, Zenon DEF Followers
<1>5. f = [follower EXCEPT !.output = output, !.cursor = cursor, !.first = first, !.open = left, !.error = failed]
  BY Zenon DEF Printed
<1> HIDE DEF output, cursor, left
<1>6. /\ f \in Followers /\ f.pc = follower.pc /\ f.wake = follower.wake /\ f.high = follower.high
      /\ f.observed = follower.observed /\ f.first = first /\ f.error = failed /\ f.open = left
      /\ f.cursor = cursor /\ f.output = output
  BY <1>0, <1>1, <1>2, <1>3, <1>4, <1>5, Zenon DEF Followers
<1> QED
  BY <1>2, <1>3, <1>6, Zenon DEF HasPrinted

\* The two components of a pair.
LEMMA PairOf == ASSUME NEW A, NEW B, NEW p \in A \X B PROVE p[1] \in A /\ p[2] \in B
  BY Zenon

\* What can be printed of the lines up to `through`.
LEMMA PrintsOf ==
  ASSUME NEW from \in Nat, NEW through \in Nat, from <= through, NEW p \in Prints(from, through),
         follower.open \in BOOLEAN
  PROVE  /\ p[1] \in Nat /\ p[2] \in BOOLEAN /\ from + p[1] <= through
         /\ p[2] => from + p[1] < through
         /\ ~follower.open => p[1] = 0
         /\ p[1] < through - from <=> from + p[1] < through
<1> DEFINE new == IF through > from THEN through - from ELSE 0
<1>1. new \in Nat /\ from + new = through
  OBVIOUS
<1>2. p \in IF ~follower.open THEN {<<0, FALSE>>} ELSE {<<new, FALSE>>} \cup (0..new - 1) \X {FALSE, TRUE}
  BY Zenon DEF Prints
<1> HIDE DEF new
<1>3. /\ p[1] \in Nat /\ p[2] \in BOOLEAN /\ p[1] <= new /\ (p[2] => p[1] < new) /\ (~follower.open => p[1] = 0)
  <2>1. CASE p \in (0..new - 1) \X {FALSE, TRUE} /\ follower.open
    <3>1. p[1] \in 0..new - 1 /\ p[2] \in {FALSE, TRUE}
      BY <2>1, PairOf, Zenon
    <3>2. p[2] \in BOOLEAN
      BY <3>1, Zenon
    <3>3. p[1] \in Nat /\ p[1] < new /\ p[1] <= new
      BY <1>1, <3>1
    <3> QED
      BY <2>1, <3>2, <3>3, Zenon
  <2>2. CASE p = <<new, FALSE>> /\ follower.open
    <3>1. p[1] = new /\ p[2] = FALSE
      BY <2>2, Zenon
    <3> QED
      BY <1>1, <2>2, <3>1
  <2>3. CASE p = <<0, FALSE>> /\ ~follower.open
    <3>1. p[1] = 0 /\ p[2] = FALSE
      BY <2>3, Zenon
    <3> QED
      BY <1>1, <2>3, <3>1
  <2> QED
    BY <1>2, <2>1, <2>2, <2>3, Zenon
<1> QED
  BY <1>1, <1>3

\* What the follower knows.
LEMMA FollowerNumbers ==
  ASSUME FollowInv
  PROVE  /\ follower \in Followers /\ notifier \in [high : Nat, slot : Nat] /\ Prior \in Nat
         /\ follower.wake \in Nat /\ follower.high \in Nat /\ follower.observed \in Nat /\ follower.first \in Nat
         /\ follower.cursor \in Nat /\ follower.output \in Seq(Nat) /\ Printeds \in Nat
         /\ follower.open \in BOOLEAN /\ follower.error \in BOOLEAN
         /\ notifier.high \in Nat /\ notifier.slot \in Nat /\ (notifier.high # 0 => notifier.high > Prior)
         /\ follower.first = 0 => follower.output = <<>> /\ Printeds = 0
<1>1. follower \in Followers /\ notifier \in [high : Nat, slot : Nat] /\ (notifier.high # 0 => notifier.high > Prior)
  BY Zenon DEF FollowInv, Following, Announcing
<1>2. /\ follower.wake \in Nat /\ follower.high \in Nat /\ follower.observed \in Nat /\ follower.first \in Nat
      /\ follower.cursor \in Nat /\ follower.output \in Seq(Nat)
      /\ follower.open \in BOOLEAN /\ follower.error \in BOOLEAN
  BY <1>1, Zenon DEF Followers
<1>3. follower.first = 0 => follower.output = <<>> /\ Printeds = 0
  BY Zenon DEF FollowInv, Following, Unread, Printeds
<1> QED
  BY <1>1, <1>2, <1>3, EventWriterAssumption DEF Printeds

\* recv: the first wake-up taken is for the first new line.
LEMMA ReceivesFollowed == ASSUME FollowInv, Receives PROVE Announcing' /\ Following'
<1>1. /\ follower.pc = "recv" /\ notifier.slot # 0 /\ UNCHANGED <<client, worker, stream>>
      /\ follower' = [follower EXCEPT !.pc = "load", !.wake = notifier.slot]
      /\ notifier' = [notifier EXCEPT !.slot = 0]
  BY Zenon DEF Receives
<1>2. follower \in Followers /\ notifier \in [high : Nat, slot : Nat] /\ notifier.slot \in Nat /\ Following /\ Announcing
  BY FollowerNumbers, Zenon DEF FollowInv
<1>3. notifier' \in [high : Nat, slot : Nat] /\ notifier'.high = notifier.high /\ notifier'.slot = 0
  BY <1>1, <1>2, Zenon
<1>4. /\ follower' \in Followers /\ follower'.pc = "load" /\ follower'.wake = notifier.slot
      /\ follower'.high = follower.high /\ follower'.observed = follower.observed /\ follower'.first = follower.first
      /\ follower'.cursor = follower.cursor /\ follower'.output = follower.output /\ follower'.open = follower.open
      /\ follower'.error = follower.error
  BY <1>1, <1>2, Zenon DEF Followers
<1>5. Announcing' /\ Notified' = Notified /\ Printeds' = Printeds
  BY <1>1, <1>2, <1>3, <1>4, AnnouncedAsBefore, Zenon DEF Printeds
<1>6. follower.first = 0 => notifier.slot = Prior + 1
  BY <1>1, <1>2, Zenon DEF Following, Unread, Unwoken
<1>7. follower.first = 0 /\ Unread => Unread'
  BY <1>4, <1>6, Zenon DEF Unread
<1>8. Reading => Reading'
  BY <1>1, <1>4, <1>5, Zenon DEF Reading
<1>9. follower.open /\ ~follower.error
  BY <1>1, <1>2, Zenon DEF Following
<1> QED
  BY <1>1, <1>2, <1>3, <1>4, <1>5, <1>7, <1>8, <1>9, Zenon DEF Following

\* recv: the high-watermark is read after the wake-up was taken.
LEMMA LoadsFollowed == ASSUME FollowInv, Loads PROVE Announcing' /\ Following'
<1> DEFINE observed == IF notifier.high > follower.observed THEN notifier.high ELSE follower.observed
<1>1. /\ follower.pc = "load" /\ UNCHANGED <<client, worker, stream, notifier>>
      /\ follower' = [follower EXCEPT !.pc = "read", !.high = notifier.high, !.observed = observed]
  BY FollowerNumbers, Zenon DEF Loads, writer, Followers
<1>2. /\ follower \in Followers /\ notifier \in [high : Nat, slot : Nat] /\ Following /\ Announcing
      /\ notifier.high \in Nat /\ follower.observed \in Nat /\ follower.cursor \in Nat /\ Prior \in Nat
      /\ (notifier.high # 0 => notifier.high > Prior)
  BY FollowerNumbers, Zenon DEF FollowInv
<1>3. follower.observed <= notifier.high
  BY <1>2, Zenon DEF Following
<1>4. observed = notifier.high
  BY <1>2, <1>3
<1> HIDE DEF observed
<1>5. /\ follower' \in Followers /\ follower'.pc = "read" /\ follower'.wake = follower.wake
      /\ follower'.high = notifier.high /\ follower'.observed = notifier.high /\ follower'.first = follower.first
      /\ follower'.cursor = follower.cursor /\ follower'.output = follower.output /\ follower'.open = follower.open
      /\ follower'.error = follower.error
  BY <1>1, <1>2, <1>4, Zenon DEF Followers
<1>6. Announcing' /\ Notified' = Notified /\ Printeds' = Printeds
  BY <1>1, <1>2, <1>5, AnnouncedAsBefore, Zenon DEF Printeds
<1>7. follower.wake # 0 /\ notifier.high # 0 /\ notifier.high > Prior
  BY <1>1, <1>2, Zenon DEF Following, Unwoken
<1>8. follower.cursor <= notifier.high
  <2>1. CASE follower.first = 0
    <3>1. follower.cursor = 0
      BY <1>2, <2>1, Zenon DEF Following, Unread
    <3> QED
      BY <1>2, <3>1
  <2>2. CASE follower.first # 0
    <3>1. follower.cursor <= follower.observed
      BY <1>2, <2>2, Zenon DEF Following, Reading
    <3> QED
      BY <1>2, <1>3, <3>1
  <2> QED
    BY <2>1, <2>2, Zenon
<1>9. follower.first = 0 /\ Unread => Unread'
  BY <1>1, <1>5, Zenon DEF Unread
<1>10. Reading => Reading'
  BY <1>5, <1>6, <1>8, Zenon DEF Reading
<1>11. notifier.high >= follower.cursor /\ notifier.high <= notifier.high
  BY <1>2, <1>8
<1>12. follower.open /\ ~follower.error
  BY <1>1, <1>2, Zenon DEF Following
<1> QED
  BY <1>1, <1>2, <1>5, <1>6, <1>7, <1>9, <1>10, <1>11, <1>12, Zenon DEF Following

\* A closed channel holds no wake-up that was not taken.
LEMMA ClosedFollowed == ASSUME FollowInv, Closed PROVE Announcing' /\ Following'
<1>1. /\ follower.pc = "recv" /\ notifier.slot = 0 /\ worker.pc = "exit" /\ UNCHANGED <<client, worker, stream, notifier>>
      /\ follower' = [follower EXCEPT !.pc = "join"]
  BY Zenon DEF Closed, writer
<1>2. follower \in Followers /\ notifier \in [high : Nat, slot : Nat] /\ Following /\ Announcing /\ WriterInv
  BY FollowerNumbers, Zenon DEF FollowInv
<1>3. /\ follower' \in Followers /\ follower'.pc = "join" /\ follower'.wake = follower.wake
      /\ follower'.high = follower.high /\ follower'.observed = follower.observed /\ follower'.first = follower.first
      /\ follower'.cursor = follower.cursor /\ follower'.output = follower.output /\ follower'.open = follower.open
      /\ follower'.error = follower.error
  BY <1>1, <1>2, Zenon DEF Followers
<1>4. Announcing' /\ Notified' = Notified /\ Printeds' = Printeds
  BY <1>1, <1>2, <1>3, AnnouncedAsBefore, Zenon DEF Printeds
<1>5. worker.step = "watermark"
  <2>1. Taken = 0
    BY <1>1, <1>2 DEF WriterInv, Places, Taken
  <2> QED
    BY <1>2, <2>1 DEF Announcing
<1>6. follower.first = 0 => notifier.high = 0 /\ follower.wake = 0
  BY <1>1, <1>2, <1>5, Zenon DEF Following, Unread, Unwoken
<1>7. follower.first = 0 /\ Unread => Unread'
  BY <1>1, <1>3, <1>6, Zenon DEF Unread
<1>8. Reading => Reading'
  BY <1>3, <1>4, Zenon DEF Reading
<1>9. Unwoken => Unwoken'
  BY <1>1, <1>3, Zenon DEF Unwoken
<1> QED
  BY <1>1, <1>2, <1>3, <1>4, <1>7, <1>8, <1>9, Zenon DEF Following

\* join: the last high-watermark is final.
LEMMA JoinsFollowed == ASSUME FollowInv, Joins PROVE Announcing' /\ Following'
<1> DEFINE observed == IF notifier.high > follower.observed THEN notifier.high ELSE follower.observed
<1>1. /\ follower.pc = "join" /\ client.pc = "done" /\ UNCHANGED <<client, worker, stream, notifier>>
      /\ follower' = [follower EXCEPT !.pc = "final", !.observed = observed]
  BY FollowerNumbers, Zenon DEF Joins, writer, operation_ended, Followers
<1>2. /\ follower \in Followers /\ notifier \in [high : Nat, slot : Nat] /\ Following /\ Announcing
      /\ notifier.high \in Nat /\ follower.observed \in Nat /\ follower.cursor \in Nat
  BY FollowerNumbers, Zenon DEF FollowInv
<1>3. follower.observed <= notifier.high
  BY <1>2, Zenon DEF Following
<1>4. observed = notifier.high
  BY <1>2, <1>3
<1> HIDE DEF observed
<1>5. /\ follower' \in Followers /\ follower'.pc = "final" /\ follower'.wake = follower.wake
      /\ follower'.high = follower.high /\ follower'.observed = notifier.high /\ follower'.first = follower.first
      /\ follower'.cursor = follower.cursor /\ follower'.output = follower.output /\ follower'.open = follower.open
      /\ follower'.error = follower.error
  BY <1>1, <1>2, <1>4, Zenon DEF Followers
<1>6. Announcing' /\ Notified' = Notified /\ Printeds' = Printeds
  BY <1>1, <1>2, <1>5, AnnouncedAsBefore, Zenon DEF Printeds
<1>7. Unread => Unread'
  BY <1>1, <1>5, Zenon DEF Unread
<1>8. Reading => Reading'
  <2>1. follower.cursor <= follower.observed => follower.cursor <= notifier.high
    BY <1>2, <1>3
  <2> QED
    BY <1>5, <1>6, <2>1, Zenon DEF Reading
<1>9. Unwoken => Unwoken'
  BY <1>1, <1>5, Zenon DEF Unwoken
<1>10. notifier.high <= notifier.high
  BY <1>2
<1> QED
  BY <1>1, <1>2, <1>5, <1>6, <1>7, <1>8, <1>9, <1>10, Zenon DEF Following

\* A read starts where the output ends.
LEMMA StartOfRead ==
  ASSUME FollowInv, follower.pc = "read"
  PROVE  /\ start \in Nat /\ start >= Prior /\ start = Prior + Printeds /\ start <= follower.high
         /\ follower.open /\ ~follower.error /\ follower.wake # 0 /\ notifier.high # 0
         /\ (IF follower.first = 0 THEN follower.wake ELSE follower.first) = Prior + 1
<1>1. /\ Prior \in Nat /\ follower.cursor \in Nat /\ follower.high \in Nat /\ Printeds \in Nat
      /\ follower.first = 0 => Printeds = 0
  BY FollowerNumbers, Zenon
<1>2. Following
  BY Zenon DEF FollowInv
<1>3. follower.open /\ ~follower.error /\ follower.wake # 0 /\ notifier.high # 0
  BY <1>2, Zenon DEF Following, Unwoken
<1>4. (IF follower.first = 0 THEN follower.wake ELSE follower.first) = Prior + 1
  BY <1>2, <1>3, Zenon DEF Following, Unread, Reading
<1>6. start = IF follower.cursor > Prior THEN follower.cursor ELSE Prior
  <2>1. PICK first : first = IF follower.first = 0 THEN follower.wake ELSE follower.first
    BY Zenon
  <2>2. first = Prior + 1
    BY <1>4, <2>1, Zenon
  <2>3. first - 1 = Prior
    BY <1>1, <2>2
  <2> QED
    BY <2>1, <2>3, Zenon DEF start
<1>7. follower.high >= follower.cursor /\ follower.high > Prior
  BY <1>2, Zenon DEF Following
<1>8. Prior + Printeds = IF follower.cursor > Prior THEN follower.cursor ELSE Prior
  <2>1. CASE follower.first = 0
    <3>1. follower.cursor = 0 /\ Printeds = 0
      BY <1>1, <1>2, <2>1, Zenon DEF Following, Unread
    <3> QED
      BY <1>1, <3>1
  <2>2. CASE follower.first # 0
    <3>1. follower.cursor >= Prior /\ Prior + Printeds = follower.cursor
      BY <1>2, <1>3, <2>2, Zenon DEF Following, Reading
    <3> QED
      BY <1>1, <3>1
  <2> QED
    BY <2>1, <2>2, Zenon
<1>9. PICK c \in Nat, h \in Nat : c = follower.cursor /\ h = follower.high
  BY <1>1, Zenon
<1>10. start \in Nat /\ start >= Prior /\ start <= follower.high
  BY <1>1, <1>6, <1>7, <1>9
<1> QED
  BY <1>3, <1>4, <1>6, <1>8, <1>10, Zenon

\* write_new_events: the follower prints on, stops where its output does, and reports a torn line.
LEMMA ReadsFollowed == ASSUME FollowInv, Reads PROVE Announcing' /\ Following'
<1>1. follower.pc = "read" /\ UNCHANGED <<client, worker, stream, notifier>>
  BY Zenon DEF Reads, writer
<1>2. /\ start \in Nat /\ start >= Prior /\ start = Prior + Printeds /\ start <= follower.high
      /\ follower.open /\ ~follower.error /\ follower.wake # 0 /\ notifier.high # 0
      /\ (IF follower.first = 0 THEN follower.wake ELSE follower.first) = Prior + 1
  BY <1>1, StartOfRead, Zenon
<1>3. /\ follower \in Followers /\ notifier \in [high : Nat, slot : Nat] /\ Prior \in Nat
      /\ follower.high \in Nat /\ follower.observed \in Nat /\ Printeds \in Nat /\ Following /\ Announcing
  BY FollowerNumbers, Zenon DEF FollowInv
<1>4. follower.high <= follower.observed
  BY <1>1, <1>3, Zenon DEF Following
<1>5. ASSUME NEW through \in Nat, NEW printed \in Nat, NEW failed \in BOOLEAN, NEW pc \in {"join", "recv"},
             NEW error \in BOOLEAN,
             start + printed <= through, failed => start + printed < through, through <= follower.high,
             follower' = [Printed(start, through, printed, failed) EXCEPT !.pc = pc, !.error = error],
             error \/ start + printed < through => pc = "join",
             pc = "recv" => ~failed /\ through = follower.high
      PROVE  Announcing' /\ Following'
  <2>1. PICK f : f = Printed(start, through, printed, failed)
    BY SMTT(60)
  <2>2. Prior + Printeds <= start
    BY <1>2, <1>3
  <2>3. /\ f \in Followers /\ f.wake = follower.wake /\ f.high = follower.high
        /\ f.observed = follower.observed /\ f.first = Prior + 1
        /\ (f.open <=> start + printed = through)
        /\ f.cursor <= through /\ f.cursor >= start /\ (~failed => f.cursor = through)
        /\ Prior + Len(f.output) <= f.cursor /\ (f.open => Prior + Len(f.output) = f.cursor)
        /\ \A i \in 1..Len(f.output) : f.output[i] = Prior + i
    <3>1. CanPrint(start, through, printed, failed)
      BY <1>2, <1>5, <2>2, Zenon DEF CanPrint
    <3>2. HasPrinted(f, start, through, printed, failed)
      BY <1>3, <2>1, <3>1, PrintsMore, Zenon
    <3> QED
      BY <1>2, <3>2, Zenon DEF HasPrinted
  <2>4. follower' = [f EXCEPT !.pc = pc, !.error = error]
    BY <1>5, <2>1, Zenon
  <2>5. /\ follower' \in Followers /\ follower'.pc = pc /\ follower'.wake = follower.wake
        /\ follower'.observed = follower.observed /\ follower'.first = Prior + 1
        /\ follower'.cursor = f.cursor /\ follower'.output = f.output /\ follower'.open = f.open
        /\ follower'.error = error
    BY <1>5, <2>3, <2>4, Zenon DEF Followers
  <2>6. Announcing' /\ Notified' = Notified /\ Printeds' = Len(f.output)
    BY <1>1, <1>3, <2>5, AnnouncedAsBefore, Zenon DEF Printeds
  <2>7. f.cursor \in Nat
    BY <2>3, Zenon DEF Followers
  <2>8. f.cursor <= follower.observed /\ f.cursor >= Prior /\ Prior + 1 # 0
    BY <1>2, <1>3, <1>4, <1>5, <2>3, <2>7, SMTT(60)
  <2>9. Reading'
    BY <1>2, <2>3, <2>5, <2>6, <2>8, Zenon DEF Reading
  <2>10. start + printed # through => start + printed < through
    BY <1>2, <1>5
  <2>11. ~follower'.open \/ follower'.error => follower'.pc = "join"
    BY <1>5, <2>3, <2>5, <2>10, Zenon
  <2>12. pc = "recv" => follower'.cursor = follower.high
    BY <1>5, <2>3, <2>5, Zenon
  <2>13. notifier.slot = 0 /\ worker.step # "wake" /\ notifier.high # 0 => follower.high = notifier.high
    BY <1>1, <1>3, Zenon DEF Following
  <2>14. follower.observed <= notifier.high
    BY <1>3, Zenon DEF Following
  <2> QED
    BY <1>1, <1>2, <1>5, <2>3, <2>5, <2>6, <2>8, <2>9, <2>11, <2>12, <2>13, <2>14, Zenon DEF Following
<1>6. CASE \E p \in Prints(start, follower.high) :
             follower' = [Printed(start, follower.high, p[1], p[2]) EXCEPT
               !.pc = IF p[2] \/ p[1] < follower.high - start THEN "join" ELSE "recv"]
  <2>1. PICK p \in Prints(start, follower.high) :
             follower' = [Printed(start, follower.high, p[1], p[2]) EXCEPT
               !.pc = IF p[2] \/ p[1] < follower.high - start THEN "join" ELSE "recv"]
    BY <1>6, Zenon
  <2>2. /\ p[1] \in Nat /\ p[2] \in BOOLEAN /\ start + p[1] <= follower.high
        /\ p[2] => start + p[1] < follower.high
        /\ p[1] < follower.high - start <=> start + p[1] < follower.high
    BY <1>2, <1>3, PrintsOf, Zenon
  <2>3. PICK f : f = Printed(start, follower.high, p[1], p[2])
    BY Zenon
  <2>4. f \in Followers /\ f.error = p[2]
    <3>1. Prior + Printeds <= start
      BY <1>2, <1>3
    <3>2. CanPrint(start, follower.high, p[1], p[2])
      BY <1>2, <1>3, <2>2, <3>1, Zenon DEF CanPrint
    <3>3. HasPrinted(f, start, follower.high, p[1], p[2])
      BY <1>3, <2>3, <3>2, PrintsMore, Zenon
    <3> QED
      BY <3>3, Zenon DEF HasPrinted
  <2> DEFINE pc == IF p[2] \/ p[1] < follower.high - start THEN "join" ELSE "recv"
  <2>5. [f EXCEPT !.pc = pc] = [f EXCEPT !.pc = pc, !.error = p[2]]
    BY <2>4, Zenon DEF Followers
  <2>6. /\ pc \in {"join", "recv"} /\ (p[2] \/ start + p[1] < follower.high => pc = "join")
        /\ pc = "recv" => ~p[2]
    BY <2>2, Zenon
  <2>7. follower' = [Printed(start, follower.high, p[1], p[2]) EXCEPT !.pc = pc, !.error = p[2]]
    BY <2>1, <2>3, <2>5, Zenon
  <2>8. follower.high <= follower.high
    BY <1>3
  <2> HIDE DEF pc
  <2> QED
    BY <1>3, <1>5, <2>2, <2>6, <2>7, <2>8, Zenon
<1>7. CASE LET new == IF follower.first = 0 \/ follower.high < start THEN 0 ELSE follower.high - start
           IN  follower' = [Printed(start, start + new, new, FALSE) EXCEPT !.pc = "join", !.error = TRUE]
  <2>1. PICK new \in Nat :
          /\ follower' = [Printed(start, start + new, new, FALSE) EXCEPT !.pc = "join", !.error = TRUE]
          /\ start + new <= follower.high
    <3> DEFINE new == IF follower.first = 0 \/ follower.high < start THEN 0 ELSE follower.high - start
    <3>1. new \in Nat /\ start + new <= follower.high
      BY <1>2, <1>3
    <3>2. follower' = [Printed(start, start + new, new, FALSE) EXCEPT !.pc = "join", !.error = TRUE]
      BY <1>7, Zenon
    <3> HIDE DEF new
    <3> QED
      BY <3>1, <3>2, Zenon
  <2>2. start + new \in Nat /\ start + new <= start + new
    BY <1>2
  <2>3. "join" \in {"join", "recv"} /\ "join" # "recv" /\ TRUE \in BOOLEAN /\ FALSE \in BOOLEAN
    BY Zenon
  <2> QED
    BY <1>5, <2>1, <2>2, <2>3, Zenon
<1> QED
  BY <1>6, <1>7, Zenon DEF Reads

\* write_verified_events: the command has printed all that was announced, unless it says otherwise.
LEMMA FinishesFollowed == ASSUME FollowInv, Finishes PROVE Announcing' /\ Following'
<1>1. follower.pc = "final" /\ UNCHANGED <<client, worker, stream, notifier>>
  BY Zenon DEF Finishes, writer
<1>2. /\ follower \in Followers /\ notifier \in [high : Nat, slot : Nat] /\ Prior \in Nat /\ Following /\ Announcing
      /\ follower.cursor \in Nat /\ follower.observed \in Nat /\ Printeds \in Nat /\ follower.open \in BOOLEAN
  BY FollowerNumbers, Zenon DEF FollowInv
<1>3. client.pc = "done" /\ follower.observed = notifier.high
  BY <1>1, <1>2, Zenon DEF Following
<1>4. ASSUME NEW error \in BOOLEAN, follower' = [follower EXCEPT !.pc = "done", !.error = error],
             error <=> follower.first # 0
      PROVE  Announcing' /\ Following'
  <2>1. /\ follower' \in Followers /\ follower'.pc = "done" /\ follower'.wake = follower.wake
        /\ follower'.observed = follower.observed /\ follower'.first = follower.first
        /\ follower'.cursor = follower.cursor /\ follower'.output = follower.output /\ follower'.open = follower.open
        /\ follower'.error = error
    BY <1>2, <1>4, Zenon DEF Followers
  <2>2. Announcing' /\ Notified' = Notified /\ Printeds' = Printeds
    BY <1>1, <1>2, <2>1, AnnouncedAsBefore, Zenon DEF Printeds
  <2>3. Unwoken => Unwoken'
    BY <1>1, <2>1, Zenon DEF Unwoken
  <2>4. (follower.first = 0 /\ Unread => Unread') /\ (Reading => Reading')
    BY <1>1, <1>4, <2>1, <2>2, Zenon DEF Unread, Reading
  <2>5. follower.first = 0 => Prior + Printeds = Notified
    <3>1. follower.first = 0 => Printeds = 0 /\ notifier.high = 0
      BY <1>1, <1>2, FollowerNumbers, Zenon DEF Following, Unread
    <3> QED
      BY <1>2, <3>1 DEF Notified
  <2> QED
    BY <1>1, <1>2, <1>3, <1>4, <2>1, <2>2, <2>3, <2>4, <2>5, Zenon DEF Following
<1>5. CASE follower.error \/ follower.first = 0
  <2>1. follower' = [follower EXCEPT !.pc = "done"]
    BY <1>5, Zenon DEF Finishes
  <2>2. [follower EXCEPT !.pc = "done"] = [follower EXCEPT !.pc = "done", !.error = follower.error]
    BY <1>2, Zenon DEF Followers
  <2>3. follower.error \in BOOLEAN /\ (follower.error <=> follower.first # 0)
    BY <1>2, <1>5, Zenon DEF Followers, Following, Unread
  <2> QED
    BY <1>4, <2>1, <2>2, <2>3, Zenon
<1>6. CASE ~follower.error /\ follower.first # 0 /\ stream.torn
  BY <1>4, <1>6, Zenon DEF Finishes
<1>7. CASE ~follower.error /\ follower.first # 0 /\ ~stream.torn
  <2>1. PICK p \in Prints(follower.cursor, follower.observed) :
          follower' = [Printed(follower.cursor, follower.observed, p[1], p[2]) EXCEPT !.pc = "done"]
    BY <1>7, SMTT(60) DEF Finishes
  <2>2. /\ follower.first = Prior + 1 /\ follower.wake # 0 /\ follower.cursor >= Prior
        /\ follower.cursor <= follower.observed /\ Prior + Printeds <= follower.cursor
        /\ follower.open => Prior + Printeds = follower.cursor
    BY <1>2, <1>7, Zenon DEF Following, Reading
  <2>3. /\ p[1] \in Nat /\ p[2] \in BOOLEAN /\ follower.cursor + p[1] <= follower.observed
        /\ p[2] => follower.cursor + p[1] < follower.observed
        /\ ~follower.open => p[1] = 0
    BY <1>2, <2>2, PrintsOf, Zenon
  <2>4. PICK f : f = Printed(follower.cursor, follower.observed, p[1], p[2])
    BY Zenon
  <2>5. CanPrint(follower.cursor, follower.observed, p[1], p[2])
    BY <1>2, <2>2, <2>3, Zenon DEF CanPrint
  <2>6. HasPrinted(f, follower.cursor, follower.observed, p[1], p[2])
    BY <1>2, <2>4, <2>5, PrintsMore, Zenon
  <2>7. /\ f \in Followers /\ f.wake = follower.wake /\ f.observed = follower.observed /\ f.first = Prior + 1
        /\ f.error = p[2] /\ f.cursor <= follower.observed /\ f.cursor >= follower.cursor
        /\ ~p[2] => f.cursor = follower.observed
        /\ Prior + Len(f.output) <= f.cursor /\ (f.open => Prior + Len(f.output) = f.cursor)
        /\ \A i \in 1..Len(f.output) : f.output[i] = Prior + i
    BY <1>7, <2>2, <2>6, Zenon DEF HasPrinted
  <2>8. /\ follower' \in Followers /\ follower'.pc = "done" /\ follower'.wake = follower.wake
        /\ follower'.observed = follower.observed /\ follower'.first = Prior + 1
        /\ follower'.cursor = f.cursor /\ follower'.output = f.output /\ follower'.open = f.open
        /\ follower'.error = p[2]
    <3>1. follower' = [f EXCEPT !.pc = "done"]
      BY <2>1, <2>4, Zenon
    <3> QED
      BY <2>7, <3>1, SMTT(60) DEF Followers
  <2>9. Announcing' /\ Notified' = Notified /\ Printeds' = Len(f.output)
    BY <1>1, <1>2, <2>8, AnnouncedAsBefore, Zenon DEF Printeds
  <2>10. f.cursor >= Prior /\ Prior + 1 # 0
    <3>1. f.cursor \in Nat
      BY <2>7, Zenon DEF Followers
    <3> QED
      BY <1>2, <2>2, <2>7, <3>1, SMTT(60)
  <2>11. Reading'
    BY <2>2, <2>7, <2>8, <2>9, <2>10, Zenon DEF Reading
  <2>12. notifier.high # 0
    BY <1>2, <2>2, ZenonT(60) DEF Following
  <2>13. f.open /\ ~p[2] => Prior + Len(f.output) = Notified
    BY <1>3, <2>7, <2>12, Zenon DEF Notified
  <2>14. follower.observed <= notifier.high
    BY <1>2, Zenon DEF Following
  <2> QED
    BY <1>1, <1>3, <2>2, <2>7, <2>8, <2>9, <2>10, <2>11, <2>12, <2>13, <2>14, Zenon DEF Following
<1> QED
  BY <1>5, <1>6, <1>7, Zenon

-----------------------------------------------------------------------------
(* The command line. *)

\* Before the operation has sent an event nothing is announced and nothing is printed.
LEMMA FollowInitially == Init => FollowInv
<1> SUFFICES ASSUME Init PROVE FollowInv
  BY Zenon
<1>1. WriterInv /\ Prior \in Nat
  BY WriterInitially, EventWriterAssumption, Zenon DEF Init
<1>2. notifier = [high |-> 0, slot |-> 0]
  BY Zenon DEF Init, WriterInit
<1>3. /\ worker.step = "watermark" /\ worker.outbox = <<>> /\ worker.previous = Prior /\ ~worker.stopped
      /\ stream.log = [n \in 1..Prior |-> n]
  <2>1. /\ worker = [pc |-> "loop", batch |-> <<>>, outbox |-> <<>>, step |-> "watermark",
                     then |-> Nothing, pending_error |-> FALSE, stopped |-> FALSE,
                     dirty |-> FALSE, previous |-> Prior]
        /\ stream = [log |-> [n \in 1..Prior |-> n], torn |-> FALSE, synced |-> Prior, doubtful |-> FALSE,
                     contexts |-> {}]
    BY Zenon DEF Init, WriterInit
  <2> QED
    BY <2>1, Zenon
<1>4. Taken = 0 /\ Logged = Prior /\ Notified = Prior
  BY <1>1, <1>2, <1>3 DEF Taken, Logged, Notified
<1>5. Announcing
  BY <1>1, <1>2, <1>3, <1>4 DEF Announcing
<1>6. /\ follower \in Followers /\ follower.pc = "recv" /\ follower.wake = 0 /\ follower.observed = 0
      /\ follower.first = 0 /\ follower.cursor = 0 /\ follower.output = <<>> /\ follower.open /\ ~follower.error
  <2>1. follower = [pc |-> "recv", wake |-> 0, high |-> 0, observed |-> 0, first |-> 0, cursor |-> 0,
                    output |-> <<>>, open |-> TRUE, error |-> FALSE]
    BY Zenon DEF Init
  <2> QED
    BY <2>1 DEF Followers
<1>7. Following
  BY <1>1, <1>2, <1>6 DEF Following, Unwoken, Unread, Printeds
<1> QED
  BY <1>1, <1>5, <1>7, Zenon DEF FollowInv

\* Every step of the operation, of the worker and of the follower preserves the invariant.
LEMMA FollowStep == FollowInv /\ [Next]_vars => FollowInv'
<1> SUFFICES ASSUME FollowInv, [Next]_vars PROVE FollowInv'
  BY Zenon
<1>1. CASE WriterNext /\ UNCHANGED follower
  <2>1. WriterInv'
    BY <1>1, WriterStep, Zenon DEF FollowInv
  <2> QED
    BY <1>1, <2>1, WriterFollowed, Zenon DEF FollowInv
<1>2. CASE Follower
  <2>1. UNCHANGED <<kinds, client, queue, response, worker, stream, faults>>
    BY <1>2, Zenon DEF Follower, Receives, Loads, Closed, Reads, Joins, Finishes, writer
  <2>2. WriterInv'
    BY <2>1, UntouchedKeeps, Zenon DEF FollowInv
  <2>3. Announcing' /\ Following'
    BY <1>2, ReceivesFollowed, LoadsFollowed, ClosedFollowed, ReadsFollowed, JoinsFollowed, FinishesFollowed, Zenon DEF Follower
  <2> QED
    BY <2>2, <2>3, Zenon DEF FollowInv
<1>3. CASE UNCHANGED vars
  <2>1. UNCHANGED <<kinds, client, queue, response, worker, stream, faults>> /\ UNCHANGED <<notifier, follower>>
    BY <1>3, Zenon DEF vars, writer
  <2>2. WriterInv'
    BY <2>1, UntouchedKeeps, Zenon DEF FollowInv
  <2>3. Announcing' /\ Following'
    BY <2>1, AnnouncedAsBefore, FollowedAsBefore, ZenonT(60) DEF FollowInv, Announcing
  <2> QED
    BY <2>2, <2>3, Zenon DEF FollowInv
<1> QED
  BY <1>1, <1>2, <1>3, Zenon DEF Next

\* The invariant of the writer, of the notifier and of the follower holds throughout.
THEOREM Invariance == Spec => []FollowInv
  BY FollowInitially, FollowStep, PTL DEF Spec

\* The log is the sequence of events as they were sent, without a gap, a repetition or a swap, and
\* an event with a context manifest is there only after its manifest, whatever append or sync failed
\* (commit_batch, commit_semantic, the stopped flag of the serial writer).
THEOREM LogInOrderTheorem == Spec => []LogInOrder
<1>1. FollowInv => LogInOrder
  BY InOrder, Zenon DEF FollowInv
<1> QED
  BY <1>1, Invariance, PTL

\* What the writer answered is so: an acknowledged event is in the log, a checkpoint on disk, a failed
\* file operation is told by the end, and a writer that finished without an error has everything on
\* disk (commit_semantic, pending_error, finish and shutdown of the serial writer).
THEOREM DurabilityTheorem == Spec => []DurabilityTold
<1>1. FollowInv => DurabilityTold
  BY Durable, Zenon DEF FollowInv
<1> QED
  BY <1>1, Invariance, PTL

\* The command line prints the committed log from the first new event on, once and in order, misses no
\* wake-up, and ends without an error and with its output open only when it has printed every event the
\* writer announced (try_notify_run, write_new_events, write_verified_events).
THEOREM OutputTheorem == Spec => []OutputFollowsLog
<1>1. FollowInv => OutputFollowsLog
  <2> SUFFICES ASSUME FollowInv PROVE OutputFollowsLog
    BY Zenon
  <2>1. WriterInv /\ Announcing /\ Following
    BY Zenon DEF FollowInv
  <2>2. /\ Prior \in Nat /\ follower.cursor \in Nat /\ follower.observed \in Nat /\ Printeds \in Nat
        /\ notifier.high \in Nat
        /\ follower.first = 0 => Printeds = 0
    BY FollowerNumbers, Zenon
  <2>3. Logged \in Nat /\ Logged >= Prior /\ Notified <= Logged
    BY <2>1, SMTT(60) DEF WriterInv, Types, Streams, LogKept, Announcing, Logged
  <2>4. PrintedInOrder
    <3>1. DOMAIN follower.output = 1..Printeds /\ \A i \in 1..Printeds : follower.output[i] = Prior + i
      BY <2>1 DEF Following, Followers, Printeds
    <3>2. Prior + Printeds <= Logged
      <4>1. CASE follower.first = 0
        BY <2>2, <2>3, <4>1
      <4>2. CASE follower.first # 0
        <5>1. /\ Prior + Printeds <= follower.cursor /\ follower.cursor <= follower.observed
              /\ follower.observed <= notifier.high /\ notifier.high # 0
          BY <2>1, <4>2, Zenon DEF Following, Reading
        <5>2. notifier.high <= Logged
          BY <2>3, <5>1, Zenon DEF Notified
        <5> QED
          BY <2>2, <2>3, <5>1, <5>2
      <4> QED
        BY <4>1, <4>2, Zenon
    <3> QED
      BY <3>1, <3>2, Zenon DEF PrintedInOrder, Printeds, Logged
  <2>5. NoLostWakeup
    BY <2>1, Zenon DEF NoLostWakeup, Following
  <2>6. CompleteOutput
    <3>1. SUFFICES ASSUME follower.pc = "done", follower.open, ~follower.error
                   PROVE  /\ Printeds = (IF notifier.high = 0 THEN 0 ELSE notifier.high - Prior)
                          /\ ~client.told => Prior + Printeds = Len(kinds)
      BY Zenon DEF CompleteOutput, Printeds
    <3>2. Prior + Printeds = Notified /\ client.pc = "done"
      BY <2>1, <3>1, Zenon DEF Following
    <3>3. Printeds = (IF notifier.high = 0 THEN 0 ELSE notifier.high - Prior)
      BY <2>2, <3>2 DEF Notified
    <3>4. ~client.told => Notified = Len(kinds)
      BY <2>1, <3>2, CleanFinish, Zenon DEF Announcing
    <3> QED
      BY <3>2, <3>3, <3>4, Zenon
  <2> QED
    BY <2>4, <2>5, <2>6, Zenon DEF OutputFollowsLog
<1> QED
  BY <1>1, Invariance, PTL
=============================================================================

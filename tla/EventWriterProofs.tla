-------------------------- MODULE EventWriterProofs --------------------------
(***************************************************************************)
(* Whatever fails and however long the Run is, the event log is in order   *)
(* and what the writer answered is so: for any capacity of the queue and   *)
(* of the batch, and any number of events and of failing file operations.  *)
(* One inductive invariant follows every event from the client through the *)
(* queue, the batch and the outbox to its answer and back to the client.   *)
(***************************************************************************)
EXTENDS EventWriter, SequenceTheorems, TLAPS

\* How many events the client has sent; the one it is about to send is not counted.
Sent == IF client.pc \in {"drain", "send"} THEN Len(kinds) - 1 ELSE Len(kinds)

\* Where an event is between the client and its answer: in the queue, received, in the batch, in the outbox.
Queued == IF queue # <<>> /\ queue[Len(queue)] = Shutdown THEN Len(queue) - 1 ELSE Len(queue)
Received == IF worker.then \in Events THEN 1 ELSE 0
Taken == Len(worker.outbox)
Held == Len(worker.batch)
Batched == Taken + Held
Waiting == Len(client.deferred)
Logged == Len(stream.log)

Answers == [event : Events, appended : BOOLEAN, failed : BOOLEAN]

Clients ==
  [pc : {"ready", "drain", "send", "await", "shutdown", "collect", "done"},
   deferred : Seq(Events), failed : BOOLEAN, told : BOOLEAN]
Workers ==
  [pc : {"loop", "batch", "deliver", "commit", "shutdown", "exit"}, batch : Seq(Events), outbox : Seq(Answers),
   step : {"watermark", "wake", "ack"}, then : Events \cup {Shutdown, Nothing}, pending_error : BOOLEAN,
   stopped : BOOLEAN, dirty : BOOLEAN, previous : Nat]
Streams ==
  [log : Seq(Nat), torn : BOOLEAN, synced : Nat, doubtful : BOOLEAN, contexts : SUBSET Events]

Types ==
  /\ kinds \in Seq({"delta", "context", "plain", "checkpoint"}) /\ Len(kinds) <= MaxEvents
  /\ client \in Clients /\ queue \in Seq(Events \cup {Shutdown})
  /\ response \in [Events \cup {Shutdown} -> Outcomes]
  /\ worker \in Workers /\ stream \in Streams /\ faults \in Nat

\* What the worker holds where it is.
Places ==
  /\ client.pc \in {"drain", "send"} => Len(kinds) > 0
  /\ worker.pc # "deliver" => worker.outbox = <<>>
  /\ worker.pc \notin {"loop", "batch"} => worker.batch = <<>>
  /\ worker.pc = "loop" => worker.then = Nothing
  /\ worker.pc = "commit" => worker.then \in Events
  /\ worker.pc \in {"shutdown", "exit"} => worker.then = Shutdown
  /\ worker.then = Shutdown \/ Queued < Len(queue) => client.pc \in {"collect", "done"}
  /\ client.pc \in {"collect", "done"} => worker.then = Shutdown \/ Queued < Len(queue)
  /\ worker.stopped => worker.batch = <<>>
  /\ worker.pc = "exit" => ~worker.pending_error
  /\ worker.pc # "exit" => response[Shutdown] = "open"

\* The events after the first `a` are on their way, in order: those being answered, those of the batch, the
\* one the worker received, those in the queue.  The client waits for each of them.
Answered(a) == a >= Prior /\ \A e \in Events : response[e] = "open" <=> e > a
Delivering(a) == \A i \in 1..Taken : worker.outbox[i].event = a + i
Batching(a) ==
  \A i \in 1..Held : worker.batch[i] = a + Taken + i /\ kinds[worker.batch[i]] = "delta"
Receiving(a) == worker.then \in Events => worker.then = a + Batched + 1
Queueing(a) ==
  /\ Sent = a + Batched + Received + Queued
  /\ \A i \in 1..Queued : queue[i] = a + Batched + Received + i
Deferring(a) ==
  /\ Waiting <= Sent /\ Sent - Waiting <= a
  /\ \A i \in 1..Waiting : client.deferred[i] = Sent - Waiting + i
Writing(a) ==
  /\ ~worker.stopped => worker.previous = a + Taken
  /\ Logged <= a + Taken

InFlight(a) ==
  /\ Answered(a) /\ Delivering(a) /\ Batching(a) /\ Receiving(a) /\ Queueing(a) /\ Deferring(a) /\ Writing(a)

\* The log, and what the answers given and about to be given say of it.
LogKept ==
  /\ Logged >= Prior
  /\ \A i \in 1..Logged : stream.log[i] = i /\ (kinds[i] = "context" => i \in stream.contexts)
  /\ ~worker.stopped => Logged = worker.previous /\ ~stream.torn
  /\ stream.synced <= Logged
  /\ stream.doubtful => worker.pending_error \/ worker.stopped \/ worker.pc = "exit"

Kept(e) == e <= Logged /\ (kinds[e] = "checkpoint" => stream.synced >= e)

AnswersKept ==
  /\ \A e \in Events : e > Prior /\ response[e] = "ok" => Kept(e)
  /\ \A i \in 1..Taken : ~worker.outbox[i].failed => Kept(worker.outbox[i].event)

\* A failure is on its way to the client or has arrived.
Told ==
  \/ worker.pending_error \/ client.told \/ response[Shutdown] = "failed"
  \/ \E i \in 1..Taken : worker.outbox[i].failed
  \/ \E i \in 1..Waiting : response[client.deferred[i]] = "failed"

Telling ==
  /\ faults > 0 \/ worker.stopped => Told
  /\ worker.pc = "exit" /\ response[Shutdown] = "ok" /\ ~worker.stopped => stream.synced = Logged
  /\ client.pc = "done" =>
       /\ worker.pc = "exit" /\ client.deferred = <<>> /\ response[Shutdown] # "open"
       /\ response[Shutdown] = "failed" => client.told

WriterInv == Types /\ Places /\ (\E a \in Nat : InFlight(a)) /\ LogKept /\ AnswersKept /\ Telling

-----------------------------------------------------------------------------
\* Numbers of the invariant.
Counts(a) ==
  /\ Sent \in Nat /\ Queued \in Nat /\ Received \in Nat /\ Taken \in Nat /\ Batched \in Nat
  /\ Held \in Nat /\ Logged \in Nat /\ Len(kinds) \in Nat /\ Len(queue) \in Nat
  /\ Waiting \in Nat /\ Batched = Taken + Held
  /\ Prior \in Nat /\ MaxEvents \in Nat /\ Len(kinds) <= MaxEvents
  /\ Sent <= Len(kinds) /\ a <= Sent /\ a + Batched <= Sent
  /\ Logged <= Sent /\ Queued <= Len(queue)
  /\ Shutdown \notin Events /\ Nothing \notin Events /\ Nothing # Shutdown

\* The counts of a state in which the first events are handled: naturals, in order.
LEMMA Numbers ==
  ASSUME WriterInv, NEW a \in Nat, InFlight(a)
  PROVE  Counts(a)
<1>1. /\ Held \in Nat /\ Logged \in Nat /\ Len(kinds) \in Nat /\ Len(queue) \in Nat
      /\ Waiting \in Nat /\ Taken \in Nat
  BY DEF WriterInv, Types, Workers, Streams, Clients, Taken, Held, Waiting, Logged
<1>2. Prior \in Nat /\ MaxEvents \in Nat /\ Len(kinds) <= MaxEvents
  BY EventWriterAssumption, Zenon DEF WriterInv, Types
<1>3. Sent \in Nat /\ Sent <= Len(kinds)
  BY <1>1 DEF WriterInv, Places, Sent
<1>4. Queued \in Nat /\ Queued <= Len(queue)
  BY <1>1 DEF Queued, WriterInv, Types
<1>5. Received \in Nat /\ Batched \in Nat /\ Batched = Taken + Held
  BY <1>1 DEF Received, Batched
<1>6. Sent = a + Batched + Received + Queued /\ Logged <= a + Taken
  BY Zenon DEF InFlight, Queueing, Writing
<1>7. Shutdown \notin Events /\ Nothing \notin Events /\ Nothing # Shutdown
  BY <1>2 DEF Shutdown, Nothing, Events
<1> QED
  BY <1>1, <1>2, <1>3, <1>4, <1>5, <1>6, <1>7 DEF Counts

\* The first n elements of a sequence.
LEMMA Prefix ==
  ASSUME NEW S, NEW s \in Seq(S), NEW n \in Nat, n <= Len(s)
  PROVE  /\ SubSeq(s, 1, n) \in Seq(S) /\ Len(SubSeq(s, 1, n)) = n
         /\ \A i \in 1..n : SubSeq(s, 1, n)[i] = s[i]
  OBVIOUS

\* Events are numbers.
LEMMA Numbered == ASSUME NEW s \in Seq(Events) PROVE s \in Seq(Nat)
<1>1. Events \subseteq Nat
  BY DEF Events
<1> QED
  BY <1>1, SeqMonotonic, Zenon

\* The events of the batch were sent.
LEMMA BatchSent ==
  ASSUME NEW a \in Nat, Counts(a), Batching(a)
  PROVE  \A i \in 1..Held : worker.batch[i] \in 1..Sent
<1>1. \A i \in 1..Held : worker.batch[i] = a + Taken + i
  BY Zenon DEF Batching
<1>2. \A i \in 1..Held : a + Taken + i \in 1..Sent
  BY DEF Counts
<1> QED
  BY <1>1, <1>2, Zenon

-----------------------------------------------------------------------------
(* The client. *)

\* A step of the client leaves the log and the answers as they are.
LEMMA KindsKept ==
  ASSUME WriterInv, UNCHANGED <<response, worker, stream>>,
         \A i \in 1..Sent : kinds'[i] = kinds[i]
  PROVE  LogKept' /\ AnswersKept'
<1>1. PICK a \in Nat : InFlight(a)
  BY Zenon DEF WriterInv
<1>0. Counts(a)
  BY <1>1, Numbers, Zenon
<1>2. /\ Sent \in Nat /\ Taken \in Nat /\ Logged \in Nat /\ Logged <= Sent
      /\ a <= Sent /\ a + Taken <= Sent
  BY <1>0 DEF Counts
<1>3. LogKept'
  BY <1>2 DEF WriterInv, LogKept, Logged
<1>4. \A e \in Events : response[e] = "ok" => e \in 1..Sent
  BY <1>1, <1>2, EventWriterAssumption DEF InFlight, Answered, Events
<1>5. \A i \in 1..Taken : worker.outbox[i].event \in 1..Sent
  BY <1>1, <1>2 DEF InFlight, Delivering
<1>6. \A e \in 1..Sent : Kept(e) => Kept(e)'
  BY Zenon DEF Kept, Logged
<1>7. AnswersKept'
  BY <1>2, <1>4, <1>5, <1>6, Zenon DEF WriterInv, AnswersKept, Taken
<1> QED
  BY <1>3, <1>7, Zenon

AllKinds == {"delta", "context", "plain", "checkpoint"}

\* A step in which the client neither sends nor takes an answer.
LEMMA ClientMoves ==
  ASSUME WriterInv, UNCHANGED <<queue, response, worker, stream, faults>>,
         kinds' \in Seq(AllKinds), Len(kinds') <= MaxEvents, \A i \in 1..Sent : kinds'[i] = kinds[i],
         client' \in Clients, client'.deferred = client.deferred, client.told => client'.told, Sent' = Sent
  PROVE  /\ Types' /\ (\E a \in Nat : InFlight(a)') /\ LogKept' /\ AnswersKept' /\ (Told => Told')
         /\ Queued' = Queued /\ Logged' = Logged
<1>1. PICK a \in Nat : InFlight(a)
  BY Zenon DEF WriterInv
<1>0. Counts(a)
  BY <1>1, Numbers, Zenon
<1>2. Types'
  BY Zenon DEF WriterInv, Types, AllKinds
<1>3. /\ Queued' = Queued /\ Received' = Received /\ Taken' = Taken /\ Batched' = Batched
      /\ Held' = Held /\ Logged' = Logged /\ Waiting' = Waiting
  BY Zenon DEF Queued, Received, Taken, Batched, Held, Logged, Waiting
<1>4. InFlight(a)'
  <2>1. Batching(a)'
    <3>1. \A i \in 1..Held : worker.batch[i] \in 1..Sent
      BY <1>0, <1>1, BatchSent, Zenon DEF InFlight
    <3> QED
      BY <1>1, <1>3, <3>1, Zenon DEF InFlight, Batching
  <2>2. Answered(a)' /\ Delivering(a)' /\ Receiving(a)' /\ Queueing(a)' /\ Deferring(a)' /\ Writing(a)'
    BY <1>1, <1>3, Zenon DEF InFlight, Answered, Delivering, Receiving, Queueing, Deferring, Writing
  <2> QED
    BY <2>1, <2>2, Zenon DEF InFlight
<1>5. LogKept' /\ AnswersKept'
  BY KindsKept, Zenon
<1>6. Told => Told'
  BY <1>3, Zenon DEF Told
<1> QED
  BY <1>2, <1>3, <1>4, <1>5, <1>6, Zenon

\* The client constructs an event.
LEMMA CommitKeeps == ASSUME WriterInv, NEW kind \in Kinds, Commit(kind) PROVE WriterInv'
<1>1. PICK a \in Nat : InFlight(a)
  BY Zenon DEF WriterInv
<1>0. Counts(a)
  BY <1>1, Numbers, Zenon
<1>2. /\ kinds' = Append(kinds, kind) /\ Len(kinds) < MaxEvents /\ client.pc = "ready"
      /\ kind \in AllKinds /\ kinds \in Seq(AllKinds)
      /\ UNCHANGED <<queue, response, worker, stream, faults>>
  BY EventWriterAssumption, Zenon DEF Commit, WriterInv, Types, AllKinds
<1>3. /\ client' \in Clients /\ client'.pc \in {"drain", "send"} /\ client'.deferred = client.deferred
      /\ client'.told = client.told
  BY Zenon DEF Commit, WriterInv, Types, Clients
<1>4. /\ kinds' \in Seq(AllKinds) /\ Len(kinds') = Len(kinds) + 1
      /\ Sent = Len(kinds) /\ \A i \in 1..Sent : kinds'[i] = kinds[i]
  BY <1>2 DEF Sent
<1>5. Sent' = Sent /\ Len(kinds') > 0 /\ Len(kinds') <= MaxEvents
  BY <1>0, <1>2, <1>3, <1>4 DEF Sent, Counts
<1>6. /\ Types' /\ (\E b \in Nat : InFlight(b)') /\ LogKept' /\ AnswersKept' /\ (Told => Told')
      /\ Queued' = Queued /\ Logged' = Logged
  BY <1>2, <1>3, <1>4, <1>5, ClientMoves, Zenon
<1>7. Places'
  BY <1>2, <1>3, <1>5, <1>6, Zenon DEF WriterInv, Places
<1>8. Telling'
  BY <1>2, <1>3, <1>6, Zenon DEF WriterInv, Telling
<1> QED
  BY <1>6, <1>7, <1>8, Zenon DEF WriterInv

\* It sends the event.
LEMMA SendKeeps == ASSUME WriterInv, Send PROVE WriterInv'
<1>1. PICK a \in Nat : InFlight(a)
  BY Zenon DEF WriterInv
<1>0. Counts(a)
  BY <1>1, Numbers, Zenon
<1> DEFINE n == Len(kinds)
<1> DEFINE d == Append(client.deferred, n)
<1>2. /\ client.pc = "send" /\ queue' = Append(queue, n) /\ queue \in Seq(Events \cup {Shutdown})
      /\ client.deferred \in Seq(Events) /\ client \in Clients
      /\ UNCHANGED <<kinds, response, worker, stream, faults>>
  BY Zenon DEF Send, WriterInv, Types, Clients
<1>3. n \in Events /\ Sent = n - 1 /\ n \in Nat /\ n > 0
  BY <1>0, <1>2 DEF WriterInv, Places, Sent, Events, Counts
<1>4. PICK pc \in {"ready", "await"} : client' = [client EXCEPT !.pc = pc, !.deferred = d]
  BY Zenon DEF Send
<1> HIDE DEF n
<1>5. /\ Len(queue') = Len(queue) + 1 /\ queue'[Len(queue) + 1] = n
      /\ \A i \in 1..Len(queue) : queue'[i] = queue[i]
      /\ queue' \in Seq(Events \cup {Shutdown})
  BY <1>2, <1>3
<1>6. /\ Len(d) = Waiting + 1 /\ d[Waiting + 1] = n
      /\ \A i \in 1..Waiting : d[i] = client.deferred[i]
      /\ d \in Seq(Events)
  BY <1>2, <1>3 DEF Waiting
<1> HIDE DEF d
<1>13. /\ client' \in Clients /\ client'.pc \in {"ready", "await"} /\ client'.deferred = d
       /\ client'.told = client.told
  BY <1>2, <1>4, <1>6, Zenon DEF Clients
<1>7. Queued = Len(queue) /\ Queued' = Len(queue) + 1 /\ Sent' = n
  <2>1. Queued = Len(queue)
    BY <1>0, <1>2 DEF WriterInv, Places, Counts
  <2>2. queue' # <<>> /\ queue'[Len(queue')] # Shutdown
    BY <1>0, <1>3, <1>5 DEF Counts
  <2> QED
    BY <1>2, <1>13, <1>5, <2>1, <2>2, Zenon DEF Queued, Sent, n
<1>8. Types'
  BY <1>2, <1>13, <1>5, Zenon DEF WriterInv, Types
<1>9. Places'
  <2>1. n > 0 /\ ~(Queued < Len(queue)) /\ ~(Queued' < Len(queue'))
    BY <1>0, <1>3, <1>5, <1>7 DEF Counts, Events
  <2> QED
    BY <1>2, <1>13, <2>1, Zenon DEF WriterInv, Places
<1>10. InFlight(a)'
  <2>1. /\ Received' = Received /\ Taken' = Taken /\ Batched' = Batched
        /\ Held' = Held /\ Logged' = Logged /\ Waiting' = Len(d)
    BY <1>2, <1>13, Zenon DEF Received, Taken, Batched, Held, Logged, Waiting
  <2>2. Sent' = a + Batched + Received + Queued'
    <3>1. Sent = a + Batched + Received + Queued
      BY <1>1, Zenon DEF InFlight, Queueing
    <3> QED
      BY <1>0, <1>3, <1>7, <3>1 DEF Counts
  <2>3. Queueing(a)'
    <3>1. ASSUME NEW i \in 1..Queued' PROVE queue'[i] = a + Batched + Received + i
      <4>1. CASE i = Len(queue) + 1
        BY <1>0, <1>3, <1>5, <1>7, <2>2, <4>1, Zenon DEF Counts
      <4>2. CASE i \in 1..Len(queue)
        BY <1>1, <1>5, <1>7, <4>2, Zenon DEF InFlight, Queueing
      <4> QED
        BY <1>0, <1>7, <4>1, <4>2 DEF Counts
    <3> QED
      BY <2>1, <2>2, <3>1, Zenon DEF Queueing
  <2>4. Deferring(a)'
    <3>1. /\ Len(d) <= n /\ n - Len(d) <= a /\ n - Len(d) = Sent - Waiting
      <4>1. Waiting <= Sent /\ Sent - Waiting <= a
        BY <1>1, Zenon DEF InFlight, Deferring
      <4> QED
        BY <1>0, <1>3, <1>6, <4>1, SMTT(60) DEF Counts
    <3>2. ASSUME NEW i \in 1..Len(d) PROVE d[i] = n - Len(d) + i
      <4>1. CASE i = Waiting + 1
        BY <1>0, <1>3, <1>6, <4>1 DEF Counts
      <4>2. CASE i \in 1..Waiting
        BY <1>1, <1>6, <3>1, <4>2, Zenon DEF InFlight, Deferring
      <4> QED
        BY <1>0, <1>6, <4>1, <4>2 DEF Counts
    <3> QED
      BY <1>7, <1>13, <2>1, <3>1, <3>2, Zenon DEF Deferring
  <2>5. Answered(a)' /\ Delivering(a)' /\ Batching(a)' /\ Receiving(a)' /\ Writing(a)'
    BY <1>1, <1>2, <2>1, Zenon DEF InFlight, Answered, Delivering, Batching, Receiving, Writing
  <2> QED
    BY <2>3, <2>4, <2>5, Zenon DEF InFlight
<1>11. LogKept' /\ AnswersKept'
  BY <1>2, KindsKept, Zenon
<1>12. Telling'
  <2>1. Told => Told'
    <3>1. ASSUME NEW i \in 1..Waiting, response[client.deferred[i]] = "failed"
          PROVE  Told'
      <4>1. i \in 1..Len(d) /\ d[i] = client.deferred[i]
        BY <1>0, <1>6 DEF Counts
      <4> QED
        BY <1>2, <1>13, <3>1, <4>1, Zenon DEF Told, Waiting
    <3> QED
      BY <1>2, <1>13, <3>1, Zenon DEF Told, Taken
  <2> QED
    BY <1>2, <1>13, <2>1, Zenon DEF WriterInv, Telling, Logged
<1> QED
  BY <1>8, <1>9, <1>10, <1>11, <1>12, Zenon DEF WriterInv

\* It takes an answer it waited for.
LEMMA TakeResponseKeeps == ASSUME WriterInv, TakeResponse PROVE WriterInv'
<1>1. PICK a \in Nat : InFlight(a)
  BY Zenon DEF WriterInv
<1>0. Counts(a)
  BY <1>1, Numbers, Zenon
<1> DEFINE d == Tail(client.deferred)
<1>2. /\ client.pc \in {"drain", "await", "collect"} /\ client.deferred # <<>>
      /\ client.deferred \in Seq(Events) /\ client \in Clients
      /\ UNCHANGED <<kinds, queue, response, worker, stream, faults>>
  BY Zenon DEF TakeResponse, clientOnly, WriterInv, Types, Clients
<1>3. /\ Waiting > 0 /\ d \in Seq(Events) /\ Len(d) = Waiting - 1
      /\ \A i \in 1..Len(d) : d[i] = client.deferred[i + 1]
      /\ Head(client.deferred) = client.deferred[1] /\ client.deferred[1] \in Events
  BY <1>2 DEF Waiting
<1>4. response[client.deferred[1]] # "open"
  BY <1>3, Zenon DEF TakeResponse
<1>5. /\ client'.pc = client.pc /\ client'.deferred = d /\ client' \in Clients
      /\ client.told => client'.told
      /\ response[client.deferred[1]] = "failed" => client'.told
  BY <1>2, <1>3, Zenon DEF TakeResponse, Clients
<1> HIDE DEF d
<1>6. /\ Queued' = Queued /\ Received' = Received /\ Taken' = Taken /\ Batched' = Batched
      /\ Held' = Held /\ Logged' = Logged /\ Waiting' = Len(d) /\ Sent' = Sent
  BY <1>2, <1>5, Zenon DEF Queued, Received, Taken, Batched, Held, Logged, Waiting, Sent
<1>7. Types'
  BY <1>2, <1>5, Zenon DEF WriterInv, Types
<1>8. Places'
  BY <1>2, <1>5, <1>6, Zenon DEF WriterInv, Places
<1>9. InFlight(a)'
  <2>1. Sent - Waiting + 1 <= a
    <3>1. client.deferred[1] = Sent - Waiting + 1
      BY <1>0, <1>1, <1>3 DEF InFlight, Deferring, Counts
    <3>2. client.deferred[1] <= a
      BY <1>0, <1>1, <1>3, <1>4, <3>1 DEF InFlight, Answered, Counts
    <3> QED
      BY <3>1, <3>2, Zenon
  <2>2. Waiting <= Sent /\ \A i \in 1..Waiting : client.deferred[i] = Sent - Waiting + i
    BY <1>1, Zenon DEF InFlight, Deferring
  <2>3. Len(d) <= Sent /\ Sent - Len(d) <= a
    BY <1>0, <1>3, <2>1, <2>2 DEF Counts
  <2>4. ASSUME NEW i \in 1..Len(d) PROVE d[i] = Sent - Len(d) + i
    <3>1. i + 1 \in 1..Waiting
      BY <1>0, <1>3 DEF Counts
    <3>2. client.deferred[i + 1] = Sent - Waiting + (i + 1)
      BY <2>2, <3>1, Zenon
    <3> QED
      BY <1>0, <1>3, <3>2 DEF Counts
  <2>5. Deferring(a)'
    BY <1>5, <1>6, <2>3, <2>4, Zenon DEF Deferring
  <2> QED
    BY <1>1, <1>2, <1>6, <2>5, Zenon
       DEF InFlight, Answered, Delivering, Batching, Receiving, Queueing, Writing
<1>10. LogKept' /\ AnswersKept'
  BY <1>2, KindsKept, Zenon
<1>11. Telling'
  <2>1. Told => Told'
    <3>1. ASSUME NEW i \in 1..Waiting, response[client.deferred[i]] = "failed"
          PROVE  Told'
      <4>1. CASE i = 1
        BY <1>5, <3>1, <4>1, Zenon DEF Told
      <4>2. CASE i # 1
        <5>1. i - 1 \in 1..Len(d) /\ (i - 1) + 1 = i
          BY <1>0, <1>3, <4>2 DEF Counts
        <5>2. d[i - 1] = client.deferred[i]
          BY <1>3, <5>1, Zenon
        <5> QED
          BY <1>2, <1>5, <1>6, <3>1, <5>1, <5>2, Zenon DEF Told
      <4> QED
        BY <4>1, <4>2, Zenon
    <3> QED
      BY <1>2, <1>5, <1>6, <3>1, Zenon DEF Told
  <2> QED
    BY <1>2, <1>5, <1>6, <2>1, Zenon DEF WriterInv, Telling
<1> QED
  BY <1>7, <1>8, <1>9, <1>10, <1>11, Zenon DEF WriterInv

\* It has no answer left to take.
LEMMA DrainedKeeps == ASSUME WriterInv, Drained PROVE WriterInv'
<1>1. PICK a \in Nat : InFlight(a)
  BY Zenon DEF WriterInv
<1>0. Counts(a)
  BY <1>1, Numbers, Zenon
<1>2. /\ client.pc \in {"drain", "await"} /\ client \in Clients /\ kinds \in Seq(AllKinds)
      /\ UNCHANGED <<queue, response, worker, stream, faults>>
      /\ client'.deferred = client.deferred /\ client'.told = client.told /\ client' \in Clients
  BY SMTT(60) DEF Drained, WriterInv, Types, Clients, AllKinds
<1>3. CASE client.pc = "drain" /\ client.failed
  <2>1. Len(kinds) > 0
    BY <1>3, Zenon DEF WriterInv, Places
  <2>2. kinds' = SubSeq(kinds, 1, Len(kinds) - 1) /\ client'.pc = "ready"
    BY <1>2, <1>3, Zenon DEF Drained, Clients
  <2>3. /\ kinds' \in Seq(AllKinds) /\ Len(kinds') = Len(kinds) - 1
        /\ \A i \in 1..Len(kinds) - 1 : kinds'[i] = kinds[i]
    <3>1. Len(kinds) - 1 \in Nat /\ Len(kinds) - 1 <= Len(kinds)
      BY <1>0, <2>1 DEF Counts
    <3> QED
      BY <1>2, <2>2, <3>1, Prefix, Zenon
  <2>4. Sent = Len(kinds) - 1 /\ Sent' = Sent /\ Len(kinds') <= MaxEvents
    BY <1>0, <1>3, <2>2, <2>3 DEF Sent, Counts
  <2>5. /\ Types' /\ (\E b \in Nat : InFlight(b)') /\ LogKept' /\ AnswersKept' /\ (Told => Told')
        /\ Queued' = Queued /\ Logged' = Logged
    BY <1>2, <2>3, <2>4, ClientMoves, Zenon
  <2>6. Places'
    BY <1>2, <1>3, <2>2, <2>5, Zenon DEF WriterInv, Places
  <2>7. Telling'
    BY <1>2, <1>3, <2>2, <2>5, Zenon DEF WriterInv, Telling
  <2> QED
    BY <2>5, <2>6, <2>7, Zenon DEF WriterInv
<1>4. CASE ~(client.pc = "drain" /\ client.failed)
  <2>1. kinds' = kinds /\ client'.pc = (IF client.pc = "drain" THEN "send" ELSE "ready")
    BY <1>2, <1>4, Zenon DEF Drained, Clients
  <2>2. Sent' = Sent /\ Len(kinds') <= MaxEvents
    BY <1>0, <1>2, <2>1, Zenon DEF Sent, Counts
  <2>3. /\ Types' /\ (\E b \in Nat : InFlight(b)') /\ LogKept' /\ AnswersKept' /\ (Told => Told')
        /\ Queued' = Queued /\ Logged' = Logged
    BY <1>2, <2>1, <2>2, ClientMoves, Zenon
  <2>4. Places'
    BY <1>2, <2>1, <2>3, Zenon DEF WriterInv, Places
  <2>5. Telling'
    BY <1>2, <2>1, <2>3, Zenon DEF WriterInv, Telling
  <2> QED
    BY <2>3, <2>4, <2>5, Zenon DEF WriterInv
<1> QED
  BY <1>3, <1>4, Zenon

\* It starts to finish.
LEMMA FinishKeeps == ASSUME WriterInv, Finish PROVE WriterInv'
<1>1. PICK a \in Nat : InFlight(a)
  BY Zenon DEF WriterInv
<1>0. Counts(a)
  BY <1>1, Numbers, Zenon
<1>2. /\ client.pc = "ready" /\ client'.pc = "shutdown" /\ kinds \in Seq(AllKinds)
      /\ UNCHANGED <<kinds, queue, response, worker, stream, faults>>
      /\ client'.deferred = client.deferred /\ client'.told = client.told /\ client' \in Clients
  BY Zenon DEF Finish, clientOnly, WriterInv, Types, Clients, AllKinds
<1>3. Sent' = Sent /\ Len(kinds') <= MaxEvents
  BY <1>0, <1>2, Zenon DEF Sent, Counts
<1>4. /\ Types' /\ (\E b \in Nat : InFlight(b)') /\ LogKept' /\ AnswersKept' /\ (Told => Told')
      /\ Queued' = Queued /\ Logged' = Logged
  BY <1>2, <1>3, ClientMoves, Zenon
<1>5. Places'
  BY <1>2, <1>4, Zenon DEF WriterInv, Places
<1>6. Telling'
  BY <1>2, <1>4, Zenon DEF WriterInv, Telling
<1> QED
  BY <1>4, <1>5, <1>6, Zenon DEF WriterInv

\* It joins the worker.
LEMMA JoinedKeeps == ASSUME WriterInv, Joined PROVE WriterInv'
<1>1. PICK a \in Nat : InFlight(a)
  BY Zenon DEF WriterInv
<1>0. Counts(a)
  BY <1>1, Numbers, Zenon
<1>2. /\ client.pc = "collect" /\ client'.pc = "done" /\ kinds \in Seq(AllKinds)
      /\ UNCHANGED <<kinds, queue, response, worker, stream, faults>>
      /\ client'.deferred = client.deferred /\ (client.told => client'.told) /\ client' \in Clients
      /\ worker.pc = "exit" /\ client.deferred = <<>> /\ response[Shutdown] # "open"
      /\ response[Shutdown] = "failed" => client'.told
  BY Zenon DEF Joined, clientOnly, WriterInv, Types, Clients, AllKinds
<1>3. Sent' = Sent /\ Len(kinds') <= MaxEvents
  BY <1>0, <1>2, Zenon DEF Sent, Counts
<1>4. /\ Types' /\ (\E b \in Nat : InFlight(b)') /\ LogKept' /\ AnswersKept' /\ (Told => Told')
      /\ Queued' = Queued /\ Logged' = Logged
  BY <1>2, <1>3, ClientMoves, Zenon
<1>5. Places'
  BY <1>2, <1>4, Zenon DEF WriterInv, Places
<1>6. Telling'
  BY <1>2, <1>4, Zenon DEF WriterInv, Telling
<1> QED
  BY <1>4, <1>5, <1>6, Zenon DEF WriterInv

\* It sends Shutdown behind the last event.
LEMMA SendShutdownKeeps == ASSUME WriterInv, SendShutdown PROVE WriterInv'
<1>1. PICK a \in Nat : InFlight(a)
  BY Zenon DEF WriterInv
<1>0. Counts(a)
  BY <1>1, Numbers, Zenon
<1>2. /\ client.pc = "shutdown" /\ client'.pc = "collect" /\ queue' = Append(queue, Shutdown)
      /\ client'.deferred = client.deferred /\ client'.told = client.told /\ client' \in Clients
      /\ queue \in Seq(Events \cup {Shutdown})
      /\ UNCHANGED <<kinds, response, worker, stream, faults>>
  BY Zenon DEF SendShutdown, WriterInv, Types, Clients
<1>3. /\ queue' \in Seq(Events \cup {Shutdown}) /\ Len(queue') = Len(queue) + 1
      /\ queue'[Len(queue')] = Shutdown /\ queue' # <<>>
      /\ \A i \in 1..Len(queue) : queue'[i] = queue[i]
  BY <1>2
<1>4. Queued = Len(queue)
  BY <1>0, <1>2 DEF WriterInv, Places, Counts
<1>5. Queued' = Queued /\ Queued' < Len(queue')
  BY <1>0, <1>3, <1>4 DEF Queued, Counts
<1>6. /\ Received' = Received /\ Taken' = Taken /\ Batched' = Batched
      /\ Held' = Held /\ Logged' = Logged /\ Waiting' = Waiting /\ Sent' = Sent
  BY <1>2, Zenon DEF Received, Taken, Batched, Held, Logged, Waiting, Sent
<1>7. Types'
  BY <1>2, <1>3, Zenon DEF WriterInv, Types
<1>8. Places'
  BY <1>2, <1>5, Zenon DEF WriterInv, Places
<1>9. InFlight(a)'
  <2>1. Queueing(a)'
    BY <1>1, <1>3, <1>4, <1>5, <1>6, Zenon DEF InFlight, Queueing
  <2> QED
    BY <1>1, <1>2, <1>6, <2>1, Zenon
       DEF InFlight, Answered, Delivering, Batching, Receiving, Deferring, Writing
<1>10. LogKept' /\ AnswersKept'
  BY <1>2, KindsKept, Zenon
<1>11. Telling'
  BY <1>2, <1>6, Zenon DEF WriterInv, Telling, Told
<1> QED
  BY <1>7, <1>8, <1>9, <1>10, <1>11, Zenon DEF WriterInv

-----------------------------------------------------------------------------
(* The worker. *)

\* A step in which the worker takes no event further.
LEMMA WorkerMoves ==
  ASSUME WriterInv, NEW a \in Nat, InFlight(a), UNCHANGED <<kinds, client, queue>>,
         worker'.outbox = worker.outbox, worker'.batch = worker.batch, worker'.then = worker.then,
         worker'.stopped = worker.stopped, worker'.previous = worker.previous,
         stream'.log = stream.log, stream'.synced \in Nat, stream'.synced >= stream.synced,
         \A e \in Events : response'[e] = response[e]
  PROVE  /\ InFlight(a)' /\ AnswersKept'
         /\ (\E b \in Nat : InFlight(b))'
         /\ Queued' = Queued /\ Logged' = Logged /\ Taken' = Taken
         /\ Told /\ ~worker.pending_error /\ response'[Shutdown] = response[Shutdown] => Told'
<1>1. /\ Queued' = Queued /\ Received' = Received /\ Taken' = Taken /\ Batched' = Batched
      /\ Held' = Held /\ Logged' = Logged /\ Waiting' = Waiting /\ Sent' = Sent
  BY Zenon DEF Queued, Received, Taken, Batched, Held, Logged, Waiting, Sent
<1>2. InFlight(a)'
  BY <1>1, SMTT(60) DEF InFlight, Answered, Delivering, Batching, Receiving, Queueing, Deferring, Writing
<1>3. \A e \in Nat : Kept(e) => Kept(e)'
  BY <1>1, SMTT(60) DEF Kept, WriterInv, Types, Streams
<1>4. AnswersKept'
  <2>1. \A i \in 1..Taken : worker.outbox[i].event \in Nat
    BY DEF InFlight, Delivering
  <2> QED
    BY <1>1, <1>3, <2>1, SMTT(60) DEF WriterInv, AnswersKept, Events
<1>5. ASSUME Told, ~worker.pending_error, response'[Shutdown] = response[Shutdown] PROVE Told'
  <2>1. \A i \in 1..Waiting : client.deferred[i] \in Events
    BY DEF WriterInv, Types, Clients, Waiting
  <2> QED
    BY <1>1, <1>5, <2>1, Zenon DEF Told
<1> QED
  BY <1>1, <1>2, <1>4, <1>5, Zenon

\* The batch window closes.
LEMMA BatchDueKeeps == ASSUME WriterInv, BatchDue PROVE WriterInv'
<1>1. PICK a \in Nat : InFlight(a)
  BY Zenon DEF WriterInv
<1>2. /\ worker' \in Workers /\ worker.pc = "loop" /\ worker'.pc = "batch"
      /\ worker'.outbox = worker.outbox /\ worker'.batch = worker.batch /\ worker'.then = worker.then
      /\ worker'.stopped = worker.stopped /\ worker'.previous = worker.previous
      /\ worker'.pending_error = worker.pending_error
      /\ UNCHANGED <<kinds, client, queue, response, stream, faults>>
  BY Zenon DEF BatchDue, WriterInv, Types, Workers
<1>3. stream.synced \in Nat /\ stream.synced >= stream.synced
  BY DEF WriterInv, Types, Streams
<1>4. /\ AnswersKept' /\ (\E b \in Nat : InFlight(b))' /\ Queued' = Queued /\ Logged' = Logged /\ Taken' = Taken
      /\ Told /\ ~worker.pending_error => Told'
  BY <1>1, <1>2, <1>3, WorkerMoves, Zenon
<1>5. Types'
  BY <1>2, Zenon DEF WriterInv, Types
<1>6. Places'
  BY <1>2, <1>4, Zenon DEF WriterInv, Places
<1>7. LogKept'
  BY <1>2, <1>4, ZenonT(60) DEF WriterInv, LogKept
<1>8. Telling'
  <2>1. Told => Told'
    BY <1>2, <1>4, Zenon DEF Told
  <2> QED
    BY <1>2, <1>4, <2>1, Zenon DEF WriterInv, Telling
<1> QED
  BY <1>4, <1>5, <1>6, <1>7, <1>8, Zenon DEF WriterInv

\* A sync.
LEMMA SyncOf ==
  ASSUME NEW s \in Streams, s.synced <= Len(s.log), NEW ok \in BOOLEAN
  PROVE  /\ Synced(ok, s) \in Streams /\ Synced(ok, s).log = s.log /\ Synced(ok, s).contexts = s.contexts
         /\ Synced(ok, s).torn = s.torn
         /\ Synced(ok, s).synced >= s.synced /\ Synced(ok, s).synced <= Len(s.log)
         /\ ok /\ ~s.doubtful => Synced(ok, s).synced = Len(s.log)
         /\ Synced(ok, s).doubtful => s.doubtful \/ ~ok
<1>1. s.synced \in Nat /\ Len(s.log) \in Nat /\ s.doubtful \in BOOLEAN
  BY DEF Streams
<1> DEFINE n == IF ok /\ ~s.doubtful THEN Len(s.log) ELSE s.synced
<1> DEFINE d == s.doubtful \/ (~ok /\ s.synced < Len(s.log))
<1>2. Synced(ok, s) = [s EXCEPT !.synced = n, !.doubtful = d]
  BY Zenon DEF Synced
<1>3. /\ n \in Nat /\ n >= s.synced /\ n <= Len(s.log) /\ (ok /\ ~s.doubtful => n = Len(s.log))
      /\ d \in BOOLEAN /\ (d => s.doubtful \/ ~ok)
  BY <1>1
<1> HIDE DEF n, d
<1>4. /\ Synced(ok, s) \in Streams /\ Synced(ok, s).log = s.log /\ Synced(ok, s).contexts = s.contexts
      /\ Synced(ok, s).torn = s.torn /\ Synced(ok, s).synced = n /\ Synced(ok, s).doubtful = d
  BY <1>2, <1>3, Zenon DEF Streams
<1> QED
  BY <1>3, <1>4, Zenon

\* A sync of the stream leaves the log alone and moves the durable part forward, to the end of
\* the log when it succeeds on a stream no failed sync made doubtful.
LEMMA SyncedKeeps ==
  ASSUME stream \in Streams, stream.synced <= Logged, NEW ok \in BOOLEAN, stream' = Synced(ok, stream)
  PROVE  /\ stream' \in Streams /\ stream'.log = stream.log /\ stream'.contexts = stream.contexts
         /\ stream'.torn = stream.torn /\ stream'.synced >= stream.synced /\ stream'.synced <= Logged
         /\ ok /\ ~stream.doubtful => stream'.synced = Logged
         /\ stream'.doubtful => stream.doubtful \/ ~ok
  BY SyncOf, Zenon DEF Logged

\* The periodic sync.
LEMMA TickKeeps == ASSUME WriterInv, Tick PROVE WriterInv'
<1>1. PICK a \in Nat : InFlight(a)
  BY Zenon DEF WriterInv
<1>2. PICK ok \in BOOLEAN : /\ stream' = Synced(ok, stream)
                            /\ worker' = [worker EXCEPT !.pending_error = ~ok, !.dirty = FALSE]
                            /\ faults' = faults + (IF ok THEN 0 ELSE 1)
  BY Zenon DEF Tick, Syncs
<1>3. /\ worker' \in Workers /\ worker.pc = "loop" /\ worker'.pc = "loop"
      /\ worker'.outbox = worker.outbox /\ worker'.batch = worker.batch /\ worker'.then = worker.then
      /\ worker'.stopped = worker.stopped /\ worker'.previous = worker.previous
      /\ ~worker.pending_error /\ ~worker.stopped /\ worker'.pending_error = ~ok
      /\ UNCHANGED <<kinds, client, queue, response>>
  BY <1>2, Zenon DEF Tick, WriterInv, Types, Workers
<1>4. /\ stream' \in Streams /\ stream'.log = stream.log /\ stream'.contexts = stream.contexts
      /\ stream'.torn = stream.torn /\ stream'.synced >= stream.synced /\ stream'.synced <= Logged
      /\ stream'.doubtful => stream.doubtful \/ ~ok
  BY <1>2, SyncedKeeps, Zenon DEF WriterInv, Types, LogKept
<1>5. stream'.synced \in Nat
  BY <1>4, Zenon DEF Streams
<1>6. /\ AnswersKept' /\ (\E b \in Nat : InFlight(b))' /\ Queued' = Queued /\ Logged' = Logged /\ Taken' = Taken
      /\ Told => Told'
  BY <1>1, <1>3, <1>4, <1>5, WorkerMoves, Zenon
<1>7. Types'
  <2>1. faults' \in Nat
    BY <1>2 DEF WriterInv, Types
  <2> QED
    BY <1>3, <1>4, <2>1, Zenon DEF WriterInv, Types
<1>8. Places'
  BY <1>3, <1>6, Zenon DEF WriterInv, Places
<1>9. LogKept'
  BY <1>3, <1>4, <1>6, Zenon DEF WriterInv, LogKept
<1>10. Telling'
  <2>1. CASE ok
    <3>1. faults' = faults
      BY <1>2, <2>1 DEF WriterInv, Types
    <3> QED
      BY <1>3, <1>6, <3>1, Zenon DEF WriterInv, Telling
  <2>2. CASE ~ok
    BY <1>3, <2>2, Zenon DEF WriterInv, Telling, Told
  <2> QED
    BY <2>1, <2>2, Zenon
<1> QED
  BY <1>6, <1>7, <1>8, <1>9, <1>10, Zenon DEF WriterInv

\* The two halves of a notification.
LEMMA NotifyKeeps == ASSUME WriterInv, Watermark \/ Wake PROVE WriterInv'
<1>1. PICK a \in Nat : InFlight(a)
  BY Zenon DEF WriterInv
<1>2. /\ worker' \in Workers /\ worker.pc = "deliver" /\ worker'.pc = "deliver"
      /\ worker'.outbox = worker.outbox /\ worker'.batch = worker.batch /\ worker'.then = worker.then
      /\ worker'.stopped = worker.stopped /\ worker'.previous = worker.previous
      /\ worker'.pending_error = worker.pending_error
      /\ UNCHANGED <<kinds, client, queue, response, stream, faults>>
  BY Zenon DEF Watermark, Wake, delivering, WriterInv, Types, Workers
<1>3. stream.synced \in Nat /\ stream.synced >= stream.synced
  BY DEF WriterInv, Types, Streams
<1>4. /\ AnswersKept' /\ (\E b \in Nat : InFlight(b))' /\ Queued' = Queued /\ Logged' = Logged /\ Taken' = Taken
      /\ Told /\ ~worker.pending_error => Told'
  BY <1>1, <1>2, <1>3, WorkerMoves, Zenon
<1>5. Types'
  BY <1>2, Zenon DEF WriterInv, Types
<1>6. Places'
  BY <1>2, <1>4, Zenon DEF WriterInv, Places
<1>7. LogKept'
  BY <1>2, <1>4, ZenonT(60) DEF WriterInv, LogKept
<1>8. Telling'
  <2>1. Told => Told'
    BY <1>2, <1>4, Zenon DEF Told
  <2> QED
    BY <1>2, <1>4, <2>1, Zenon DEF WriterInv, Telling
<1> QED
  BY <1>4, <1>5, <1>6, <1>7, <1>8, Zenon DEF WriterInv

\* The worker goes on with what it received.
LEMMA ResumedKeeps ==
  ASSUME WriterInv, UNCHANGED <<kinds, client, queue, response, stream, faults>>,
         worker.pc \in {"batch", "deliver"}, worker.outbox = <<>>, worker.batch = <<>>,
         worker' = Resumed(worker)
  PROVE  WriterInv'
<1>1. PICK a \in Nat : InFlight(a)
  BY Zenon DEF WriterInv
<1>0. Counts(a)
  BY <1>1, Numbers, Zenon
<1>2. /\ worker' \in Workers
      /\ worker'.pc = IF worker.then = Nothing THEN "loop" ELSE IF worker.then = Shutdown THEN "shutdown" ELSE "commit"
      /\ worker'.outbox = worker.outbox /\ worker'.batch = worker.batch /\ worker'.then = worker.then
      /\ worker'.stopped = worker.stopped /\ worker'.previous = worker.previous
      /\ worker'.pending_error = worker.pending_error
      /\ worker.then \in Events \cup {Shutdown, Nothing}
  BY Zenon DEF Resumed, WriterInv, Types, Workers
<1>3. stream.synced \in Nat /\ stream.synced >= stream.synced
  BY DEF WriterInv, Types, Streams
<1>4. /\ AnswersKept' /\ (\E b \in Nat : InFlight(b))' /\ Queued' = Queued /\ Logged' = Logged /\ Taken' = Taken
      /\ Told /\ ~worker.pending_error => Told'
  BY <1>1, <1>2, <1>3, WorkerMoves, Zenon
<1>5. Types'
  BY <1>2, Zenon DEF WriterInv, Types
<1>6. Places'
  BY <1>0, <1>2, <1>4, Zenon DEF WriterInv, Places, Counts
<1>7. LogKept'
  BY <1>2, <1>4, ZenonT(60) DEF WriterInv, LogKept
<1>8. Telling'
  <2>1. Told => Told'
    BY <1>2, <1>4, Zenon DEF Told
  <2> QED
    BY <1>2, <1>4, <2>1, Zenon DEF WriterInv, Telling
<1> QED
  BY <1>4, <1>5, <1>6, <1>7, <1>8, Zenon DEF WriterInv

\* With every notification of the batch out, the worker resumes what it was doing.
LEMMA DeliveredKeeps == ASSUME WriterInv, Delivered PROVE WriterInv'
  BY ResumedKeeps, ZenonT(60) DEF Delivered, WriterInv, Places

\* The last sync.
LEMMA ShutDownKeeps == ASSUME WriterInv, ShutDown PROVE WriterInv'
<1>1. PICK a \in Nat : InFlight(a)
  BY Zenon DEF WriterInv
<1>0. Counts(a)
  BY <1>1, Numbers, Zenon
<1>2. PICK ok \in BOOLEAN :
        /\ response' = [response EXCEPT ![Shutdown] = IF ok /\ ~worker.pending_error THEN "ok" ELSE "failed"]
        /\ stream' = Synced(ok, stream)
        /\ faults' = faults + (IF ok \/ stream.torn THEN 0 ELSE 1)
        /\ stream.torn => ~ok
  BY Zenon DEF ShutDown, Syncs
<1>3. /\ worker' \in Workers /\ worker.pc = "shutdown" /\ worker'.pc = "exit"
      /\ worker'.outbox = worker.outbox /\ worker'.batch = worker.batch /\ worker'.then = worker.then
      /\ worker'.stopped = worker.stopped /\ worker'.previous = worker.previous
      /\ ~worker'.pending_error
      /\ UNCHANGED <<kinds, client, queue>>
  BY <1>2, Zenon DEF ShutDown, WriterInv, Types, Workers
<1>4. /\ stream' \in Streams /\ stream'.log = stream.log /\ stream'.contexts = stream.contexts
      /\ stream'.torn = stream.torn /\ stream'.synced >= stream.synced /\ stream'.synced <= Logged
      /\ ok /\ ~stream.doubtful => stream'.synced = Logged
  BY <1>2, SyncedKeeps, Zenon DEF WriterInv, Types, LogKept
<1>5. stream'.synced \in Nat
  BY <1>4, Zenon DEF Streams
<1>6. /\ response' \in [Events \cup {Shutdown} -> Outcomes]
      /\ \A e \in Events : response'[e] = response[e]
      /\ response'[Shutdown] = IF ok /\ ~worker.pending_error THEN "ok" ELSE "failed"
      /\ response[Shutdown] = "open"
  BY <1>0, <1>2, <1>3, Zenon DEF WriterInv, Types, Outcomes, Counts, Places
<1>7. /\ AnswersKept' /\ (\E b \in Nat : InFlight(b))' /\ Queued' = Queued /\ Logged' = Logged /\ Taken' = Taken
  BY <1>1, <1>3, <1>4, <1>5, <1>6, WorkerMoves, Zenon
<1>8. Types'
  <2>1. faults' \in Nat
    BY <1>2 DEF WriterInv, Types
  <2> QED
    BY <1>3, <1>4, <1>6, <2>1, Zenon DEF WriterInv, Types
<1>9. Places'
  BY <1>3, <1>7, Zenon DEF WriterInv, Places
<1>10. LogKept'
  BY <1>3, <1>4, <1>7, Zenon DEF WriterInv, LogKept
<1>11. Telling'
  <2>1. client.pc # "done"
    BY <1>3, Zenon DEF WriterInv, Telling
  <2>2. response'[Shutdown] = "ok" /\ ~worker.stopped => stream'.synced = Logged
    BY <1>3, <1>4, <1>6, Zenon DEF WriterInv, LogKept
  <2>3. CASE response'[Shutdown] = "failed"
    BY <1>3, <2>1, <2>3, Zenon DEF Telling, Told
  <2>4. CASE response'[Shutdown] # "failed"
    <3>1. faults' = faults /\ ~worker.pending_error
      BY <1>2, <1>6, <2>4 DEF WriterInv, Types
    <3>2. Told => Told'
      <4>1. \A i \in 1..Waiting : client.deferred[i] \in Events
        BY DEF WriterInv, Types, Clients, Waiting
      <4>2. Waiting' = Waiting
        BY <1>3, Zenon DEF Waiting
      <4> QED
        BY <1>3, <1>6, <1>7, <3>1, <4>1, <4>2, Zenon DEF Told
    <3> QED
      BY <1>3, <1>7, <2>1, <2>2, <3>1, <3>2, Zenon DEF WriterInv, Telling
  <2> QED
    BY <2>3, <2>4, Zenon
<1> QED
  BY <1>7, <1>8, <1>9, <1>10, <1>11, Zenon DEF WriterInv

\* The worker answers the next event.
LEMMA AcknowledgeKeeps == ASSUME WriterInv, Acknowledge PROVE WriterInv'
<1>1. PICK a \in Nat : InFlight(a)
  BY Zenon DEF WriterInv
<1>0. Counts(a)
  BY <1>1, Numbers, Zenon
<1> DEFINE o == Tail(worker.outbox)
<1>2. /\ worker.pc = "deliver" /\ worker.outbox # <<>> /\ worker.outbox \in Seq(Answers) /\ worker \in Workers
      /\ UNCHANGED <<kinds, client, queue, stream, faults>>
  BY Zenon DEF Acknowledge, delivering, WriterInv, Types, Workers
<1>3. /\ Taken > 0 /\ o \in Seq(Answers) /\ Len(o) = Taken - 1
      /\ \A i \in 1..Len(o) : o[i] = worker.outbox[i + 1]
      /\ Head(worker.outbox) = worker.outbox[1] /\ worker.outbox[1] \in Answers
  BY <1>2 DEF Taken
<1>4. worker.outbox[1].event = a + 1 /\ worker.outbox[1].event \in Events
  BY <1>0, <1>1, <1>3 DEF InFlight, Delivering, Answers, Counts
<1>5. worker' = [worker EXCEPT !.outbox = o, !.step = "watermark"]
  BY Zenon DEF Acknowledge
<1> HIDE DEF o
<1>6. /\ worker' \in Workers /\ worker'.pc = "deliver" /\ worker'.outbox = o /\ worker'.batch = worker.batch
      /\ worker'.then = worker.then /\ worker'.stopped = worker.stopped
      /\ worker'.previous = worker.previous /\ worker'.pending_error = worker.pending_error
  BY <1>2, <1>3, <1>5, Zenon DEF Workers
<1>7. /\ response' \in [Events \cup {Shutdown} -> Outcomes]
      /\ response'[a + 1] = (IF worker.outbox[1].failed THEN "failed" ELSE "ok")
      /\ \A e \in Events \cup {Shutdown} : e # a + 1 => response'[e] = response[e]
      /\ response'[Shutdown] = response[Shutdown]
  <2>1. response' = [response EXCEPT ![a + 1] = IF worker.outbox[1].failed THEN "failed" ELSE "ok"]
    BY <1>3, <1>4, Zenon DEF Acknowledge
  <2>2. a + 1 \in Events /\ a + 1 # Shutdown
    BY <1>0, <1>4, Zenon DEF Counts
  <2>3. (IF worker.outbox[1].failed THEN "failed" ELSE "ok") \in Outcomes
    BY Zenon DEF Outcomes
  <2> QED
    BY <2>1, <2>2, <2>3, Zenon DEF WriterInv, Types
<1>8. /\ Queued' = Queued /\ Received' = Received /\ Taken' = Taken - 1 /\ Batched' = Batched - 1
      /\ Held' = Held /\ Logged' = Logged /\ Waiting' = Waiting /\ Sent' = Sent
  <2>1. Queued' = Queued /\ Received' = Received /\ Held' = Held /\ Logged' = Logged
    BY <1>2, <1>6, Zenon DEF Queued, Received, Held, Logged
  <2>2. Waiting' = Waiting /\ Sent' = Sent
    BY <1>2, Zenon DEF Waiting, Sent
  <2>3. Taken' = Taken - 1
    BY <1>3, <1>6, Zenon DEF Taken
  <2>4. Batched' = Batched - 1
    BY <1>0, <2>1, <2>3 DEF Batched, Counts
  <2> QED
    BY <2>1, <2>2, <2>3, <2>4, Zenon
<1>9. Types'
  BY <1>2, <1>6, <1>7, Zenon DEF WriterInv, Types
<1>10. Places'
  BY <1>2, <1>6, <1>7, <1>8, ZenonT(60) DEF WriterInv, Places
<1>11. a + 1 \in Nat /\ InFlight(a + 1)'
  <2>1. Answered(a + 1)'
    <3>1. \A e \in Events : e \in Nat
      BY DEF Events
    <3>2. a >= Prior /\ \A e \in Events : response[e] = "open" <=> e > a
      BY <1>1, Zenon DEF InFlight, Answered
    <3>3. a + 1 >= Prior
      BY <1>0, <3>2 DEF Counts
    <3>4. ASSUME NEW e \in Events PROVE response'[e] = "open" <=> e > a + 1
      <4>1. CASE e = a + 1
        BY <1>7, <4>1
      <4>2. CASE e # a + 1
        BY <1>7, <3>1, <3>2, <4>2
      <4> QED
        BY <4>1, <4>2, Zenon
    <3> QED
      BY <3>3, <3>4, Zenon DEF Answered
  <2>2. Delivering(a + 1)'
    <3>1. ASSUME NEW i \in 1..Len(o) PROVE o[i].event = (a + 1) + i
      <4>1. i + 1 \in 1..Taken
        BY <1>0, <1>3, SMTT(60) DEF Counts
      <4>2. worker.outbox[i + 1].event = a + (i + 1)
        BY <1>1, <4>1, Zenon DEF InFlight, Delivering
      <4>3. o[i].event = a + (i + 1)
        BY <1>3, <4>2, Zenon
      <4> QED
        BY <4>3
    <3> QED
      BY <1>3, <1>6, <1>8, <3>1, Zenon DEF Delivering
  <2>3. Batching(a + 1)'
    <3>1. \A i \in 1..Held : a + Taken + i = (a + 1) + (Taken - 1) + i
      BY <1>0 DEF Counts
    <3> QED
      BY <1>1, <1>2, <1>6, <1>8, <3>1, Zenon DEF InFlight, Batching
  <2>4. Receiving(a + 1)'
    <3>1. a + Batched + 1 = (a + 1) + (Batched - 1) + 1
      BY <1>0 DEF Counts
    <3> QED
      BY <1>1, <1>6, <1>8, <3>1, Zenon DEF InFlight, Receiving
  <2>5. Queueing(a + 1)'
    <3>1. a + Batched + Received = (a + 1) + (Batched - 1) + Received
      BY <1>0 DEF Counts
    <3> QED
      BY <1>1, <1>2, <1>8, <3>1, Zenon DEF InFlight, Queueing
  <2>6. Deferring(a + 1)'
    <3>1. Sent - Waiting <= a => Sent - Waiting <= a + 1
      BY <1>0 DEF Counts
    <3> QED
      BY <1>1, <1>2, <1>8, <3>1, Zenon DEF InFlight, Deferring
  <2>7. Writing(a + 1)'
    <3>1. a + Taken = (a + 1) + (Taken - 1)
      BY <1>0 DEF Counts
    <3> QED
      BY <1>1, <1>6, <1>8, <3>1, Zenon DEF InFlight, Writing
  <2> QED
    BY <2>1, <2>2, <2>3, <2>4, <2>5, <2>6, <2>7 DEF InFlight
<1>12. LogKept'
  BY <1>2, <1>6, <1>8, Zenon DEF WriterInv, LogKept
<1>13. AnswersKept'
  <2>1. \A e : Kept(e)' <=> Kept(e)
    BY <1>2, <1>8, Zenon DEF Kept
  <2>2. ASSUME NEW e \in Events, e > Prior, response'[e] = "ok" PROVE Kept(e)'
    <3>1. CASE e = a + 1
      <4>1. 1 \in 1..Taken /\ ~worker.outbox[1].failed
        BY <1>0, <1>3, <1>7, <2>2, <3>1 DEF Counts
      <4> QED
        BY <1>4, <2>1, <3>1, <4>1, Zenon DEF WriterInv, AnswersKept
    <3>2. CASE e # a + 1
      BY <1>7, <2>1, <2>2, <3>2, Zenon DEF WriterInv, AnswersKept
    <3> QED
      BY <3>1, <3>2, Zenon
  <2>3. ASSUME NEW i \in 1..Len(o), ~o[i].failed PROVE Kept(o[i].event)
    <3>1. i + 1 \in 1..Taken
      BY <1>0, <1>3 DEF Counts
    <3> QED
      BY <1>3, <2>3, <3>1, Zenon DEF WriterInv, AnswersKept
  <2>4. \A i \in 1..Taken' : ~worker'.outbox[i].failed => Kept(worker'.outbox[i].event)
    BY <1>3, <1>6, <1>8, <2>3, Zenon
  <2> QED
    BY <2>1, <2>2, <2>4, Zenon DEF AnswersKept
<1>14. Telling'
  <2>1. Told => Told'
    <3>1. \A i \in 1..Waiting : client.deferred[i] \in Events /\ client.deferred[i] = Sent - Waiting + i
      BY <1>1 DEF WriterInv, Types, Clients, InFlight, Deferring, Waiting
    <3>2. response[a + 1] = "open"
      BY <1>1, <1>4 DEF InFlight, Answered
    <3>3. ASSUME NEW i \in 1..Waiting, response[client.deferred[i]] = "failed" PROVE Told'
      BY <1>2, <1>7, <1>8, <3>1, <3>2, <3>3, SMTT(60) DEF Told
    <3>4. ASSUME NEW i \in 1..Taken, worker.outbox[i].failed PROVE Told'
      <4>1. CASE i = 1
        <5> DEFINE j == a + 1 - (Sent - Waiting)
        <5>1. a + 1 <= Sent
          BY <1>0, <1>3 DEF Counts
        <5>2. Sent - Waiting <= a /\ Waiting <= Sent
          BY <1>1, Zenon DEF InFlight, Deferring
        <5>3. j \in 1..Waiting /\ Sent - Waiting + j = a + 1
          BY <1>0, <5>1, <5>2 DEF Counts
        <5>4. response'[client'.deferred[j]] = "failed"
          BY <1>2, <1>7, <3>1, <3>4, <4>1, <5>3, Zenon
        <5> QED
          BY <1>8, <5>3, <5>4, Zenon DEF Told
      <4>2. CASE i # 1
        <5>1. i - 1 \in 1..Len(o) /\ (i - 1) + 1 = i
          BY <1>0, <1>3, <4>2 DEF Counts
        <5>2. o[i - 1] = worker.outbox[i]
          BY <1>3, <5>1, Zenon
        <5> QED
          BY <1>3, <1>6, <1>8, <3>4, <5>1, <5>2, Zenon DEF Told
      <4> QED
        BY <4>1, <4>2, Zenon
    <3> QED
      BY <1>2, <1>6, <1>7, <3>3, <3>4, ZenonT(60) DEF Told
  <2> QED
    BY <1>2, <1>6, <1>7, <1>8, <2>1, Zenon DEF WriterInv, Telling
<1> QED
  BY <1>9, <1>10, <1>11, <1>12, <1>13, <1>14, Zenon DEF WriterInv

\* The worker receives Shutdown, or an event.
LEMMA ReceiveKeeps == ASSUME WriterInv, Receive PROVE WriterInv'
<1>1. PICK a \in Nat : InFlight(a)
  BY Zenon DEF WriterInv
<1>0. Counts(a)
  BY <1>1, Numbers, Zenon
<1> DEFINE command == Head(queue)
<1>2. /\ worker.pc = "loop" /\ queue # <<>> /\ queue \in Seq(Events \cup {Shutdown}) /\ worker \in Workers
      /\ queue' = Tail(queue) /\ UNCHANGED <<kinds, client, response, stream, faults>>
  BY Zenon DEF Receive, WriterInv, Types
<1>3. /\ Len(queue) > 0 /\ queue' \in Seq(Events \cup {Shutdown}) /\ Len(queue') = Len(queue) - 1
      /\ \A i \in 1..Len(queue') : queue'[i] = queue[i + 1]
      /\ command = queue[1] /\ command \in Events \cup {Shutdown}
      /\ Len(queue') = 0 => queue' = <<>>
  BY <1>2
<1>4. worker.then = Nothing /\ Received = 0 /\ worker.outbox = <<>> /\ Taken = 0
  BY <1>0, <1>2, Zenon DEF WriterInv, Places, Received, Taken, Counts
<1>5. Waiting' = Waiting /\ Sent' = Sent /\ Logged' = Logged
  BY <1>2, Zenon DEF Waiting, Sent, Logged
<1>6. PICK b \in Seq(Events), t \in Events \cup {Shutdown, Nothing}, pc \in {"loop", "batch"} :
        /\ worker' = [worker EXCEPT !.batch = b, !.then = t, !.pc = pc]
        /\ \/ /\ command # Shutdown /\ kinds[command] = "delta" /\ ~worker.stopped
              /\ b = Append(worker.batch, command) /\ t = Nothing
           \/ b = worker.batch /\ t = command /\ pc = "batch"
  <2>1. worker.batch \in Seq(Events) /\ worker.pc \in {"loop", "batch"}
    BY <1>2, Zenon DEF Workers
  <2>2. CASE command # Shutdown /\ is_micro_batch_event(kinds[command]) /\ ~worker.stopped
    <3>1. command \in Events /\ Append(worker.batch, command) \in Seq(Events)
      BY <1>3, <2>1, <2>2
    <3>2. PICK pc \in {"loop", "batch"} :
            worker' = [worker EXCEPT !.batch = Append(worker.batch, command), !.pc = pc]
      BY <1>2, <2>1, <2>2, Zenon DEF Receive
    <3>3. worker' = [worker EXCEPT !.batch = Append(worker.batch, command), !.then = Nothing, !.pc = pc]
      BY <1>2, <1>4, <3>1, <3>2, Zenon DEF Workers
    <3> QED
      BY <2>2, <3>1, <3>3, Zenon DEF is_micro_batch_event
  <2>3. CASE ~(command # Shutdown /\ is_micro_batch_event(kinds[command]) /\ ~worker.stopped)
    <3>1. worker' = [worker EXCEPT !.then = command, !.pc = "batch"]
      BY <2>3, Zenon DEF Receive
    <3>2. worker' = [worker EXCEPT !.batch = worker.batch, !.then = command, !.pc = "batch"]
      BY <1>2, <3>1, Zenon DEF Workers
    <3> QED
      BY <1>3, <2>1, <3>2, Zenon
  <2> QED
    BY <2>2, <2>3, Zenon
<1> HIDE DEF command
<1>7. /\ worker' \in Workers /\ worker'.pc = pc /\ worker'.outbox = worker.outbox /\ worker'.batch = b
      /\ worker'.then = t /\ worker'.stopped = worker.stopped
      /\ worker'.previous = worker.previous /\ worker'.pending_error = worker.pending_error
  BY <1>2, <1>6, Zenon DEF Workers
<1>8. Taken' = Taken
  BY <1>7, Zenon DEF Taken
<1>9. Types'
  BY <1>2, <1>3, <1>7, Zenon DEF WriterInv, Types
<1>10. LogKept'
  BY <1>2, <1>5, <1>7, Zenon DEF WriterInv, LogKept
<1>11. AnswersKept'
  <2>1. \A e : Kept(e)' <=> Kept(e)
    BY <1>2, <1>5, Zenon DEF Kept
  <2> QED
    BY <1>2, <1>7, <1>8, <2>1, ZenonT(60) DEF WriterInv, AnswersKept
<1>12. Telling'
  <2>1. Told => Told'
    BY <1>2, <1>5, <1>7, <1>8, Zenon DEF Told
  <2> QED
    BY <1>2, <1>5, <1>7, <2>1, Zenon DEF WriterInv, Telling
<1>13. CASE command = Shutdown
  <2>1. Queued = 0 /\ Len(queue) = 1
    <3>1. Queued = 0
      <4>1. SUFFICES ASSUME Queued > 0 PROVE FALSE
        BY <1>0 DEF Counts
      <4>2. queue[1] = a + Batched + Received + 1
        BY <1>0, <1>1, <4>1 DEF InFlight, Queueing, Counts
      <4>3. a + Batched + Received + 1 > 0
        BY <1>0 DEF Counts
      <4>4. queue[1] = Shutdown
        BY <1>3, <1>13, Zenon
      <4> QED
        BY <4>2, <4>3, <4>4 DEF Shutdown
    <3> QED
      BY <1>2, <1>3, <3>1 DEF Queued
  <2>2. queue' = <<>> /\ Queued' = 0
    BY <1>3, <2>1 DEF Queued
  <2>3. t = Shutdown /\ b = worker.batch /\ pc = "batch"
    BY <1>6, <1>13, Zenon
  <2>4. Received' = 0 /\ Held' = Held /\ Batched' = Batched
    BY <1>0, <1>7, <1>8, <2>3, Zenon DEF Received, Held, Batched, Counts
  <2>5. Places'
    <3>1. client.pc \in {"collect", "done"}
      BY <1>0, <2>1, SMTT(60) DEF WriterInv, Places, Counts
    <3> QED
      BY <1>2, <1>4, <1>7, <2>2, <2>3, <3>1, Zenon DEF WriterInv, Places
  <2>6. InFlight(a)'
    <3>1. Receiving(a)'
      BY <1>0, <1>7, <2>3, Zenon DEF Receiving, Counts
    <3>2. Queueing(a)'
      BY <1>1, <1>4, <1>5, <2>1, <2>2, <2>4, SMTT(60) DEF InFlight, Queueing
    <3>3. Batching(a)'
      BY <1>1, <1>2, <1>7, <1>8, <2>3, <2>4, Zenon DEF InFlight, Batching
    <3> QED
      BY <1>1, <1>2, <1>5, <1>7, <1>8, <3>1, <3>2, <3>3, ZenonT(60)
         DEF InFlight, Answered, Delivering, Deferring, Writing
  <2> QED
    BY <1>9, <1>10, <1>11, <1>12, <2>5, <2>6, Zenon DEF WriterInv
<1>14. CASE command \in Events
  <2>1. command # Shutdown /\ command # Nothing
    BY <1>0, <1>14, Zenon DEF Counts
  <2>2. Queued > 0
    BY <1>0, <1>3, <2>1 DEF Queued, Counts
  <2>3. command = a + Batched + 1
    <3>1. queue[1] = a + Batched + Received + 1
      BY <1>0, <1>1, <2>2 DEF InFlight, Queueing, Counts
    <3> QED
      BY <1>0, <1>3, <1>4, <3>1 DEF Counts
  <2>4. Queued' = Queued - 1 /\ (Queued' < Len(queue') <=> Queued < Len(queue))
    <3>1. CASE Len(queue) = 1
      BY <1>2, <1>3, <2>1, <3>1 DEF Queued
    <3>2. CASE Len(queue) > 1
      <4>1. Len(queue') \in 1..Len(queue') /\ Len(queue') + 1 = Len(queue) /\ queue' # <<>>
        BY <1>0, <1>3, <3>2 DEF Counts
      <4>2. queue'[Len(queue')] = queue[Len(queue)]
        BY <1>3, <4>1, Zenon
      <4> QED
        BY <1>0, <1>2, <1>3, <4>1, <4>2, SMTT(60) DEF Queued, Counts
    <3> QED
      BY <1>0, <1>3, <3>1, <3>2 DEF Counts
  <2>5. \A i \in 1..Queued' : queue'[i] = a + Batched + 1 + i
    <3>1. ASSUME NEW i \in 1..Queued' PROVE queue'[i] = a + Batched + 1 + i
      <4>1. i + 1 \in 1..Queued /\ i \in 1..Len(queue')
        BY <1>0, <1>3, <2>2, <2>4 DEF Counts
      <4>2. queue[i + 1] = a + Batched + Received + (i + 1)
        BY <1>1, <4>1, Zenon DEF InFlight, Queueing
      <4>3. a + Batched + Received + (i + 1) = a + Batched + 1 + i
        BY <1>0, <1>4 DEF Counts
      <4> QED
        BY <1>3, <4>1, <4>2, <4>3, Zenon
    <3> QED
      BY <3>1, Zenon
  <2>6. Sent = a + Batched + 1 + Queued'
    <3>1. Sent = a + Batched + Received + Queued
      BY <1>1, Zenon DEF InFlight, Queueing
    <3> QED
      BY <1>0, <1>4, <2>4, <3>1 DEF Counts
  <2>7. CASE b = worker.batch /\ t = command /\ pc = "batch"
    <3>1. Received' = 1 /\ Held' = Held /\ Batched' = Batched
      BY <1>0, <1>7, <1>8, <1>14, <2>7, Zenon DEF Received, Held, Batched, Counts
    <3>2. Places'
      <4>1. worker.then # Shutdown /\ worker'.then # Shutdown
        BY <1>0, <1>4, <1>7, <2>1, <2>7, ZenonT(60) DEF Counts
      <4> QED
        BY <1>2, <1>4, <1>7, <2>4, <2>7, <4>1, Zenon DEF WriterInv, Places
    <3>3. Receiving(a)' /\ Queueing(a)'
      BY <1>5, <1>7, <2>3, <2>5, <2>6, <2>7, <3>1, Zenon DEF Receiving, Queueing
    <3>4. Batching(a)'
      BY <1>1, <1>2, <1>7, <1>8, <2>7, <3>1, Zenon DEF InFlight, Batching
    <3>5. InFlight(a)'
      BY <1>1, <1>2, <1>5, <1>7, <1>8, <3>3, <3>4, Zenon DEF InFlight, Answered, Delivering, Deferring, Writing
    <3> QED
      BY <1>9, <1>10, <1>11, <1>12, <3>2, <3>5, Zenon DEF WriterInv
  <2>8. CASE /\ kinds[command] = "delta" /\ ~worker.stopped
             /\ b = Append(worker.batch, command) /\ t = Nothing
    <3>1. /\ Len(b) = Held + 1 /\ b[Held + 1] = command /\ \A i \in 1..Held : b[i] = worker.batch[i]
      BY <1>2, <1>14, <2>8 DEF Workers, Held
    <3>2. Received' = 0 /\ Held' = Held + 1 /\ Batched' = Batched + 1
      BY <1>0, <1>7, <1>8, <2>8, <3>1 DEF Received, Held, Batched, Counts
    <3>3. Places'
      BY <1>2, <1>4, <1>7, <2>4, <2>8, ZenonT(60) DEF WriterInv, Places
    <3>4. Receiving(a)'
      BY <1>0, <1>7, <2>8, ZenonT(60) DEF Receiving, Counts
    <3>5. Queueing(a)'
      <4>1. a + (Batched + 1) + 0 = a + Batched + 1
        BY <1>0 DEF Counts
      <4> QED
        BY <1>5, <2>5, <2>6, <3>2, <4>1, Zenon DEF Queueing
    <3>6. Batching(a)'
      <4>1. ASSUME NEW i \in 1..Held + 1 PROVE b[i] = a + Taken + i /\ kinds[b[i]] = "delta"
        <5>1. CASE i = Held + 1
          <6>1. a + Batched + 1 = a + Taken + (Held + 1)
            BY <1>0 DEF Counts
          <6> QED
            BY <2>3, <2>8, <3>1, <5>1, <6>1, Zenon
        <5>2. CASE i \in 1..Held
          BY <1>1, <3>1, <5>2, Zenon DEF InFlight, Batching
        <5> QED
          BY <1>0, <5>1, <5>2 DEF Counts
      <4> QED
        BY <1>2, <1>7, <1>8, <3>2, <4>1, Zenon DEF Batching
    <3>7. InFlight(a)'
      BY <1>1, <1>2, <1>5, <1>7, <1>8, <3>4, <3>5, <3>6, ZenonT(60)
         DEF InFlight, Answered, Delivering, Deferring, Writing
    <3> QED
      BY <1>9, <1>10, <1>11, <1>12, <3>3, <3>7, Zenon DEF WriterInv
  <2> QED
    BY <1>6, <2>7, <2>8, Zenon
<1> QED
  BY <1>3, <1>13, <1>14, Zenon

\* The empty sequence is one of events, and one of answers.
LEMMA Emptied == <<>> \in Seq(Events) /\ <<>> \in Seq(Answers)
  OBVIOUS

\* The worker has the next n events in its outbox: they are on their way as before.
LEMMA AnsweringKeeps ==
  ASSUME WriterInv, NEW a \in Nat, InFlight(a), UNCHANGED <<kinds, client, queue, response>>,
         NEW n \in Nat, Taken' = n, \A i \in 1..n : worker'.outbox[i].event = a + i,
         worker'.batch = <<>>, a + n + Received' = a + Batched + Received,
         worker'.then \in Events => worker'.then = a + n + 1,
         Logged' <= a + n, ~worker'.stopped => worker'.previous = a + n,
         Logged' \in Nat, Logged' >= Logged, stream.synced \in Nat, stream'.synced \in Nat,
         stream'.synced >= stream.synced,
         \A i \in 1..n : ~worker'.outbox[i].failed =>
           a + i <= Logged' /\ (kinds[a + i] = "checkpoint" => stream'.synced >= a + i)
  PROVE  /\ (\E b \in Nat : InFlight(b))' /\ AnswersKept' /\ Queued' = Queued
         /\ Told /\ worker.outbox = <<>> /\ ~worker.pending_error => Told'
<1>0. Counts(a)
  BY Numbers, ZenonT(60)
<1>1. /\ Queued' = Queued /\ Waiting' = Waiting /\ Sent' = Sent
  BY Zenon DEF Queued, Waiting, Sent
<1>2. Held' = 0 /\ Batched' = n
  <2>1. Held' = 0
    BY DEF Held
  <2> QED
    BY <2>1 DEF Batched
<1>3. InFlight(a)'
  <2>1. Answered(a)' /\ Deferring(a)'
    BY <1>1, ZenonT(60) DEF InFlight, Answered, Deferring
  <2>2. Delivering(a)' /\ Batching(a)' /\ Receiving(a)' /\ Writing(a)'
    BY <1>2, SMTT(60) DEF Delivering, Batching, Receiving, Writing
  <2>3. Queueing(a)'
    <3>2. /\ Sent = a + Batched + Received + Queued
          /\ \A i \in 1..Queued : queue[i] = a + Batched + Received + i
      BY Zenon DEF InFlight, Queueing
    <3>3. Queueing(a)' <=>
            /\ Sent = a + n + Received' + Queued
            /\ \A i \in 1..Queued : queue[i] = a + n + Received' + i
      BY <1>1, <1>2, ZenonT(60) DEF Queueing
    <3> QED
      BY <3>2, <3>3, Zenon
  <2> QED
    BY <2>1, <2>2, <2>3, Zenon DEF InFlight
<1>4. AnswersKept'
  <2>1. \A e \in Nat : Kept(e) => Kept(e)'
    <3>1. \A e \in Nat : e <= Logged => e <= Logged'
      BY <1>0, SMTT(60) DEF Counts
    <3>2. \A e \in Nat : stream.synced >= e => stream'.synced >= e
      BY SMTT(60)
    <3> QED
      BY <3>1, <3>2, Zenon DEF Kept
  <2>2. \A e \in Events : e > Prior /\ response'[e] = "ok" => Kept(e)'
    BY <2>1, SMTT(60) DEF WriterInv, AnswersKept, Events
  <2>3. \A i \in 1..Taken' : ~worker'.outbox[i].failed => Kept(worker.outbox[i].event)'
    BY SMTT(60) DEF Kept
  <2> QED
    BY <2>2, <2>3, Zenon DEF AnswersKept
<1>5. ASSUME Told, worker.outbox = <<>>, ~worker.pending_error PROVE Told'
  <2>1. Taken = 0
    BY <1>5 DEF Taken
  <2> QED
    BY <1>1, <1>5, <2>1, SMTT(60) DEF Told
<1> QED
  BY <1>1, <1>3, <1>4, <1>5, Zenon

\* The log with k more events.
LEMMA LogGrows ==
  ASSUME stream.log \in Seq(Nat), NEW events \in Seq(Events), NEW k \in Nat, k <= Len(events),
         \A i \in 1..Len(events) : events[i] = Logged + i,
         stream'.log = stream.log \o SubSeq(events, 1, k), stream.contexts \subseteq stream'.contexts,
         \A i \in 1..Logged : stream.log[i] = i /\ (kinds[i] = "context" => i \in stream.contexts),
         \A i \in 1..k : kinds[events[i]] = "context" => events[i] \in stream'.contexts
  PROVE  /\ stream'.log \in Seq(Nat) /\ Logged' = Logged + k /\ Logged \in Nat
         /\ \A i \in 1..Logged' : stream'.log[i] = i /\ (kinds[i] = "context" => i \in stream'.contexts)
<1> DEFINE p == SubSeq(events, 1, k)
<1>1. p \in Seq(Events) /\ Len(p) = k /\ \A i \in 1..k : p[i] = events[i]
  BY Prefix, Zenon
<1>2. Events \subseteq Nat /\ Logged \in Nat /\ Logged = Len(stream.log)
  BY DEF Events, Logged
<1> HIDE DEF p
<1>3. /\ stream'.log = stream.log \o p /\ stream'.log \in Seq(Nat) /\ Len(stream.log \o p) = Len(stream.log) + k
      /\ \A i \in 1..Len(stream.log) : (stream.log \o p)[i] = stream.log[i]
      /\ \A i \in 1..k : (stream.log \o p)[Len(stream.log) + i] = p[i]
  <2>1. p \in Seq(Nat)
    BY <1>1, Numbered, Zenon
  <2>2. stream'.log = stream.log \o p
    BY Zenon DEF p
  <2>3. /\ stream.log \o p \in Seq(Nat) /\ Len(stream.log \o p) = Len(stream.log) + Len(p)
        /\ \A i \in 1..Len(stream.log) : (stream.log \o p)[i] = stream.log[i]
        /\ \A i \in 1..Len(p) : (stream.log \o p)[Len(stream.log) + i] = p[i]
    BY <2>1
  <2> QED
    BY <1>1, <2>2, <2>3, Zenon
<1>4. Logged' = Logged + k
  BY <1>2, <1>3, Zenon DEF Logged
<1>5. ASSUME NEW i \in 1..Logged + k
      PROVE  stream'.log[i] = i /\ (kinds[i] = "context" => i \in stream'.contexts)
  <2>1. CASE i \in 1..Logged
    BY <1>2, <1>3, <2>1, Zenon
  <2>2. CASE i \notin 1..Logged
    <3>1. i - Logged \in 1..k /\ Logged + (i - Logged) = i /\ i - Logged \in 1..Len(events)
      BY <1>2, <2>2
    <3>2. events[i - Logged] = i
      BY <3>1, Zenon
    <3> QED
      BY <1>1, <1>2, <1>3, <3>1, <3>2, ZenonT(60)
  <2> QED
    BY <2>1, <2>2, Zenon
<1> QED
  BY <1>2, <1>3, <1>4, <1>5, Zenon

\* What an append may do.
LEMMA AppendsResult ==
  ASSUME NEW n \in Nat, NEW result \in Appends(n)
  PROVE  /\ result.kept \in Nat /\ result.kept <= n /\ result.ok \in BOOLEAN /\ result.known \in BOOLEAN
         /\ result.ok => result.kept = n /\ result.known
         /\ ~result.known => result.kept < n
<1>1. CASE result = [ok |-> TRUE, kept |-> n, known |-> TRUE]
  BY <1>1
<1>2. ASSUME NEW k \in 0..n, result = [ok |-> FALSE, kept |-> k, known |-> TRUE]
      PROVE  /\ result.kept \in Nat /\ result.kept <= n /\ ~result.ok /\ result.known
  BY <1>2
<1>3. ASSUME NEW k \in 0..n - 1, result = [ok |-> FALSE, kept |-> k, known |-> FALSE]
      PROVE  /\ result.kept \in Nat /\ result.kept < n /\ ~result.ok /\ ~result.known
  BY <1>3
<1>4. \/ result = [ok |-> TRUE, kept |-> n, known |-> TRUE]
      \/ \E k \in 0..n : result = [ok |-> FALSE, kept |-> k, known |-> TRUE]
      \/ \E k \in 0..n - 1 : result = [ok |-> FALSE, kept |-> k, known |-> FALSE]
  BY Zenon DEF Appends
<1>5. CASE \E k \in 0..n : result = [ok |-> FALSE, kept |-> k, known |-> TRUE]
  BY <1>2, <1>5
<1>6. CASE \E k \in 0..n - 1 : result = [ok |-> FALSE, kept |-> k, known |-> FALSE]
  BY <1>3, <1>6
<1> QED
  BY <1>1, <1>4, <1>5, <1>6, Zenon

\* The answers to a batch.
LEMMA OutboxOf ==
  ASSUME NEW events \in Seq(Events), NEW k \in Nat
  PROVE  /\ Outbox(events, k) \in Seq(Answers) /\ Len(Outbox(events, k)) = Len(events)
         /\ \A i \in 1..Len(events) :
              /\ Outbox(events, k)[i].event = events[i] /\ (Outbox(events, k)[i].appended <=> i <= k)
              /\ Outbox(events, k)[i].failed <=> i > k
<1> DEFINE f(i) == [event |-> events[i], appended |-> i <= k, failed |-> i > k]
<1>1. Outbox(events, k) = [i \in 1..Len(events) |-> f(i)]
  BY DEF Outbox
<1>2. \A i \in 1..Len(events) : f(i) \in Answers
  BY DEF Answers
<1>3. \A i \in 1..Len(events) : f(i).event = events[i] /\ (f(i).appended <=> i <= k) /\ (f(i).failed <=> i > k)
  BY Zenon
<1> HIDE DEF f
<1>4. Len(events) \in Nat
  OBVIOUS
<1>5. /\ [i \in 1..Len(events) |-> f(i)] \in Seq(Answers)
      /\ Len([i \in 1..Len(events) |-> f(i)]) = Len(events)
  BY <1>2, <1>4
<1> QED
  BY <1>1, <1>3, <1>5, ZenonT(60)

\* The worker commits the batch.
LEMMA CommitBatchKeeps == ASSUME WriterInv, CommitBatch PROVE WriterInv'
<1>1. PICK a \in Nat : InFlight(a)
  BY Zenon DEF WriterInv
<1>0. Counts(a)
  BY <1>1, Numbers, Zenon
<1> DEFINE events == worker.batch
<1>2. /\ worker.pc = "batch" /\ worker \in Workers /\ worker.outbox = <<>> /\ Taken = 0 /\ events \in Seq(Events)
      /\ stream \in Streams /\ stream.log \in Seq(Nat) /\ stream.synced \in Nat /\ faults \in Nat
      /\ UNCHANGED <<kinds, client, queue, response>>
  BY Zenon DEF CommitBatch, WriterInv, Types, Places, Taken, Workers, Streams
<1>3. CASE events = <<>> /\ worker' = Resumed([worker EXCEPT !.batch = <<>>]) /\ UNCHANGED <<stream, faults>>
  <2>1. [worker EXCEPT !.batch = <<>>] = worker
    BY <1>2, <1>3, Zenon DEF Workers
  <2> QED
    BY <1>2, <1>3, <2>1, ResumedKeeps, Zenon
<1>4. /\ Held = Len(events) /\ Batched = Held /\ Held \in Nat
      /\ \A i \in 1..Held : events[i] = a + i /\ kinds[events[i]] = "delta"
  <2>1. Batched = Held
    BY <1>0, <1>2 DEF Batched, Counts
  <2>2. \A i \in 1..Held : events[i] = a + Taken + i /\ kinds[events[i]] = "delta"
    BY <1>1, Zenon DEF InFlight, Batching
  <2>3. \A i \in 1..Held : a + Taken + i = a + i
    BY <1>0, <1>2 DEF Counts
  <2> QED
    BY <1>0, <2>1, <2>2, <2>3, Zenon DEF Held, Counts
<1>5. events # <<>> => Held > 0
  BY <1>2 DEF Held
<1>6. client.pc # "done"
  BY <1>2, Zenon DEF WriterInv, Telling
<1> HIDE DEF events
<1>7. CASE /\ events # <<>>
           /\ worker' = [[worker EXCEPT !.batch = <<>>] EXCEPT
                !.pc = "deliver", !.outbox = reject_batch(events), !.stopped = TRUE, !.pending_error = FALSE]
           /\ UNCHANGED <<stream, faults>>
  <2> DEFINE o == Outbox(events, 0)
  <2>1. /\ o \in Seq(Answers) /\ Len(o) = Held
        /\ \A i \in 1..Held : o[i].event = a + i /\ o[i].failed
    <3>1. /\ o \in Seq(Answers) /\ Len(o) = Len(events)
          /\ \A i \in 1..Len(events) : o[i].event = events[i] /\ (o[i].failed <=> i > 0)
      BY <1>2, OutboxOf, SMTT(60)
    <3> QED
      BY <1>4, <3>1
  <2>2. worker' = [[worker EXCEPT !.batch = <<>>] EXCEPT
                !.pc = "deliver", !.outbox = o, !.stopped = TRUE, !.pending_error = FALSE]
    BY <1>7, Zenon DEF reject_batch
  <2> HIDE DEF o
  <2>3. /\ worker' \in Workers /\ worker'.pc = "deliver" /\ worker'.outbox = o /\ worker'.batch = <<>>
        /\ worker'.then = worker.then /\ worker'.stopped
    BY <1>2, <2>1, <2>2, Emptied, Zenon DEF Workers
  <2>4. Taken' = Held /\ Received' = Received /\ Logged' = Logged
    BY <1>7, <2>1, <2>3, Zenon DEF Taken, Received, Logged
  <2>5. Logged <= a + Held /\ Logged >= Logged /\ stream.synced >= stream.synced
    <3>1. Logged <= a + Taken
      BY <1>1, Zenon DEF InFlight, Writing
    <3> QED
      BY <1>0, <1>2, <3>1 DEF Counts
  <2>6. worker'.then \in Events => worker'.then = a + Held + 1
    BY <1>1, <1>4, <2>3, Zenon DEF InFlight, Receiving
  <2>7. (\E b \in Nat : InFlight(b))' /\ AnswersKept' /\ Queued' = Queued
    BY <1>0, <1>1, <1>2, <1>4, <1>7, <2>1, <2>3, <2>4, <2>5, <2>6, AnsweringKeeps, Zenon DEF Counts
  <2>8. Types'
    BY <1>2, <1>7, <2>3, Zenon DEF WriterInv, Types
  <2>9. Places'
    BY <1>2, <2>3, <2>7, ZenonT(60) DEF WriterInv, Places
  <2>10. LogKept'
    BY <1>2, <1>7, <2>3, <2>4, Zenon DEF WriterInv, LogKept
  <2>11. Telling'
    <3>1. 1 \in 1..Held
      BY <1>4, <1>5, <1>7
    <3>2. Told'
      BY <2>1, <2>3, <2>4, <3>1, Zenon DEF Told
    <3> QED
      BY <1>2, <1>6, <2>3, <3>2, Zenon DEF Telling
  <2> QED
    BY <2>7, <2>8, <2>9, <2>10, <2>11, Zenon DEF WriterInv
<1>8. ASSUME NEW result \in Appends(Len(events)),
             events # <<>>, ~worker.pending_error,
             stream' = [stream EXCEPT !.log = @ \o SubSeq(events, 1, result.kept),
                                      !.torn = ~result.known, !.doubtful = @ \/ Unsynced(result)],
             faults' = faults + (IF result.ok THEN 0 ELSE 1),
             worker' = [[worker EXCEPT !.batch = <<>>] EXCEPT
                      !.pc = "deliver",
                      !.outbox = batch_outbox(events, result),
                      !.dirty = @ \/ (result.known /\ result.kept > 0),
                      !.pending_error = ~result.ok /\ result.kept = Len(events),
                      !.stopped = ~result.ok,
                      !.previous = events[Len(events)]]
      PROVE  WriterInv'
  <2> DEFINE k == result.kept
  <2> DEFINE o == batch_outbox(events, result)
  <2>1. /\ k \in Nat /\ k <= Held /\ result.ok \in BOOLEAN /\ result.known \in BOOLEAN
        /\ result.ok => k = Held /\ result.known
        /\ ~result.known => k < Held
    BY <1>4, <1>8, AppendsResult, Zenon
  <2>2. /\ o \in Seq(Answers) /\ Len(o) = Held
        /\ \A i \in 1..Held : o[i].event = a + i /\ (i > k \/ ~result.known => o[i].failed)
    <3>1. ASSUME NEW j \in Nat
          PROVE  /\ Outbox(events, j) \in Seq(Answers) /\ Len(Outbox(events, j)) = Held
                 /\ \A i \in 1..Held : Outbox(events, j)[i].event = a + i /\ (Outbox(events, j)[i].failed <=> i > j)
      <4>1. /\ Outbox(events, j) \in Seq(Answers) /\ Len(Outbox(events, j)) = Len(events)
            /\ \A i \in 1..Len(events) :
                 Outbox(events, j)[i].event = events[i] /\ (Outbox(events, j)[i].failed <=> i > j)
        BY <1>2, OutboxOf, Zenon
      <4> QED
        BY <1>4, <4>1, Zenon
    <3>2. CASE result.known
      <4>1. o = Outbox(events, k)
        BY <3>2, Zenon DEF batch_outbox
      <4> QED
        BY <2>1, <3>1, <3>2, <4>1, SMTT(60)
    <3>3. CASE ~result.known
      <4>1. o = Outbox(events, 0)
        BY <3>3, Zenon DEF batch_outbox, reject_batch
      <4>2. \A i \in 1..Held : i > 0
        BY <1>4
      <4> QED
        BY <3>1, <4>1, <4>2, Zenon
    <3> QED
      BY <2>1, <3>2, <3>3, ZenonT(60)
  <2>3. events[Len(events)] = a + Held /\ a + Held \in Nat
    BY <1>4, <1>5, <1>8
  <2> HIDE DEF o
  <2>4. /\ worker' \in Workers /\ worker'.pc = "deliver" /\ worker'.outbox = o /\ worker'.batch = <<>>
        /\ worker'.then = worker.then /\ worker'.stopped = ~result.ok /\ worker'.previous = a + Held
        /\ worker'.pending_error = (~result.ok /\ k = Held)
    <3>1. PICK dirty \in BOOLEAN, pending \in BOOLEAN, stopped \in BOOLEAN :
            /\ worker' = [worker EXCEPT !.batch = <<>>, !.pc = "deliver", !.outbox = o, !.dirty = dirty,
                           !.pending_error = pending, !.stopped = stopped, !.previous = a + Held]
            /\ pending = (~result.ok /\ k = Held) /\ stopped = ~result.ok
      <4> DEFINE dirty == worker.dirty \/ (result.known /\ result.kept > 0)
      <4>1. dirty \in BOOLEAN /\ (~result.ok /\ k = Held) \in BOOLEAN /\ (~result.ok) \in BOOLEAN
        BY Zenon
      <4>2. worker' = [worker EXCEPT !.batch = <<>>, !.pc = "deliver", !.outbox = o, !.dirty = dirty,
                         !.pending_error = ~result.ok /\ k = Held, !.stopped = ~result.ok, !.previous = a + Held]
        BY <1>2, <1>4, <1>8, <2>3, Zenon DEF o, Workers
      <4> HIDE DEF dirty
      <4> QED
        BY <4>1, <4>2, Zenon
    <3> QED
      BY <1>2, <2>2, <2>3, <3>1, Emptied, ZenonT(60) DEF Workers
  <2>5. ~worker.stopped /\ Logged = a /\ worker.previous = a /\ ~stream.torn /\ ~stream.doubtful
    <3>1. ~worker.stopped
      BY <1>8, Zenon DEF WriterInv, Places, events
    <3>2. worker.previous = a + Taken
      BY <1>1, <3>1, Zenon DEF InFlight, Writing
    <3> QED
      BY <1>0, <1>2, <1>8, <3>1, <3>2, SMTT(60) DEF WriterInv, LogKept, Counts
  <2>6. /\ stream'.log = stream.log \o SubSeq(events, 1, k) /\ stream'.torn = ~result.known
        /\ stream'.contexts = stream.contexts /\ stream'.synced = stream.synced
        /\ stream'.doubtful => ~result.ok
        /\ stream'.doubtful \in BOOLEAN
    BY <1>2, <1>8, <2>5, Zenon DEF Streams, Unsynced
  <2>7. /\ stream'.log \in Seq(Nat) /\ Logged' = Logged + k
        /\ \A i \in 1..Logged' : stream'.log[i] = i /\ (kinds[i] = "context" => i \in stream'.contexts)
    <3>1. \A i \in 1..Len(events) : events[i] = Logged + i
      BY <1>4, <2>5, Zenon
    <3>2. \A i \in 1..k : kinds[events[i]] = "context" => events[i] \in stream'.contexts
      BY <1>4, <2>1
    <3>3. k <= Len(events) /\ stream.contexts \subseteq stream'.contexts
      BY <1>4, <2>1, <2>6, Zenon
    <3>4. \A i \in 1..Logged : stream.log[i] = i /\ (kinds[i] = "context" => i \in stream.contexts)
      BY Zenon DEF WriterInv, LogKept
    <3> QED
      BY <1>2, <2>1, <2>6, <3>1, <3>2, <3>3, <3>4, LogGrows, Zenon
  <2>8. stream' \in Streams
    BY <1>2, <1>8, <2>1, <2>6, <2>7, Zenon DEF Streams
  <2>9. Taken' = Held /\ Received' = Received
    BY <2>2, <2>4, Zenon DEF Taken, Received
  <2>10. /\ Logged' = a + k /\ Logged' \in Nat /\ Logged' <= a + Held /\ Logged' >= Logged
         /\ stream'.synced >= stream.synced
    <3>1. Logged = a /\ Logged' = Logged + k
      BY <2>5, <2>7, Zenon
    <3>2. Logged' = a + k /\ Logged' \in Nat /\ Logged' <= a + Held /\ Logged' >= Logged
      BY <1>4, <2>1, <3>1
    <3>3. stream'.synced >= stream.synced
      BY <1>2, <2>6, SMTT(60)
    <3> QED
      BY <3>2, <3>3, Zenon
  <2>11. worker'.then \in Events => worker'.then = a + Held + 1
    BY <1>1, <1>4, <2>4, Zenon DEF InFlight, Receiving
  <2>12. \A i \in 1..Held : ~o[i].failed =>
           a + i <= Logged' /\ (kinds[a + i] = "checkpoint" => stream'.synced >= a + i)
    <3>1. ASSUME NEW i \in 1..Held, ~o[i].failed PROVE a + i <= a + k /\ kinds[a + i] = "delta"
      BY <1>4, <2>1, <2>2, <3>1, SMTT(60)
    <3> QED
      BY <2>10, <3>1, Zenon
  <2>13. /\ (\E b \in Nat : InFlight(b))' /\ AnswersKept' /\ Queued' = Queued
         /\ Told => Told'
    BY <1>0, <1>1, <1>2, <1>4, <1>8, <2>2, <2>4, <2>6, <2>9, <2>10, <2>11, <2>12, AnsweringKeeps, Zenon DEF Counts
  <2>14. Types'
    <3>1. faults' \in Nat
      BY <1>2, <1>8
    <3> QED
      BY <1>2, <2>4, <2>8, <3>1, ZenonT(60) DEF WriterInv, Types
  <2>15. Places'
    BY <1>2, <2>4, <2>13, ZenonT(60) DEF WriterInv, Places
  <2>16. LogKept'
    <3>1. Logged' >= Prior /\ stream'.synced <= Logged'
      <4>1. Logged >= Prior /\ stream.synced <= Logged
        BY Zenon DEF WriterInv, LogKept
      <4>2. Logged' >= Prior
        BY <1>0, <2>10, <4>1 DEF Counts
      <4>3. stream.synced <= Logged'
        BY <1>0, <1>2, <2>10, <4>1, SMTT(60) DEF Counts
      <4> QED
        BY <2>6, <4>2, <4>3, Zenon
    <3> QED
      BY <1>2, <2>1, <2>4, <2>6, <2>7, <2>10, <3>1, Zenon DEF LogKept
  <2>17. Telling'
    <3>1. CASE result.ok
      <4>1. faults' = faults
        BY <1>2, <1>8, <3>1
      <4> QED
        BY <1>2, <1>6, <2>4, <2>13, <3>1, <4>1, Zenon DEF WriterInv, Telling
    <3>2. CASE ~result.ok
      <4>1. CASE k = Held
        BY <1>2, <1>6, <2>4, <3>2, <4>1, Zenon DEF Telling, Told
      <4>2. CASE k # Held
        <5>1. Held \in 1..Held /\ Held > k
          BY <1>4, <2>1, <4>2
        <5>2. Told'
          BY <2>2, <2>4, <2>9, <5>1, ZenonT(60) DEF Told
        <5> QED
          BY <1>2, <1>6, <2>4, <5>2, ZenonT(60) DEF Telling
      <4> QED
        BY <4>1, <4>2, Zenon
    <3> QED
      BY <2>1, <3>1, <3>2, Zenon
  <2> QED
    BY <2>13, <2>14, <2>15, <2>16, <2>17, Zenon DEF WriterInv
<1> QED
  BY <1>3, <1>7, <1>8, Zenon DEF CommitBatch, events

\* The answer to one rejected event.
LEMMA RejectOne ==
  ASSUME NEW e \in Events
  PROVE  /\ reject_batch(<<e>>) \in Seq(Answers) /\ Len(reject_batch(<<e>>)) = 1
         /\ reject_batch(<<e>>)[1] \in Answers /\ reject_batch(<<e>>)[1].event = e
         /\ reject_batch(<<e>>)[1].failed
<1> DEFINE events == <<e>>
<1>1. events \in Seq(Events) /\ Len(events) = 1 /\ events[1] = e
  OBVIOUS
<1>2. reject_batch(<<e>>) = Outbox(events, 0)
  BY Zenon DEF reject_batch
<1> HIDE DEF events
<1>3. /\ Outbox(events, 0) \in Seq(Answers) /\ Len(Outbox(events, 0)) = Len(events)
      /\ \A i \in 1..Len(events) :
           Outbox(events, 0)[i].event = events[i] /\ (Outbox(events, 0)[i].failed <=> i > 0)
  BY <1>1, OutboxOf, SMTT(60)
<1> QED
  BY <1>1, <1>2, <1>3, SMTT(60)

\* Where the worker is when it commits the event it received.
LEMMA EventReceived ==
  ASSUME WriterInv, NEW a \in Nat, InFlight(a), worker.pc = "commit"
  PROVE  /\ worker.then = a + 1 /\ a + 1 \in Events /\ worker.outbox = <<>> /\ worker.batch = <<>>
         /\ Taken = 0 /\ Batched = 0 /\ Received = 1 /\ client.pc # "done"
         /\ Logged <= a /\ (~worker.stopped => Logged = a /\ worker.previous = a /\ ~stream.torn)
         /\ (~worker.stopped /\ ~worker.pending_error => ~stream.doubtful)
<1>1. Counts(a)
  BY Numbers, Zenon
<1>2. worker.outbox = <<>> /\ worker.batch = <<>> /\ worker.then \in Events /\ client.pc # "done"
  BY ZenonT(60) DEF WriterInv, Places, Telling
<1>3. Taken = 0 /\ Batched = 0 /\ Received = 1
  BY <1>2, SMTT(60) DEF Taken, Batched, Received, Held
<1>4. worker.then = a + Batched + 1 /\ Logged <= a + Taken /\ (~worker.stopped => worker.previous = a + Taken)
  BY <1>2, Zenon DEF InFlight, Receiving, Writing
<1>5. a + Batched + 1 = a + 1 /\ a + Taken = a
  BY <1>1, <1>3 DEF Counts
<1> QED
  BY <1>2, <1>3, <1>4, <1>5, ZenonT(60) DEF WriterInv, LogKept

\* The worker answers the event it received.
LEMMA EventAnswered ==
  ASSUME WriterInv, NEW a \in Nat, InFlight(a), worker.pc = "commit",
         UNCHANGED <<kinds, client, queue, response>>,
         NEW answer \in Answers, answer.event = worker.then,
         worker' \in Workers, worker'.pc = "deliver", Taken' = 1, worker'.outbox[1] = answer,
         worker'.batch = worker.batch, worker'.then = Nothing,
         stream' \in Streams, stream'.synced >= stream.synced, Logged' >= Logged, Logged' <= a + 1,
         ~worker'.stopped => worker'.previous = a + 1,
         ~answer.failed => a + 1 <= Logged' /\ (kinds[a + 1] = "checkpoint" => stream'.synced >= a + 1),
         LogKept', faults' \in Nat,
         faults' > 0 \/ worker'.stopped => answer.failed \/ (faults > 0 /\ ~worker.pending_error)
  PROVE  WriterInv'
<1>1. /\ worker.then = a + 1 /\ a + 1 \in Events /\ worker.outbox = <<>> /\ worker.batch = <<>>
      /\ Batched = 0 /\ Received = 1 /\ client.pc # "done"
  BY EventReceived, ZenonT(60)
<1>2. Nothing \notin Events /\ Nothing # Shutdown /\ Shutdown \notin Events
  BY Numbers, ZenonT(60) DEF Counts
<1>3. Taken' = 1 /\ Received' = 0 /\ a + 1 + Received' = a + Batched + Received
  <2>1. Taken' = 1 /\ Received' = 0
    BY <1>2, Zenon DEF Received
  <2> QED
    BY <1>1, <2>1, SMTT(60)
<1>4. \A i \in 1..1 : worker'.outbox[i] = answer /\ a + i = a + 1
  BY SMTT(60)
<1>5. Logged' \in Nat /\ stream.synced \in Nat /\ stream'.synced \in Nat
  BY SMTT(60) DEF Logged, WriterInv, Types, Streams
<1>6. /\ (\E b \in Nat : InFlight(b))' /\ AnswersKept' /\ Queued' = Queued
      /\ Told /\ worker.outbox = <<>> /\ ~worker.pending_error => Told'
  <2>1. \A i \in 1..1 : worker'.outbox[i].event = a + i
    BY <1>1, <1>4, Zenon
  <2>2. \A i \in 1..1 : ~worker'.outbox[i].failed =>
           a + i <= Logged' /\ (kinds[a + i] = "checkpoint" => stream'.synced >= a + i)
    BY <1>4, Zenon
  <2>3. worker'.batch = <<>> /\ (worker'.then \in Events => worker'.then = a + 1 + 1) /\ 1 \in Nat
    BY <1>1, <1>2, ZenonT(60)
  <2> QED
    BY <1>3, <1>5, <2>1, <2>2, <2>3, AnsweringKeeps, ZenonT(60)
<1>7. Types'
  BY Zenon DEF WriterInv, Types
<1>8. Places'
  BY <1>1, <1>2, <1>6, Zenon DEF WriterInv, Places
<1>9. Telling'
  <2>1. CASE answer.failed
    <3>1. Told'
      BY <1>3, <1>4, <2>1, SMTT(60) DEF Told
    <3> QED
      BY <1>1, <3>1, Zenon DEF Telling
  <2>2. CASE ~answer.failed
    BY <1>1, <1>6, <2>2, Zenon DEF WriterInv, Telling
  <2> QED
    BY <2>1, <2>2, Zenon
<1> QED
  BY <1>6, <1>7, <1>8, <1>9, ZenonT(60) DEF WriterInv

\* The worker commits the event it received.
LEMMA CommitEventKeeps == ASSUME WriterInv, CommitEvent PROVE WriterInv'
<1>1. PICK a \in Nat : InFlight(a)
  BY Zenon DEF WriterInv
<1>0. Counts(a)
  BY <1>1, Numbers, Zenon
<1> DEFINE event == worker.then
<1>2. /\ worker.pc = "commit" /\ worker \in Workers /\ stream \in Streams /\ faults \in Nat
      /\ stream.log \in Seq(Nat) /\ stream.synced \in Nat
      /\ UNCHANGED <<kinds, client, queue, response>>
  BY Zenon DEF CommitEvent, WriterInv, Types, Streams
<1>3. /\ event = a + 1 /\ event \in Events /\ Logged <= a
      /\ (~worker.stopped => Logged = a /\ worker.previous = a /\ ~stream.torn)
      /\ (~worker.stopped /\ ~worker.pending_error => ~stream.doubtful)
  BY <1>1, <1>2, EventReceived, ZenonT(60)
<1> HIDE DEF event
<1>4. ASSUME NEW p \in BOOLEAN, NEW v \in Nat,
             worker' = [worker EXCEPT !.pc = "deliver", !.then = Nothing, !.previous = v,
                          !.outbox = reject_batch(<<event>>), !.pending_error = p, !.stopped = TRUE],
             UNCHANGED stream, faults' \in Nat
      PROVE  WriterInv'
  <2> DEFINE o == reject_batch(<<event>>)
  <2>1. o \in Seq(Answers) /\ Len(o) = 1 /\ o[1] \in Answers /\ o[1].event = event /\ o[1].failed
    BY <1>3, RejectOne, Zenon
  <2> HIDE DEF o
  <2>2. /\ worker' \in Workers /\ worker'.pc = "deliver" /\ worker'.then = Nothing /\ worker'.stopped
        /\ worker'.outbox = o /\ worker'.batch = worker.batch
    BY <1>2, <1>4, <2>1, Zenon DEF Workers, o
  <2>3. Taken' = 1
    BY <2>1, <2>2, Zenon DEF Taken
  <2>4. stream' \in Streams /\ stream'.synced >= stream.synced /\ Logged' >= Logged /\ Logged' <= a + 1
    <3>1. Logged' = Logged
      BY <1>4, Zenon DEF Logged
    <3>2. Logged >= Logged /\ Logged <= a + 1
      BY <1>0, <1>3 DEF Counts
    <3> QED
      BY <1>2, <1>4, <3>1, <3>2
  <2>5. LogKept'
    BY <1>2, <1>4, <2>2, Zenon DEF WriterInv, LogKept, Logged
  <2> QED
    BY <1>1, <1>2, <1>4, <2>1, <2>2, <2>3, <2>4, <2>5, EventAnswered, SMTT(60) DEF event
<1>5. CASE /\ worker' = [worker EXCEPT
                !.pc = "deliver", !.then = Nothing, !.outbox = reject_batch(<<event>>),
                !.pending_error = @ /\ worker.stopped, !.stopped = TRUE]
           /\ UNCHANGED <<stream, faults>>
  <2>1. PICK p \in BOOLEAN : p = (worker.pending_error /\ worker.stopped)
    BY Zenon
  <2>2. worker.previous \in Nat
    BY <1>2, Zenon DEF Workers
  <2>3. worker' = [worker EXCEPT !.pc = "deliver", !.then = Nothing, !.previous = worker.previous,
                     !.outbox = reject_batch(<<event>>), !.pending_error = p, !.stopped = TRUE]
    BY <1>2, <1>5, <2>1, Zenon DEF Workers
  <2> QED
    BY <1>2, <1>4, <1>5, <2>2, <2>3, Zenon
<1>6. CASE ContextFails(event)
  <2>1. worker.pending_error \in BOOLEAN /\ event \in Nat /\ faults' \in Nat
    BY <1>2, <1>3, <1>6 DEF Workers, ContextFails
  <2>2. worker' = [worker EXCEPT !.pc = "deliver", !.then = Nothing, !.previous = event,
                     !.outbox = reject_batch(<<event>>), !.pending_error = worker.pending_error, !.stopped = TRUE]
    BY <1>2, <1>6, Zenon DEF Workers, ContextFails
  <2> QED
    BY <1>4, <1>6, <2>1, <2>2, Zenon DEF ContextFails
<1>7. CASE ~worker.stopped /\ ~worker.pending_error /\ AppendEvent(event)
  <2>1. PICK result \in Appends(1), ok \in Syncs :
          LET appended == result.known /\ result.kept = 1
              checkpoint == appended /\ is_event_sync_checkpoint(kinds[event])
              written == [stream EXCEPT
                !.log = @ \o SubSeq(<<event>>, 1, result.kept), !.torn = ~result.known,
                !.doubtful = @ \/ Unsynced(result),
                !.contexts = @ \cup {e \in {event} : kinds[e] = "context"}]
              failures == (IF result.ok THEN 0 ELSE 1) + (IF checkpoint /\ ~ok THEN 1 ELSE 0)
          IN  /\ checkpoint \/ ok
              /\ faults + failures <= MaxFaults
              /\ faults' = faults + failures
              /\ stream' = IF checkpoint THEN Synced(ok, written) ELSE written
              /\ worker' = [worker EXCEPT
                   !.pc = "deliver", !.then = Nothing, !.previous = event,
                   !.outbox = <<[event |-> event, appended |-> appended, failed |-> failures > 0]>>,
                   !.dirty = (@ \/ appended) /\ ~checkpoint,
                   !.stopped = failures > 0]
    BY <1>7, Zenon DEF AppendEvent
  <2> DEFINE k == result.kept
  <2> DEFINE appended == result.known /\ result.kept = 1
  <2> DEFINE checkpoint == appended /\ is_event_sync_checkpoint(kinds[event])
  <2> DEFINE context == {e \in {event} : kinds[e] = "context"}
  <2> DEFINE written == [stream EXCEPT
                !.log = @ \o SubSeq(<<event>>, 1, result.kept), !.torn = ~result.known,
                !.doubtful = @ \/ Unsynced(result), !.contexts = @ \cup context]
  <2> DEFINE failures == (IF result.ok THEN 0 ELSE 1) + (IF checkpoint /\ ~ok THEN 1 ELSE 0)
  <2> DEFINE failed == failures > 0
  <2> DEFINE answer == [event |-> event, appended |-> appended, failed |-> failed]
  <2>2. /\ checkpoint \/ ok
        /\ faults' = faults + failures
        /\ stream' = IF checkpoint THEN Synced(ok, written) ELSE written
        /\ worker' = [worker EXCEPT
                   !.pc = "deliver", !.then = Nothing, !.previous = event,
                   !.outbox = <<answer>>,
                   !.dirty = (@ \/ appended) /\ ~checkpoint,
                   !.stopped = failed]
    BY <2>1, Zenon
  <2>3. /\ k \in Nat /\ k <= 1 /\ result.ok \in BOOLEAN /\ result.known \in BOOLEAN /\ ok \in BOOLEAN
        /\ result.ok => k = 1 /\ result.known
        /\ ~result.known => k < 1
    BY AppendsResult, Zenon DEF Syncs
  <2>4. /\ failures \in Nat /\ (failed <=> ~result.ok \/ (checkpoint /\ ~ok)) /\ (~failed => failures = 0)
        /\ appended \in BOOLEAN /\ checkpoint \in BOOLEAN /\ failed \in BOOLEAN
    BY <2>3, SMTT(60)
  <2>5. answer \in Answers /\ answer.event = event /\ answer.failed = failed
    BY <1>3, <2>4, Zenon DEF Answers
  <2>6. /\ written.log = stream.log \o SubSeq(<<event>>, 1, k) /\ written.torn = ~result.known
        /\ written.synced = stream.synced /\ written.contexts = stream.contexts \cup context
        /\ written.doubtful => ~result.ok
        /\ written.doubtful \in BOOLEAN /\ written.torn \in BOOLEAN
        /\ DOMAIN written = DOMAIN stream
    BY <1>2, <1>3, <1>7, Zenon DEF Streams, Unsynced
  <2> HIDE DEF answer, failed, failures
  <2>7. stream.synced <= Logged /\ Logged >= Prior /\ Logged = Len(stream.log) /\ Logged = a /\ ~stream.doubtful
    BY <1>3, <1>7, Zenon DEF WriterInv, LogKept, Logged
  <2> DEFINE events == <<event>>
  <2>8. events \in Seq(Events) /\ Len(events) = 1 /\ events[1] = event /\ \A i \in 1..1 : events[i] = event
    BY <1>3
  <2>9. written.log = stream.log \o SubSeq(events, 1, k) /\ written.contexts = stream.contexts \cup context
    BY <2>6, Zenon
  <2>10. context \subseteq Events /\ (kinds[event] = "context" => event \in context)
    BY <1>3, Zenon
  <2> HIDE DEF events, context
  <2>11. written.log \in Seq(Nat) /\ Len(written.log) = Logged + k
    <3>1. SubSeq(events, 1, k) \in Seq(Events) /\ Len(SubSeq(events, 1, k)) = k
      BY <2>3, <2>8, Prefix, Zenon
    <3>2. SubSeq(events, 1, k) \in Seq(Nat)
      BY <3>1 DEF Events
    <3>3. /\ stream.log \o SubSeq(events, 1, k) \in Seq(Nat)
          /\ Len(stream.log \o SubSeq(events, 1, k)) = Len(stream.log) + Len(SubSeq(events, 1, k))
      BY <1>2, <3>2
    <3> QED
      BY <2>7, <2>9, <3>1, <3>3, Zenon
  <2>12. written \in Streams
    <3>1. PICK l, t, d, c : written = [stream EXCEPT !.log = l, !.torn = t, !.doubtful = d, !.contexts = c]
      BY Zenon
    <3> HIDE DEF written
    <3>2. written.log = l /\ written.torn = t /\ written.doubtful = d /\ written.contexts = c
      BY <1>2, <3>1, Zenon DEF Streams
    <3>3. l \in Seq(Nat) /\ t \in BOOLEAN /\ d \in BOOLEAN /\ c \in SUBSET Events
      <4>1. stream.contexts \in SUBSET Events
        BY <1>2, Zenon DEF Streams
      <4> QED
        BY <2>6, <2>9, <2>10, <2>11, <3>2, <4>1, Zenon
    <3> QED
      BY <1>2, <3>1, <3>3, Zenon DEF Streams
  <2> HIDE DEF written
  <2>13. written.synced = stream.synced /\ written.synced <= Len(written.log) /\ written.synced \in Nat
    <3>1. a <= a + k
      BY <2>3
    <3>2. stream.synced <= a + k
      BY <1>2, <2>3, <2>7
    <3> QED
      BY <1>2, <2>6, <2>7, <2>11, <3>2, ZenonT(60)
  <2>14. /\ stream' \in Streams /\ stream'.log = written.log /\ stream'.contexts = written.contexts
         /\ stream'.torn = written.torn /\ stream'.synced >= stream.synced /\ stream'.synced <= Len(written.log)
         /\ checkpoint /\ ~failed => stream'.synced = Len(written.log)
         /\ stream'.doubtful => failed
    <3>1. CASE checkpoint
      <4>1. stream' = Synced(ok, written)
        BY <2>2, <3>1, Zenon
      <4> HIDE DEF checkpoint
      <4>2. ~failed => ok /\ ~written.doubtful
        BY <2>4, <2>6, <3>1, ZenonT(60)
      <4> QED
        BY <2>3, <2>4, <2>6, <2>12, <2>13, <3>1, <4>1, <4>2, SyncOf, ZenonT(60)
    <3>2. CASE ~checkpoint
      <4>1. stream' = written
        BY <2>2, <3>2, Zenon
      <4> HIDE DEF checkpoint
      <4>2. written.doubtful => failed
        BY <2>4, <2>6, Zenon
      <4>3. stream'.synced >= stream.synced /\ stream'.synced <= Len(written.log)
        BY <2>13, <4>1
      <4> QED
        BY <2>12, <3>2, <4>1, <4>2, <4>3, Zenon
    <3> QED
      BY <3>1, <3>2, Zenon
  <2>15. /\ stream'.log \in Seq(Nat) /\ Logged' = Logged + k
         /\ \A i \in 1..Logged' : stream'.log[i] = i /\ (kinds[i] = "context" => i \in stream'.contexts)
    <3>1. \A i \in 1..Len(events) : events[i] = Logged + i
      <4>1. \A i \in 1..1 : Logged + i = a + 1
        BY <2>7
      <4> QED
        BY <1>3, <2>8, <4>1, Zenon
    <3>2. \A i \in 1..k : kinds[events[i]] = "context" => events[i] \in stream'.contexts
      <4>1. \A i \in 1..k : events[i] = event
        BY <2>3, <2>8
      <4> QED
        BY <2>9, <2>10, <2>14, <4>1, Zenon
    <3>3. k <= Len(events) /\ stream.contexts \subseteq stream'.contexts
      BY <2>3, <2>8, <2>9, <2>14, Zenon
    <3>4. \A i \in 1..Logged : stream.log[i] = i /\ (kinds[i] = "context" => i \in stream.contexts)
      BY Zenon DEF WriterInv, LogKept
    <3>5. stream'.log = stream.log \o SubSeq(events, 1, k)
      BY <2>9, <2>14, Zenon
    <3> QED
      BY <1>2, <2>3, <2>8, <3>1, <3>2, <3>3, <3>4, <3>5, LogGrows, Zenon
  <2>16. /\ Logged' = a + k /\ Logged' >= Logged /\ Logged' <= a + 1 /\ Logged' >= Prior
         /\ k = 1 => Logged' = a + 1
    <3>1. Logged = a /\ Logged' = Logged + k /\ Logged >= Prior
      BY <2>7, <2>15, Zenon
    <3> QED
      BY <1>0, <2>3, <3>1, SMTT(60) DEF Counts
  <2>17. /\ worker' \in Workers /\ worker'.pc = "deliver" /\ worker'.then = Nothing /\ worker'.stopped = failed
         /\ worker'.outbox = <<answer>> /\ worker'.batch = worker.batch /\ worker'.previous = a + 1
         /\ worker'.pending_error = worker.pending_error
    <3>1. PICK d \in BOOLEAN : d = ((worker.dirty \/ appended) /\ ~checkpoint)
      BY Zenon
    <3>2. worker' = [worker EXCEPT !.pc = "deliver", !.then = Nothing, !.previous = event,
                       !.outbox = <<answer>>, !.dirty = d, !.stopped = failed]
      BY <2>2, <3>1, Zenon
    <3>3. <<answer>> \in Seq(Answers) /\ event \in Nat /\ failed \in BOOLEAN
      BY <1>3, <2>4, <2>5, SMTT(60)
    <3> HIDE DEF appended, checkpoint
    <3> QED
      BY <1>2, <1>3, <3>2, <3>3, Zenon DEF Workers
  <2>18. Taken' = 1 /\ worker'.outbox[1] = answer
    BY <2>17, SMTT(60) DEF Taken
  <2>19. ~failed => a + 1 <= Logged' /\ (kinds[a + 1] = "checkpoint" => stream'.synced >= a + 1)
    <3>1. SUFFICES ASSUME ~failed PROVE a + 1 <= Logged' /\ (kinds[a + 1] = "checkpoint" => stream'.synced >= a + 1)
      BY Zenon
    <3>2. k = 1 /\ appended
      BY <2>3, <2>4, <3>1, Zenon
    <3>3. Logged' = a + 1
      BY <2>16, <3>2, Zenon
    <3>4. kinds[a + 1] = "checkpoint" => stream'.synced = a + 1
      <4>1. kinds[a + 1] = "checkpoint" => checkpoint
        BY <1>3, <3>2, Zenon DEF is_event_sync_checkpoint
      <4>2. Len(written.log) = a + 1
        BY <2>7, <2>11, <3>2, Zenon
      <4> QED
        BY <2>14, <3>1, <4>1, <4>2, Zenon
    <3> QED
      BY <3>3, <3>4
  <2>20. LogKept'
    <3>1. stream'.synced <= Logged'
      BY <2>11, <2>14, <2>15, Zenon
    <3>2. ~failed => Logged' = worker'.previous /\ ~stream'.torn
      BY <2>3, <2>4, <2>6, <2>14, <2>16, <2>17, ZenonT(60)
    <3> QED
      BY <1>2, <2>14, <2>15, <2>16, <2>17, <3>1, <3>2, ZenonT(60) DEF LogKept
  <2>21. faults' \in Nat /\ (faults' > 0 \/ worker'.stopped => failed \/ (faults > 0 /\ ~worker.pending_error))
    <3>1. CASE failed
      BY <1>2, <2>2, <2>4, <3>1
    <3>2. CASE ~failed
      <4>1. faults' = faults
        BY <1>2, <2>2, <2>4, <3>2
      <4> QED
        BY <1>2, <1>7, <2>17, <3>2, <4>1, ZenonT(60)
    <3> QED
      BY <3>1, <3>2, Zenon
  <2> HIDE DEF appended, checkpoint
  <2> QED
    BY <1>1, <1>2, <1>3, <2>5, <2>14, <2>16, <2>17, <2>18, <2>19, <2>20, <2>21, EventAnswered, Zenon DEF event
<1> QED
  BY <1>5, <1>6, <1>7, Zenon DEF CommitEvent, event

-----------------------------------------------------------------------------
(* The whole writer. *)

\* A resumed Run starts from the events it holds.
LEMMA WriterInitially == WriterInit => WriterInv
<1> SUFFICES ASSUME WriterInit PROVE WriterInv
  BY Zenon
<1>1. Prior \in Nat /\ MaxEvents \in Nat /\ Prior <= MaxEvents
  BY EventWriterAssumption, Zenon
<1>2. /\ kinds \in Seq({"delta", "context", "plain", "checkpoint"}) /\ Len(kinds) = Prior
      /\ \A i \in 1..Prior : kinds[i] = "plain"
  <2>1. kinds = [n \in 1..Prior |-> "plain"]
    BY Zenon DEF WriterInit
  <2> QED
    BY <1>1, <2>1
<1>3. /\ client \in Clients /\ client.pc = "ready" /\ client.deferred = <<>> /\ ~client.told
  <2>1. client = [pc |-> "ready", deferred |-> <<>>, failed |-> FALSE, told |-> FALSE]
    BY Zenon DEF WriterInit
  <2> QED
    BY <2>1, Emptied, Zenon DEF Clients
<1>4. /\ worker \in Workers /\ worker.pc = "loop" /\ worker.outbox = <<>> /\ worker.batch = <<>>
      /\ worker.then = Nothing /\ ~worker.stopped /\ ~worker.pending_error /\ worker.previous = Prior
  <2>1. worker = [pc |-> "loop", batch |-> <<>>, outbox |-> <<>>, step |-> "watermark",
                  then |-> Nothing, pending_error |-> FALSE, stopped |-> FALSE,
                  dirty |-> FALSE, previous |-> Prior]
    BY Zenon DEF WriterInit
  <2> QED
    BY <1>1, <2>1, Emptied, ZenonT(60) DEF Workers
<1>5. /\ stream.log \in Seq(Nat) /\ Len(stream.log) = Prior /\ \A i \in 1..Prior : stream.log[i] = i
      /\ stream \in Streams /\ ~stream.torn /\ stream.synced = Prior /\ ~stream.doubtful
  <2> DEFINE l == [n \in 1..Prior |-> n]
  <2>1. l \in Seq(Nat) /\ Len(l) = Prior /\ \A i \in 1..Prior : l[i] = i
    BY <1>1
  <2> HIDE DEF l
  <2>2. stream = [log |-> l, torn |-> FALSE, synced |-> Prior, doubtful |-> FALSE, contexts |-> {}]
    BY Zenon DEF WriterInit, l
  <2> QED
    BY <1>1, <2>1, <2>2, Zenon DEF Streams
<1>6. /\ response \in [Events \cup {Shutdown} -> Outcomes] /\ response[Shutdown] = "open"
      /\ \A e \in Events : response[e] = (IF e \in 1..Prior THEN "ok" ELSE "open")
  <2>1. response = [e \in Events \cup {Shutdown} |-> IF e \in 1..Prior THEN "ok" ELSE "open"]
    BY Zenon DEF WriterInit
  <2> QED
    BY <2>1 DEF Outcomes, Shutdown
<1>7. queue = <<>> /\ queue \in Seq(Events \cup {Shutdown}) /\ faults = 0
  <2>1. queue = <<>> /\ faults = 0
    BY Zenon DEF WriterInit
  <2> QED
    BY <2>1
<1>8. Nothing \notin Events /\ Nothing # Shutdown
  BY <1>1 DEF Nothing, Shutdown, Events
<1>9. /\ Sent = Prior /\ Queued = 0 /\ Received = 0 /\ Taken = 0 /\ Held = 0 /\ Batched = 0
      /\ Waiting = 0 /\ Logged = Prior
  BY <1>2, <1>3, <1>4, <1>5, <1>7, <1>8, SMTT(60) DEF Sent, Queued, Received, Taken, Held, Batched, Waiting, Logged
<1>10. Types
  BY <1>1, <1>2, <1>3, <1>4, <1>5, <1>6, <1>7, ZenonT(60) DEF Types
<1>11. Places
  BY <1>3, <1>4, <1>6, <1>7, <1>8, <1>9, SMTT(60) DEF Places
<1>12. InFlight(Prior)
  <2>1. Answered(Prior)
    BY <1>1, <1>6 DEF Answered, Events
  <2> QED
    BY <1>1, <1>4, <1>8, <1>9, <2>1, SMTT(60)
       DEF InFlight, Delivering, Batching, Receiving, Queueing, Deferring, Writing
<1>13. LogKept
  BY <1>1, <1>2, <1>4, <1>5, <1>9, SMTT(60) DEF LogKept
<1>14. AnswersKept
  BY <1>1, <1>6, <1>9 DEF AnswersKept, Events
<1>15. Telling
  BY <1>3, <1>4, <1>7, SMTT(60) DEF Telling
<1> QED
  BY <1>1, <1>10, <1>11, <1>12, <1>13, <1>14, <1>15, Zenon DEF WriterInv

\* Whoever takes the wake-up leaves the writer's own state alone.
LEMMA UntouchedKeeps ==
  ASSUME WriterInv, UNCHANGED <<kinds, client, queue, response, worker, stream, faults>>
  PROVE  WriterInv'
<1>1. /\ Queued' = Queued /\ Received' = Received /\ Taken' = Taken /\ Batched' = Batched
      /\ Held' = Held /\ Logged' = Logged /\ Waiting' = Waiting /\ Sent' = Sent
  BY Zenon DEF Queued, Received, Taken, Batched, Held, Logged, Waiting, Sent
<1>2. Types' /\ Places'
  BY <1>1, ZenonT(60) DEF WriterInv, Types, Places
<1>3. \A a : InFlight(a)' <=> InFlight(a)
  BY <1>1, ZenonT(60) DEF InFlight, Answered, Delivering, Batching, Receiving, Queueing, Deferring, Writing
<1>4. LogKept' /\ AnswersKept'
  BY <1>1, ZenonT(60) DEF WriterInv, LogKept, AnswersKept, Kept
<1>5. Telling'
  BY <1>1, ZenonT(60) DEF WriterInv, Telling, Told
<1> QED
  BY <1>2, <1>3, <1>4, <1>5, Zenon DEF WriterInv

\* Every step of the two threads keeps the invariant.
LEMMA WriterStep == WriterInv /\ [WriterNext]_writer => WriterInv'
<1> SUFFICES ASSUME WriterInv, [WriterNext]_writer PROVE WriterInv'
  BY Zenon
<1>1. CASE Client
  BY <1>1, CommitKeeps, SendKeeps, TakeResponseKeeps, DrainedKeeps, FinishKeeps, SendShutdownKeeps, JoinedKeeps, Zenon
     DEF Client, ClientProgress
<1>2. CASE Worker
  BY <1>2, BatchDueKeeps, TickKeeps, ReceiveKeeps, CommitBatchKeeps, CommitEventKeeps, NotifyKeeps,
     AcknowledgeKeeps, DeliveredKeeps, ShutDownKeeps, Zenon
     DEF Worker
<1>3. CASE UNCHANGED writer
  BY <1>3, UntouchedKeeps, Zenon DEF writer
<1> QED
  BY <1>1, <1>2, <1>3, Zenon DEF WriterNext

\* The writer alone keeps its invariant, whoever takes the wake-ups.
THEOREM WriterInvariance == WriterSpec => []WriterInv
  BY WriterInitially, WriterStep, PTL DEF WriterSpec

\* The log is the sequence of events as they were sent.
LEMMA InOrder == WriterInv => LogInOrder
<1> SUFFICES ASSUME WriterInv PROVE LogInOrder
  BY Zenon
<1>1. DOMAIN stream.log = 1..Logged
  BY DEF WriterInv, Types, Streams, Logged
<1> QED
  BY <1>1, Zenon DEF WriterInv, LogKept, LogInOrder

\* A caller that was told of no error: the worker never stopped, and holds the last event.
LEMMA CleanFinish ==
  ASSUME WriterInv, client.pc = "done", ~client.told
  PROVE  /\ ~Told /\ ~worker.stopped /\ worker.pc = "exit" /\ response[Shutdown] = "ok" /\ Taken = 0
         /\ worker.previous = Len(kinds)
<1>1. PICK a \in Nat : InFlight(a)
  BY Zenon DEF WriterInv
<1>2. Counts(a)
  BY <1>1, Numbers, Zenon
<1>3. worker.pc = "exit" /\ client.deferred = <<>> /\ response[Shutdown] = "ok"
  BY Zenon DEF WriterInv, Telling, Types, Outcomes, Shutdown
<1>4. ~worker.pending_error /\ worker.outbox = <<>>
  BY <1>3, Zenon DEF WriterInv, Places
<1>5. Taken = 0 /\ Waiting = 0 /\ Sent = Len(kinds)
  BY <1>3, <1>4, Zenon DEF Taken, Waiting, Sent
<1>6. ~Told
  BY <1>3, <1>4, <1>5 DEF Told
<1>7. ~worker.stopped
  BY <1>6, Zenon DEF WriterInv, Telling
<1>8. worker.previous = a + Taken /\ Sent - Waiting <= a
  BY <1>1, <1>7, Zenon DEF InFlight, Writing, Deferring
<1>9. worker.previous = Len(kinds)
  BY <1>2, <1>5, <1>8 DEF Counts
<1> QED
  BY <1>3, <1>5, <1>6, <1>7, <1>9, Zenon

\* What the writer answered is so.
LEMMA Durable == WriterInv => DurabilityTold
<1> SUFFICES ASSUME WriterInv PROVE DurabilityTold
  BY Zenon
<1>1. PICK a \in Nat : InFlight(a)
  BY Zenon DEF WriterInv
<1>2. Counts(a)
  BY <1>1, Numbers, Zenon
<1>3. AcknowledgedKept
  <2>1. ASSUME NEW e \in Prior + 1..MaxEvents, response[e] = "ok"
        PROVE  /\ \E i \in DOMAIN stream.log : stream.log[i] = e
               /\ is_event_sync_checkpoint(kinds[e]) => stream.synced >= e
    <3>1. e \in Events /\ e > Prior /\ e \in Nat /\ e > 0
      BY <1>2 DEF Counts, Events
    <3>2. Kept(e)
      BY <2>1, <3>1, Zenon DEF WriterInv, AnswersKept
    <3>3. e \in 1..Logged /\ DOMAIN stream.log = 1..Logged
      BY <1>2, <3>1, <3>2, SMTT(60) DEF Kept, Counts, WriterInv, Types, Streams, Logged
    <3>4. stream.log[e] = e
      BY <3>3, Zenon DEF WriterInv, LogKept
    <3> QED
      BY <3>2, <3>3, <3>4, Zenon DEF Kept, is_event_sync_checkpoint
  <2> QED
    BY <2>1, Zenon DEF AcknowledgedKept
<1>4. FaultsReported
  BY CleanFinish, Zenon DEF FaultsReported, WriterInv, Telling
<1>5. CleanFinishDurable
  <2>1. SUFFICES ASSUME client.pc = "done", ~client.told
                 PROVE  Len(stream.log) = Len(kinds) /\ ~stream.torn /\ stream.synced = Len(kinds)
    BY Zenon DEF CleanFinishDurable
  <2>2. ~worker.stopped /\ worker.pc = "exit" /\ response[Shutdown] = "ok" /\ worker.previous = Len(kinds)
    BY <2>1, CleanFinish, Zenon
  <2>3. stream.synced = Logged /\ ~stream.torn /\ Logged = worker.previous
    BY <2>2, Zenon DEF WriterInv, Telling, LogKept
  <2> QED
    BY <2>2, <2>3, Zenon DEF Logged
<1> QED
  BY <1>3, <1>4, <1>5, Zenon DEF DurabilityTold
=============================================================================

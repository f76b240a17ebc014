------------------------- MODULE RunRecordsProofs -------------------------
(***************************************************************************)
(* The records of a Run agree, whatever is crashed, cancelled, reconciled  *)
(* and resumed: the recovery snapshot repeats the Run Log, no Event is     *)
(* shown before the snapshot holds its cause, and the history entry closes *)
(* a Run whose terminal record, last Event and outcome are the same.       *)
(***************************************************************************)
EXTENDS ProductiveRunProofs

\* The messages among the first n Events of a stream.
MessagesOf(log, n) == {i \in 1..n : log[i][1] = "message.completed"}

\* The Event and context streams, and how far the process has replayed them:
\* before its end the prefix is what the process found, after it the process
\* has committed every Event; a manifest without its message is completed next.
StreamsAgree ==
  /\ synced <= Len(events)
  /\ \A i \in 1..Len(events) : events[i][1] = "message.completed" => i <= synced
  /\ contexts \in {Messages(events), Messages(events) + 1}
  /\ proc.pc # "down" =>
       /\ IF proc.emitted < proc.prefix THEN Len(events) = proc.prefix ELSE proc.emitted = Len(events)
       /\ proc.manifest = Cardinality(MessagesOf(events, proc.emitted))
       /\ IF PrefixReplayed THEN contexts = Messages(events) \/ proc.pc = "message.completed"
                            ELSE contexts = proc.manifests

Records == {recovery[i] : i \in DOMAIN recovery}

\* What was recorded has the recorded result, nothing is recorded twice or
\* after the end, and at most one intent has no record.
Snapshot ==
  /\ \A i \in DOMAIN recovery :
       /\ recovery[i][1] = "attempt" =>
            /\ recovery[i][2] \in intents /\ recovery[i][3] # "none"
            /\ results[recovery[i][2]] = recovery[i][3]
       /\ recovery[i][1] = "terminal" => i = Len(recovery)
       /\ \A j \in DOMAIN recovery : i # j => recovery[i] # recovery[j]
  /\ \E a \in Attempts : intents \subseteq RecordedAttempts \cup {a}

\* The process holds an attempt of its own.
Held == Intending \cup InAttempt \cup {"attempt.record"}

\* The last Phase and transition whose record a process has passed.
Passing == {"phase.completed", "transition", "transition.ensure"}
PhaseMark(p) == p.phase + IF p.pc \in Passing THEN 1 ELSE 0
TransitionMark(p) == p.phase + IF p.pc = "transition.ensure" THEN 1 ELSE 0

\* A process that has come this far has passed the record.
Behind(r, p) ==
  /\ r[1] = "attempt" => r[2][2] <= IF r[2][1] = "provider" THEN p.turns ELSE p.tools
  /\ r[1] = "phase" => r[2] <= PhaseMark(p)
  /\ r[1] = "transition" => r[2] <= TransitionMark(p)
  /\ r[1] = "flow" => p.pc = "flow.completed"

\* The records the process has replayed or appended.
Seen == IF Replaying THEN proc.recorded ELSE Len(recovery)

\* What the process has seen of the snapshot lies behind it; the attempts it
\* has not seen are among those it found completed, except one of its own.
Progress ==
  /\ proc.pc # "down" =>
       /\ proc.recorded <= proc.records /\ proc.records <= Len(recovery)
       /\ Replaying => proc.records = Len(recovery)
       /\ proc.consumed \subseteq RecordedAttempts
  /\ proc.pc \in Working \cup InAttempt => \A i \in 1..Seen : Behind(recovery[i], proc)
  /\ proc.pc \in Working \ Held => intents \subseteq proc.completed \cup RecordedAttempts
  /\ proc.pc \in Held =>
       /\ ensure_live_append
       /\ intents \subseteq RecordedAttempts \cup {proc.cur} /\ proc.cur \notin RecordedAttempts
       /\ proc.cur[2] = IF proc.cur[1] = "provider" THEN proc.turns ELSE proc.tools
  /\ proc.pc = "attempt.record" => proc.cur \in intents /\ results[proc.cur] = proc.outcome

\* The last Event of a Session.
SessionEnd(error) == IF error = "none" THEN <<"session.completed">> ELSE <<"session.failed", error>>

\* The snapshot ends with the process's outcome, bound to n Events.
Bound(n) ==
  /\ recovery # <<>>
  /\ recovery[Len(recovery)] = <<"terminal", proc.error # "none", n>>

\* The snapshot holds the cause of the Event the process is about to emit.
Grounds ==
  /\ proc.pc = "message" => <<"attempt", <<"provider", proc.turns>>, proc.outcome>> \in Records
  /\ proc.pc \in {"tool.restarted", "tool.end"} /\ proc.outcome = "ok" =>
       <<"attempt", <<"tool", proc.tools>>, "ok">> \in Records
  /\ proc.pc = "phase.completed" => <<"phase", proc.phase + 1>> \in Records
  /\ proc.pc = "flow.completed" => <<"flow">> \in Records
  /\ proc.pc = "terminal.event" => Bound(proc.emitted + 1)
  /\ proc.pc = "finish" /\ ~proc.recovery_failed /\ ~proc.event_commit_failed =>
       /\ Bound(proc.emitted) /\ proc.emitted \in 1..Len(events)
       /\ events[proc.emitted] = SessionEnd(proc.error)

\* A Run is in the history only when nothing more is written.
Closed == history # "none" => proc.pc \in {"return", "down"} /\ HistoryClosesRun

RInv == StreamsAgree /\ Snapshot /\ Progress /\ Grounds /\ EventsFollowSnapshot /\ Closed

-----------------------------------------------------------------------------
(* The streams. *)

\* One Event more is one message more, or none: what the lemmas need to know
\* of Cardinality.  It is proved below, where the theorems on finite sets are.
Counting ==
  \A log :
    /\ Cardinality(MessagesOf(log, 0)) = 0
    /\ \A n \in Nat :
         /\ Cardinality(MessagesOf(log, n)) \in Nat
         /\ Cardinality(MessagesOf(log, n + 1)) =
              Cardinality(MessagesOf(log, n)) + IF log[n + 1][1] = "message.completed" THEN 1 ELSE 0

\* The count looks at the first n Events only.
LEMMA CountSame ==
  ASSUME NEW log, NEW log1, NEW n \in Nat, \A i \in 1..n : log1[i] = log[i]
  PROVE  MessagesOf(log1, n) = MessagesOf(log, n)
BY DEF MessagesOf

LEMMA CountAll ==
  ASSUME Counting, NEW log \in Seq(EventRecords)
  PROVE  Messages(log) = Cardinality(MessagesOf(log, Len(log))) /\ Messages(log) \in Nat
<1>1. DOMAIN log = 1..Len(log) /\ Len(log) \in Nat
  OBVIOUS
<1>2. Messages(log) = Cardinality(MessagesOf(log, Len(log)))
  BY <1>1 DEF Messages, MessagesOf
<1> QED
  BY <1>1, <1>2, Zenon DEF Counting

\* What the append of an Event makes of the streams.
LEMMA CountAppend ==
  ASSUME Counting, NEW e \in EventRecords, events \in Seq(EventRecords), events' = Append(events, e)
  PROVE  /\ Len(events') = Len(events) + 1 /\ events'[Len(events) + 1] = e
         /\ \A i \in 1..Len(events) : events'[i] = events[i]
         /\ Messages(events') = Messages(events) + IF e[1] = "message.completed" THEN 1 ELSE 0
         /\ Messages(events') = Cardinality(MessagesOf(events', Len(events) + 1))
<1>1. /\ Len(events') = Len(events) + 1 /\ events'[Len(events) + 1] = e /\ Len(events) \in Nat
      /\ \A i \in 1..Len(events) : events'[i] = events[i]
      /\ events' \in Seq(EventRecords)
  OBVIOUS
<1>2. MessagesOf(events', Len(events)) = MessagesOf(events, Len(events))
  BY <1>1, CountSame
<1>3. /\ Messages(events) = Cardinality(MessagesOf(events, Len(events)))
      /\ Messages(events') = Cardinality(MessagesOf(events', Len(events) + 1))
  BY <1>1, CountAll
<1>4. Cardinality(MessagesOf(events', Len(events) + 1)) =
        Cardinality(MessagesOf(events', Len(events))) + IF e[1] = "message.completed" THEN 1 ELSE 0
  <2>1. Cardinality(MessagesOf(events', Len(events) + 1)) =
          Cardinality(MessagesOf(events', Len(events)))
            + IF events'[Len(events) + 1][1] = "message.completed" THEN 1 ELSE 0
    BY <1>1, Zenon DEF Counting
  <2> QED
    BY <1>1, <2>1, Zenon
<1> QED
  BY <1>1, <1>2, <1>3, <1>4

\* The fields that the emission of an Event leaves alone.
OtherFields ==
  /\ proc'.phase = proc.phase /\ proc'.turns = proc.turns /\ proc'.tools = proc.tools
  /\ proc'.cur = proc.cur /\ proc'.outcome = proc.outcome /\ proc'.error = proc.error
  /\ proc'.records = proc.records /\ proc'.recorded = proc.recorded
  /\ proc'.completed = proc.completed /\ proc'.consumed = proc.consumed
  /\ proc'.prefix = proc.prefix /\ proc'.manifests = proc.manifests
  /\ proc'.recovery_failed = proc.recovery_failed

One(e) == IF e[1] = "message.completed" THEN 1 ELSE 0

\* emit_and_commit replays the Event, appends it, writes the manifest of a
\* message, or refuses.
Commits(e, next) ==
  /\ proc'.pc = next /\ proc'.event_commit_failed = proc.event_commit_failed
  /\ proc'.emitted = proc.emitted + 1 /\ proc'.manifest = proc.manifest + One(e)
Replays(e, next) ==
  /\ Commits(e, next) /\ UNCHANGED <<events, synced, contexts>>
  /\ proc.emitted < proc.prefix /\ events[proc.emitted + 1] = e
Appends(e, next) ==
  /\ Commits(e, next) /\ events' = Append(events, e) /\ UNCHANGED contexts
  /\ synced' = IF is_event_sync_checkpoint(e) THEN Len(events) + 1 ELSE synced
  /\ proc.emitted >= proc.prefix
  /\ IF PrefixReplayed THEN e[1] = "message.completed" => contexts # Messages(events)
                       ELSE e[1] = "message.completed" /\ proc.manifest + 1 = proc.manifests
WritesManifest(e) ==
  /\ e[1] = "message.completed" /\ PrefixReplayed /\ contexts = Messages(events)
  /\ contexts' = contexts + 1 /\ UNCHANGED <<proc, events, synced>>
Refuses ==
  /\ ~PrefixReplayed
  /\ proc'.event_commit_failed /\ proc'.emitted = proc.emitted /\ proc'.manifest = proc.manifest
  /\ proc'.pc = (IF proc.pc \in {"start", "terminal.event"} THEN "finish" ELSE "claim")
  /\ UNCHANGED <<events, synced, contexts>>

LEMMA EmitCases ==
  ASSUME IInv, NEW e, NEW next, EmitStep(e, next)
  PROVE  /\ OtherFields
         /\ Replays(e, next) \/ Appends(e, next) \/ WritesManifest(e) \/ Refuses
<1>0. /\ proc \in Processes /\ proc.emitted \in Nat /\ proc.prefix \in Nat
      /\ proc.manifest \in Nat /\ proc.manifests \in Nat
  BY DEF IInv, Types, Processes
<1>1. ASSUME NEW n \in Nat, Committed(next, n)
      PROVE  /\ OtherFields /\ proc'.pc = next /\ proc'.event_commit_failed = proc.event_commit_failed
             /\ proc'.emitted = proc.emitted + 1 /\ proc'.manifest = proc.manifest + n
  BY <1>0, <1>1 DEF Committed, Processes, OtherFields
<1>2. ASSUME EventDiverges, ~PrefixReplayed PROVE OtherFields /\ Refuses
  BY <1>0, <1>2 DEF EventDiverges, Processes, OtherFields, Refuses
<1>3. Emit(e, next) /\ One(e) \in Nat
  BY DEF EmitStep, One
<1>4. CASE proc.emitted < proc.prefix
  <2>1. ~(proc.emitted >= proc.prefix) /\ ~PrefixReplayed
    BY <1>0, <1>4 DEF PrefixReplayed
  <2>2. \/ /\ Committed(next, One(e)) /\ UNCHANGED <<events, synced, contexts>>
           /\ events[proc.emitted + 1] = e
        \/ EventDiverges
    BY <1>3, <1>4, <2>1 DEF Emit, One
  <2> QED
    BY <1>1, <1>2, <1>3, <1>4, <2>1, <2>2 DEF Replays, Commits
<1>5. CASE proc.emitted >= proc.prefix /\ proc.manifest < proc.manifests
  <2>1. ~(proc.emitted < proc.prefix) /\ ~PrefixReplayed
    BY <1>0, <1>5 DEF PrefixReplayed
  <2>2. \/ /\ AppendEvent(e) /\ Committed(next, One(e)) /\ UNCHANGED contexts
           /\ e[1] = "message.completed" /\ proc.manifest + 1 = proc.manifests
        \/ EventDiverges
    BY <1>3, <1>5, <2>1 DEF Emit, One
  <2> QED
    BY <1>1, <1>2, <1>3, <1>5, <2>1, <2>2 DEF Appends, Commits, AppendEvent
<1>6. CASE PrefixReplayed
  <2>1. /\ ~(proc.emitted < proc.prefix) /\ ~(proc.manifest < proc.manifests)
        /\ proc.emitted >= proc.prefix
    BY <1>0, <1>6 DEF PrefixReplayed
  <2>2. \/ /\ AppendEvent(e) /\ Committed(next, One(e)) /\ UNCHANGED contexts
           /\ e[1] = "message.completed" => contexts # Messages(events)
        \/ WritesManifest(e)
    BY <1>3, <1>6, <2>1 DEF Emit, One, WritesManifest
  <2>3. WritesManifest(e) => OtherFields
    BY DEF WritesManifest, OtherFields
  <2> QED
    BY <1>1, <1>3, <1>6, <2>1, <2>2, <2>3 DEF Appends, Commits, AppendEvent
<1> QED
  BY <1>0, <1>4, <1>5, <1>6 DEF PrefixReplayed

\* The streams go on agreeing.
LEMMA EmitStreams ==
  ASSUME Counting, IInv, StreamsAgree, proc.pc # "down", NEW e \in EventRecords, NEW next, next # "down",
         OtherFields, Replays(e, next) \/ Appends(e, next) \/ WritesManifest(e) \/ Refuses,
         e[1] = "message.completed" <=> proc.pc = "message.completed"
  PROVE  StreamsAgree'
<1>0. /\ proc.emitted \in Nat /\ proc.prefix \in Nat /\ proc.manifest \in Nat /\ proc.manifests \in Nat
      /\ events \in Seq(EventRecords) /\ Len(events) \in Nat /\ synced \in Nat /\ contexts \in Nat
  BY DEF IInv, Types, Processes
<1>1. /\ Messages(events) = Cardinality(MessagesOf(events, Len(events))) /\ Messages(events) \in Nat
      /\ contexts = Messages(events) \/ contexts = Messages(events) + 1
      /\ synced <= Len(events)
      /\ \A i \in 1..Len(events) : events[i][1] = "message.completed" => i <= synced
      /\ IF proc.emitted < proc.prefix THEN Len(events) = proc.prefix ELSE proc.emitted = Len(events)
      /\ proc.manifest = Cardinality(MessagesOf(events, proc.emitted))
      /\ IF PrefixReplayed THEN contexts = Messages(events) \/ proc.pc = "message.completed"
                           ELSE contexts = proc.manifests
  BY <1>0, CountAll DEF StreamsAgree
<1>2. CASE Replays(e, next)
  <2>1. proc'.manifest = Cardinality(MessagesOf(events', proc'.emitted))
    <3>1. Cardinality(MessagesOf(events, proc.emitted + 1)) =
            Cardinality(MessagesOf(events, proc.emitted))
              + IF events[proc.emitted + 1][1] = "message.completed" THEN 1 ELSE 0
      BY <1>0, Zenon DEF Counting
    <3> QED
      BY <1>1, <1>2, <3>1, Zenon DEF Replays, Commits, One
  <2>2. IF proc'.emitted < proc'.prefix THEN Len(events') = proc'.prefix ELSE proc'.emitted = Len(events')
    BY <1>0, <1>1, <1>2 DEF Replays, Commits, OtherFields
  <2>3. ~PrefixReplayed
    BY <1>0, <1>2 DEF Replays, PrefixReplayed
  <2>4. PrefixReplayed' => contexts' = Messages(events')
    BY <1>0, <1>1, <1>2, <2>1, <2>2, <2>3 DEF Replays, Commits, OtherFields, PrefixReplayed
  <2>5. contexts' = proc'.manifests
    BY <1>1, <1>2, <2>3 DEF Replays, OtherFields
  <2> QED
    BY <1>1, <1>2, <2>1, <2>2, <2>4, <2>5 DEF Replays, StreamsAgree
<1>3. CASE Appends(e, next)
  <2>1. /\ Len(events') = Len(events) + 1 /\ events'[Len(events) + 1] = e
        /\ \A i \in 1..Len(events) : events'[i] = events[i]
        /\ Messages(events') = Messages(events) + One(e)
        /\ Messages(events') = Cardinality(MessagesOf(events', Len(events) + 1))
    BY <1>0, <1>3, CountAppend DEF Appends, One
  <2>2. /\ proc.emitted = Len(events) /\ proc'.emitted = Len(events') /\ proc'.prefix = proc.prefix
        /\ proc'.manifest = proc.manifest + One(e) /\ proc'.manifests = proc.manifests
        /\ contexts' = contexts /\ proc.prefix <= proc.emitted
    BY <1>0, <1>1, <1>3, <2>1 DEF Appends, Commits, OtherFields
  <2>3. proc'.manifest = Cardinality(MessagesOf(events', proc'.emitted))
    BY <1>1, <2>1, <2>2
  <2>4. contexts' = Messages(events') /\ PrefixReplayed'
    <3>1. CASE e[1] = "message.completed"
      BY <1>0, <1>1, <1>3, <2>1, <2>2, <3>1 DEF Appends, One, PrefixReplayed
    <3>2. CASE e[1] # "message.completed"
      BY <1>0, <1>1, <1>3, <2>1, <2>2, <3>2 DEF Appends, One, PrefixReplayed
    <3> QED
      BY <3>1, <3>2
  <2>5. /\ synced' <= Len(events')
        /\ \A i \in 1..Len(events') : events'[i][1] = "message.completed" => i <= synced'
    <3>1. e[1] = "message.completed" => is_event_sync_checkpoint(e)
      BY DEF is_event_sync_checkpoint
    <3> QED
      BY <1>0, <1>1, <1>3, <2>1, <3>1 DEF Appends
  <2>6. ~(proc'.emitted < proc'.prefix) /\ proc'.emitted = Len(events')
    BY <1>0, <2>1, <2>2
  <2> QED
    BY <2>3, <2>4, <2>5, <2>6 DEF StreamsAgree
<1>4. CASE WritesManifest(e)
  BY <1>0, <1>1, <1>4 DEF WritesManifest, StreamsAgree, PrefixReplayed
<1>5. CASE Refuses
  <2>1. proc'.pc # "message.completed" /\ (PrefixReplayed' <=> PrefixReplayed)
    BY <1>5 DEF Refuses, OtherFields, PrefixReplayed
  <2> QED
    BY <1>1, <1>5, <2>1 DEF Refuses, OtherFields, StreamsAgree
<1> QED
  BY <1>2, <1>3, <1>4, <1>5

-----------------------------------------------------------------------------
(* What a step has to respect. *)

\* What the records of the snapshot are made of.
LEMMA RecordTyped ==
  ASSUME NEW r \in SnapshotRecords
  PROVE  /\ r[1] \in {"phase", "transition"} => r[2] \in Nat
         /\ r[1] = "attempt" =>
              /\ r = <<"attempt", r[2], r[3]>> /\ r[2] \in Attempts /\ r[3] \in Outcomes
              /\ r[2] = <<r[2][1], r[2][2]>> /\ r[2][1] \in {"provider", "tool"} /\ r[2][2] \in Nat
         /\ r[1] = "terminal" => r[2] \in BOOLEAN /\ r[3] \in Nat
<1>1. CASE r = <<"flow">>
  BY <1>1
<1>2. CASE r \in {"phase", "transition"} \X Nat
  BY <1>2
<1>3. CASE r \in {"attempt"} \X Attempts \X Outcomes
  <2>1. r = <<"attempt", r[2], r[3]>> /\ r[2] \in Attempts /\ r[3] \in Outcomes
    BY <1>3
  <2>2. \A a \in Attempts : a = <<a[1], a[2]>> /\ a[1] \in {"provider", "tool"} /\ a[2] \in Nat
    BY DEF Attempts
  <2> QED
    BY <1>3, <2>1, <2>2
<1>4. CASE r \in {"terminal"} \X BOOLEAN \X Nat
  BY <1>4
<1> QED
  BY <1>1, <1>2, <1>3, <1>4, Zenon DEF SnapshotRecords

\* One process has come as far as another.
Ahead(p, q) ==
  /\ p.turns <= q.turns /\ p.tools <= q.tools
  /\ PhaseMark(p) <= PhaseMark(q) /\ TransitionMark(p) <= TransitionMark(q)
  /\ p.pc = "flow.completed" => q.pc = "flow.completed"

LEMMA BehindStays ==
  ASSUME NEW p \in Processes, NEW q \in Processes, Ahead(p, q), NEW r \in SnapshotRecords, Behind(r, p)
  PROVE  Behind(r, q)
<1>1. /\ p.turns \in Nat /\ p.tools \in Nat /\ q.turns \in Nat /\ q.tools \in Nat
      /\ PhaseMark(p) \in Nat /\ PhaseMark(q) \in Nat
      /\ TransitionMark(p) \in Nat /\ TransitionMark(q) \in Nat
  BY DEF Processes, PhaseMark, TransitionMark
<1>2. r[1] = "attempt" => r[2][2] <= IF r[2][1] = "provider" THEN q.turns ELSE q.tools
  BY <1>1, RecordTyped DEF Ahead, Behind
<1>3. r[1] = "phase" => r[2] <= PhaseMark(q)
  BY <1>1, RecordTyped DEF Ahead, Behind
<1>4. r[1] = "transition" => r[2] <= TransitionMark(q)
  BY <1>1, RecordTyped DEF Ahead, Behind
<1> QED
  BY <1>2, <1>3, <1>4, Zenon DEF Ahead, Behind

\* Inside a Phase a process moves on by its counters.
LEMMA SamePhase ==
  ASSUME NEW p \in Processes, NEW q \in Processes, q.phase = p.phase,
         p.turns <= q.turns, p.tools <= q.tools,
         p.pc \in Passing => q.pc \in Passing,
         p.pc \in {"transition.ensure", "flow.completed"} => q.pc = p.pc
  PROVE  Ahead(p, q)
<1>1. p.phase \in Nat
  BY DEF Processes
<1>2. PhaseMark(p) <= PhaseMark(q)
  BY <1>1 DEF PhaseMark
<1>3. TransitionMark(p) <= TransitionMark(q)
  BY <1>1 DEF TransitionMark
<1> QED
  BY <1>2, <1>3, Zenon DEF Ahead

StreamFields ==
  /\ proc'.emitted = proc.emitted /\ proc'.prefix = proc.prefix
  /\ proc'.manifest = proc.manifest /\ proc'.manifests = proc.manifests

SnapshotFields ==
  /\ proc'.recorded = proc.recorded /\ proc'.records = proc.records
  /\ proc'.turns = proc.turns /\ proc'.tools = proc.tools /\ proc'.cur = proc.cur
  /\ proc'.completed = proc.completed /\ proc'.consumed = proc.consumed

\* A step that leaves the snapshot alone goes on from what it has seen.
Onward ==
  /\ proc.pc # "down"
  /\ proc'.pc \in Working \cup InAttempt => proc.pc \in Working \cup InAttempt /\ Ahead(proc, proc')
  /\ proc'.pc \in Working \ Held => proc.pc \in Working \ Held
  /\ proc'.pc \in Held => proc.pc \in Held
  /\ proc'.pc = "attempt.record" => proc.pc = "attempt.record" /\ proc'.outcome = proc.outcome

\* Where it may lead within a Phase.
Onto(next) ==
  \/ next \in Ending
  \/ /\ proc.pc \notin {"transition.ensure", "flow.completed"}
     /\ proc.pc \in Passing => next \in Passing
     /\ \/ proc.pc \in Working \ Held /\ next \in Working \ Held
        \/ proc.pc \in Held /\ next \in InAttempt

LEMMA OntoOnward ==
  ASSUME IInv, IInv', proc.pc # "down", SnapshotFields, proc'.phase = proc.phase, Onto(proc'.pc)
  PROVE  Onward
<1>1. /\ proc \in Processes /\ proc' \in Processes /\ proc.turns \in Nat /\ proc.tools \in Nat
  BY Zenon DEF IInv, Types, Processes
<1>2. CASE proc'.pc \in Ending
  BY <1>2, Zenon DEF Ending, Working, InAttempt, Undispatched, Held, Intending, Onward
<1>3. CASE proc'.pc \notin Ending
  <2>1. /\ proc.pc \notin {"transition.ensure", "flow.completed"}
        /\ proc.pc \in Passing => proc'.pc \in Passing
        /\ \/ proc.pc \in Working \ Held /\ proc'.pc \in Working \ Held
           \/ proc.pc \in Held /\ proc'.pc \in InAttempt
    BY <1>3, Zenon DEF Onto
  <2>2. proc.turns <= proc'.turns /\ proc.tools <= proc'.tools
    BY <1>1 DEF SnapshotFields
  <2>3. Ahead(proc, proc')
    BY <1>1, <2>1, <2>2, SamePhase, Zenon
  <2>4. /\ Held \subseteq Working \cup InAttempt /\ InAttempt \subseteq Held /\ "attempt.record" \notin InAttempt
        /\ "attempt.record" \in Held
    BY Zenon DEF Held, Intending, Working, InAttempt, Undispatched
  <2> QED
    BY <2>1, <2>3, <2>4, Zenon DEF Onward
<1> QED
  BY <1>2, <1>3, Zenon

\* The order of the records and what lies behind the process.
LEMMA Positions ==
  ASSUME IInv, Progress, proc.pc # "down"
  PROVE  /\ proc.recorded \in Nat /\ proc.records \in Nat /\ Len(recovery) \in Nat /\ Seen \in Nat
         /\ Seen <= Len(recovery) /\ DOMAIN recovery = 1..Len(recovery)
         /\ Replaying => proc.recorded + 1 <= Len(recovery)
         /\ \A i \in 1..Len(recovery) : recovery[i] \in SnapshotRecords
<1>1. /\ proc.recorded \in Nat /\ proc.records \in Nat /\ recovery \in Seq(SnapshotRecords)
      /\ proc.recorded <= proc.records /\ proc.records <= Len(recovery)
  BY Zenon DEF IInv, Types, Processes, Progress
<1>2. Len(recovery) \in Nat /\ DOMAIN recovery = 1..Len(recovery)
      /\ \A i \in 1..Len(recovery) : recovery[i] \in SnapshotRecords
  BY <1>1
<1> QED
  BY <1>1, <1>2 DEF Seen, Replaying

LEMMA ProgressStays ==
  ASSUME IInv, IInv', Progress, UNCHANGED <<recovery, intents, results>>, SnapshotFields, Onward
  PROVE  Progress'
<1>1. /\ Seen' = Seen /\ (Replaying' <=> Replaying) /\ RecordedAttempts' = RecordedAttempts
      /\ ensure_live_append' <=> ensure_live_append
  BY Zenon DEF SnapshotFields, Seen, Replaying, RecordedAttempts, ensure_live_append, Terminal
<1>2. ASSUME proc'.pc \in Working \cup InAttempt, NEW i \in 1..Seen
      PROVE  Behind(recovery[i], proc')
  <2>1. recovery[i] \in SnapshotRecords
    <3>1. i \in 1..Len(recovery)
      BY <1>2, Positions DEF Onward
    <3> QED
      BY <3>1, Positions, Zenon DEF Onward
  <2>2. proc \in Processes /\ proc' \in Processes /\ Ahead(proc, proc') /\ Behind(recovery[i], proc)
    BY <1>2, Zenon DEF IInv, Types, Onward, Progress
  <2> QED
    BY <2>1, <2>2, BehindStays, Zenon
<1>3. proc.pc # "down"
  BY Zenon DEF Onward
<1>4. proc'.pc # "down" =>
        /\ proc'.recorded <= proc'.records /\ proc'.records <= Len(recovery')
        /\ Replaying' => proc'.records = Len(recovery')
        /\ proc'.consumed \subseteq RecordedAttempts'
  BY <1>1, <1>3, Zenon DEF Progress, SnapshotFields
<1>5. proc'.pc \in Working \cup InAttempt => \A i \in 1..Seen' : Behind(recovery'[i], proc')
  BY <1>1, <1>2, Zenon
<1>6. proc'.pc \in Working \ Held => intents' \subseteq proc'.completed \cup RecordedAttempts'
  BY <1>1, Zenon DEF Progress, SnapshotFields, Onward
<1>7. proc'.pc \in Held =>
        /\ ensure_live_append'
        /\ intents' \subseteq RecordedAttempts' \cup {proc'.cur} /\ proc'.cur \notin RecordedAttempts'
        /\ proc'.cur[2] = IF proc'.cur[1] = "provider" THEN proc'.turns ELSE proc'.tools
  BY <1>1, Zenon DEF Progress, SnapshotFields, Onward
<1>8. proc'.pc = "attempt.record" => proc'.cur \in intents' /\ results'[proc'.cur] = proc'.outcome
  BY Zenon DEF Progress, SnapshotFields, Onward
<1> QED
  BY <1>4, <1>5, <1>6, <1>7, <1>8, Zenon DEF Progress

\* The streams and how far they are replayed are left alone.
LEMMA StreamsStay ==
  ASSUME StreamsAgree, UNCHANGED <<events, synced, contexts>>, StreamFields, proc.pc # "down",
         proc.pc = "message.completed" => proc'.pc = proc.pc
  PROVE  StreamsAgree'
<1>1. PrefixReplayed' <=> PrefixReplayed
  BY Zenon DEF StreamFields, PrefixReplayed
<1> QED
  BY <1>1, Zenon DEF StreamsAgree, StreamFields

\* Where the process needs a cause in the snapshot.
Grounded == {"message", "tool.restarted", "tool.end", "phase.completed", "flow.completed", "terminal.event"}

Undecided == proc.recovery_failed \/ proc.event_commit_failed

LEMMA Groundless ==
  ASSUME proc'.pc \notin Grounded, proc'.pc = "finish" => Undecided'
  PROVE  Grounds'
BY Zenon DEF Grounds, Grounded, Undecided

LEMMA SnapshotStays == ASSUME Snapshot, UNCHANGED <<recovery, intents, results>> PROVE Snapshot'
<1>1. recovery' = recovery /\ intents' = intents /\ results' = results /\ RecordedAttempts' = RecordedAttempts
  BY Zenon DEF RecordedAttempts
<1> QED
  BY <1>1 DEF Snapshot

LEMMA EventsStay == ASSUME EventsFollowSnapshot, UNCHANGED <<recovery, events>> PROVE EventsFollowSnapshot'
<1>1. recovery' = recovery /\ events' = events /\ (Terminal(recovery') <=> Terminal(recovery))
  BY Zenon
<1> QED
  BY <1>1 DEF EventsFollowSnapshot

\* Steps of the process before it returns leave the history alone.
LEMMA StaysOpen ==
  ASSUME Closed, proc.pc \notin {"return", "down"}, UNCHANGED history
  PROVE  Closed'
BY Zenon DEF Closed

\* A step that moves the process only.
LEMMA MoveKeeps ==
  ASSUME IInv, IInv', RInv, proc.pc \notin {"down", "return", "message.completed"}, UNCHANGED disk,
         StreamFields, SnapshotFields, Onward,
         proc'.pc \notin Grounded, proc'.pc = "finish" => Undecided'
  PROVE  RInv'
<1>1. StreamsAgree' /\ Progress' /\ Grounds' /\ Closed'
  BY StreamsStay, ProgressStays, Groundless, StaysOpen, Zenon DEF RInv, disk
<1>2. Snapshot' /\ EventsFollowSnapshot'
  BY SnapshotStays, EventsStay, Zenon DEF RInv, disk
<1> QED
  BY <1>1, <1>2, Zenon DEF RInv

\* The Flow fails.
LEMMA FailKeeps ==
  ASSUME IInv, IInv', RInv, proc.pc \notin {"down", "return", "message.completed"}, UNCHANGED disk,
         NEW error, NEW open \in BOOLEAN, Fail(error, open)
  PROVE  RInv'
<1>1. /\ StreamFields /\ SnapshotFields /\ proc'.phase = proc.phase /\ proc'.pc \in {"phase.failed", "error"}
  <2>1. proc \in Processes
    BY Zenon DEF IInv, Types
  <2> QED
    BY <2>1, Zenon DEF Fail, StreamFields, SnapshotFields, Processes
<1>2. proc'.pc \notin Grounded /\ proc'.pc # "finish" /\ Onto(proc'.pc)
  BY <1>1, Zenon DEF Grounded, Onto, Ending
<1> QED
  BY <1>1, <1>2, OntoOnward, MoveKeeps, Zenon

\* The process goes on, with an outcome or without.
LEMMA GoKeeps ==
  ASSUME IInv, IInv', RInv, proc.pc \notin {"down", "return", "message.completed"}, UNCHANGED disk,
         NEW outcome, NEW next, Persist(outcome, next) \/ Goto(next), Onto(next),
         next \notin Grounded \cup {"finish"}
  PROVE  RInv'
<1>1. StreamFields /\ SnapshotFields /\ proc'.phase = proc.phase /\ proc'.pc = next
  <2>1. proc \in Processes
    BY Zenon DEF IInv, Types
  <2>2. CASE Persist(outcome, next)
    BY <2>1, <2>2, Zenon DEF Persist, StreamFields, SnapshotFields, Processes
  <2>3. CASE Goto(next)
    BY <2>1, <2>3, Zenon DEF Goto, StreamFields, SnapshotFields, Processes
  <2> QED
    BY <2>2, <2>3, Zenon
<1> QED
  BY <1>1, OntoOnward, MoveKeeps, Zenon

\* A writer refuses.
LEMMA DivergeKeeps ==
  ASSUME IInv, IInv', RInv, proc.pc \notin {"down", "return", "message.completed"}, UNCHANGED disk,
         RecoveryDiverges \/ proc' = [proc EXCEPT !.event_commit_failed = TRUE, !.pc = "claim"]
  PROVE  RInv'
<1>1. /\ StreamFields /\ SnapshotFields /\ proc'.phase = proc.phase /\ proc'.pc \in {"claim", "finish"}
      /\ Undecided'
  <2>1. CASE RecoveryDiverges
    BY <2>1, Zenon DEF RecoveryDiverges, StreamFields, SnapshotFields, IInv, Types, Processes, Undecided
  <2>2. CASE proc' = [proc EXCEPT !.event_commit_failed = TRUE, !.pc = "claim"]
    BY <2>2, Zenon DEF StreamFields, SnapshotFields, IInv, Types, Processes, Undecided
  <2> QED
    BY <2>1, <2>2, Zenon
<1>2. proc'.pc \notin Grounded /\ Onto(proc'.pc)
  BY <1>1, Zenon DEF Grounded, Onto, Ending
<1> QED
  BY <1>1, <1>2, OntoOnward, MoveKeeps, Zenon

-----------------------------------------------------------------------------
(* Events. *)

Shown == {"message.delta", "tool.completed", "phase.completed", "flow.completed"}
Ends == {"session.completed", "session.failed"}

\* The snapshot holds what the Event claims.
Caused(e) ==
  /\ e[1] \in Shown => Cause(e) \in Records
  /\ e[1] \in Ends => Bound(proc.emitted + 1) /\ e = SessionEnd(proc.error)

\* An appended Event with its cause.
LEMMA ShownLater ==
  ASSUME IInv, EventsFollowSnapshot, NEW e \in EventRecords, Caused(e), proc.emitted = Len(events),
         events' = Append(events, e), UNCHANGED recovery
  PROVE  EventsFollowSnapshot'
<1>1. /\ DOMAIN events' = 1..(Len(events) + 1) /\ DOMAIN events = 1..Len(events)
      /\ events'[Len(events) + 1] = e /\ \A i \in 1..Len(events) : events'[i] = events[i]
      /\ Len(events) \in Nat
  BY DEF IInv, Types
<1>2. ASSUME NEW i \in 1..Len(events)
      PROVE  /\ events'[i][1] \in Shown => \E j \in DOMAIN recovery' : recovery'[j] = Cause(events'[i])
             /\ events'[i][1] \in Ends =>
                  /\ Terminal(recovery') /\ recovery'[Len(recovery')][3] = i
                  /\ recovery'[Len(recovery')][2] = (events'[i][1] = "session.failed")
  <2>1. i \in DOMAIN events /\ events'[i] = events[i] /\ recovery' = recovery
    BY <1>1, Zenon
  <2>2. /\ events[i][1] \in Shown => \E j \in DOMAIN recovery : recovery[j] = Cause(events[i])
        /\ events[i][1] \in Ends =>
             /\ Terminal(recovery) /\ recovery[Len(recovery)][3] = i
             /\ recovery[Len(recovery)][2] = (events[i][1] = "session.failed")
    BY <2>1, Zenon DEF EventsFollowSnapshot, Shown, Ends
  <2> QED
    BY <2>1, <2>2, Zenon
<1>3. /\ e[1] \in Shown => \E j \in DOMAIN recovery' : recovery'[j] = Cause(e)
      /\ e[1] \in Ends =>
           /\ Terminal(recovery') /\ recovery'[Len(recovery')][3] = Len(events) + 1
           /\ recovery'[Len(recovery')][2] = (e[1] = "session.failed")
  <2>1. e[1] \in Shown => \E j \in DOMAIN recovery' : recovery'[j] = Cause(e)
    BY Zenon DEF Caused, Records
  <2>2. ASSUME e[1] \in Ends
        PROVE  /\ Terminal(recovery') /\ recovery'[Len(recovery')][3] = Len(events) + 1
               /\ recovery'[Len(recovery')][2] = (e[1] = "session.failed")
    <3>1. /\ recovery # <<>> /\ recovery[Len(recovery)] = <<"terminal", proc.error # "none", proc.emitted + 1>>
          /\ e = SessionEnd(proc.error)
      BY <2>2, Zenon DEF Caused, Bound
    <3>2. (proc.error # "none") = (e[1] = "session.failed")
      BY <3>1 DEF SessionEnd
    <3> QED
      BY <3>1, <3>2 DEF Terminal
  <2> QED
    BY <2>1, <2>2, Zenon
<1>4. ASSUME NEW i \in DOMAIN events'
      PROVE  /\ events'[i][1] \in Shown => \E j \in DOMAIN recovery' : recovery'[j] = Cause(events'[i])
             /\ events'[i][1] \in Ends =>
                  /\ Terminal(recovery') /\ recovery'[Len(recovery')][3] = i
                  /\ recovery'[Len(recovery')][2] = (events'[i][1] = "session.failed")
  <2>1. i \in 1..Len(events) \/ i = Len(events) + 1
    BY <1>1
  <2>2. CASE i = Len(events) + 1
    <3>1. events'[i] = e
      BY <1>1, <2>2, Zenon
    <3> QED
      BY <1>3, <2>2, <3>1, Zenon
  <2> QED
    BY <1>2, <2>1, <2>2, Zenon
<1> QED
  BY <1>4, Zenon DEF EventsFollowSnapshot, Shown, Ends

\* A step after which the process is where it was.
LEMMA Unmoved ==
  ASSUME IInv, proc.pc # "down", proc' = proc
  PROVE  Onward /\ SnapshotFields /\ StreamFields
<1>1. proc.turns <= proc.turns /\ proc.tools <= proc.tools /\ proc \in Processes
  BY DEF IInv, Types, Processes
<1>2. Ahead(proc, proc')
  BY <1>1, SamePhase, Zenon
<1> QED
  BY <1>2, Zenon DEF Onward, SnapshotFields, StreamFields

LEMMA GroundsStay == ASSUME Grounds, UNCHANGED <<recovery, events, proc>> PROVE Grounds'
<1>1. recovery' = recovery /\ events' = events /\ proc' = proc /\ Records' = Records
  BY Zenon DEF Records
<1> QED
  BY <1>1 DEF Grounds, Bound

\* The emission of an Event: what it needs of its Event and of where it leads.
LEMMA EmitKeeps ==
  ASSUME Counting, IInv, IInv', RInv, proc.pc \notin {"down", "return"},
         NEW e \in EventRecords, NEW next, next # "down", EmitStep(e, next),
         e[1] = "message.completed" <=> proc.pc = "message.completed",
         Onto(next), Caused(e),
         next \in Grounded => next = "tool.end" /\ proc.pc = "tool.restarted",
         next = "finish" => e = SessionEnd(proc.error) /\ e[1] \in Ends
  PROVE  RInv'
<1>1. OtherFields /\ (Replays(e, next) \/ Appends(e, next) \/ WritesManifest(e) \/ Refuses)
  BY EmitCases, Zenon
<1>2. UNCHANGED <<intents, results, recovery, history>>
  BY Zenon DEF EmitStep
<1>3. StreamsAgree' /\ Snapshot' /\ Closed'
  BY <1>1, <1>2, EmitStreams, SnapshotStays, StaysOpen, Zenon DEF RInv
<1>4. SnapshotFields /\ proc'.phase = proc.phase
  BY <1>1, Zenon DEF OtherFields, SnapshotFields
<1>5. proc'.pc = next \/ proc' = proc \/ proc'.pc \in {"claim", "finish"}
  BY <1>1, Zenon DEF Replays, Appends, Commits, WritesManifest, Refuses
<1>6. Onward
  <2>1. CASE proc' = proc
    BY <2>1, Unmoved, Zenon
  <2>2. CASE proc' # proc
    <3>1. Onto(proc'.pc)
      BY <1>5, <2>2, Zenon DEF Onto, Ending
    <3> QED
      BY <1>4, <3>1, OntoOnward, Zenon
  <2> QED
    BY <2>1, <2>2, Zenon
<1>7. Progress'
  BY <1>2, <1>4, <1>6, ProgressStays, Zenon DEF RInv
<1>8. /\ proc.emitted \in Nat /\ proc.prefix \in Nat /\ Len(events) \in Nat /\ events \in Seq(EventRecords)
      /\ IF proc.emitted < proc.prefix THEN Len(events) = proc.prefix ELSE proc.emitted = Len(events)
  BY DEF IInv, Types, Processes, RInv, StreamsAgree
<1>9. EventsFollowSnapshot'
  <2>1. CASE Replays(e, next) \/ WritesManifest(e) \/ Refuses
    BY <1>2, <2>1, EventsStay, Zenon DEF RInv, Replays, WritesManifest, Refuses
  <2>2. CASE Appends(e, next)
    <3>1. proc.emitted = Len(events) /\ events' = Append(events, e)
      BY <1>8, <2>2 DEF Appends
    <3> QED
      BY <1>2, <3>1, ShownLater, Zenon DEF RInv
  <2> QED
    BY <1>1, <2>1, <2>2, Zenon
<1>10. Grounds'
  <2>1. CASE Refuses
    <3>1. proc'.pc \in {"claim", "finish"} /\ Undecided'
      BY <2>1, Zenon DEF Refuses, Undecided
    <3> QED
      BY <3>1, Groundless, Zenon DEF Grounded
  <2>2. CASE WritesManifest(e)
    BY <1>2, <2>2, GroundsStay, Zenon DEF RInv, WritesManifest
  <2>3. CASE Replays(e, next) \/ Appends(e, next)
    <3>0. proc'.pc = next /\ proc'.emitted = proc.emitted + 1 /\ Records' = Records
      BY <1>2, <2>3, Zenon DEF Replays, Appends, Commits, Records
    <3>1. CASE next \notin Grounded \cup {"finish"}
      BY <3>0, <3>1, Groundless, Zenon
    <3>2. CASE next = "tool.end"
      <4>1. proc.pc = "tool.restarted" /\ proc'.outcome = proc.outcome /\ proc'.tools = proc.tools
        BY <1>1, <3>2, Zenon DEF Grounded, OtherFields
      <4> QED
        BY <3>0, <3>2, <4>1, Zenon DEF Grounds, RInv
    <3>3. CASE next = "finish"
      <4>1. Bound(proc.emitted + 1) /\ e = SessionEnd(proc.error) /\ proc'.error = proc.error
        BY <1>1, <3>3, Zenon DEF Caused, OtherFields
      <4>2. Bound(proc.emitted)'
        BY <1>2, <3>0, <4>1, Zenon DEF Bound
      <4>3. proc'.emitted \in 1..Len(events') /\ events'[proc'.emitted] = e
        <5>1. CASE Replays(e, next)
          BY <1>8, <3>0, <5>1 DEF Replays
        <5>2. CASE Appends(e, next)
          BY <1>8, <3>0, <5>2, SMTT(30) DEF Appends
        <5> QED
          BY <2>3, <5>1, <5>2, Zenon
      <4> QED
        BY <3>0, <3>3, <4>1, <4>2, <4>3, Zenon DEF Grounds, SessionEnd
    <3> QED
      BY <3>1, <3>2, <3>3, Zenon
  <2> QED
    BY <1>1, <2>1, <2>2, <2>3, Zenon
<1> QED
  BY <1>3, <1>7, <1>9, <1>10, Zenon DEF RInv

LEMMA Fields ==
  \A a, b, c :
    /\ <<a>>[1] = a /\ <<a, b>>[1] = a /\ <<a, b>>[2] = b
    /\ <<a, b, c>>[1] = a /\ <<a, b, c>>[2] = b /\ <<a, b, c>>[3] = c
OBVIOUS

LEMMA ProcTyped ==
  ASSUME IInv
  PROVE  /\ proc \in Processes /\ proc.phase \in Nat /\ proc.phase + 1 \in Nat
         /\ proc.turns \in Nat /\ proc.tools \in Nat /\ proc.cur \in Attempts
         /\ proc.error \in Errors /\ proc.outcome \in Outcomes
<1>1. /\ proc \in Processes /\ proc.phase \in Nat
      /\ proc.turns \in Nat /\ proc.tools \in Nat /\ proc.cur \in Attempts
      /\ proc.error \in Errors /\ proc.outcome \in Outcomes
  BY Zenon DEF IInv, Types, Processes
<1>2. proc.phase + 1 \in Nat
  BY <1>1
<1> QED
  BY <1>1, <1>2, Zenon

\* The steps that emit an Event without a cause of its own.
LEMMA PlainEvents ==
  ASSUME Counting, IInv, IInv', RInv,
         \/ SessionStarted \/ FlowStarted \/ PhaseEntered \/ PhaseFailed \/ ErrorEvent \/ FlowFailed
         \/ MessageCompleted \/ ToolStartedAgain \/ ToolLost
         \/ At("tool.started") /\ EmitStep(<<"tool.started", proc.tools>>, "tool.claim")
         \/ At("tool.end") /\ EmitStep(<<"tool.failed", proc.tools, proc.outcome>>, "tool.ended")
  PROVE  RInv'
<1> USE DEF At
<1>0. /\ proc.phase + 1 \in Nat /\ proc.turns \in Nat /\ proc.tools \in Nat
      /\ proc.error \in Errors /\ proc.outcome \in Outcomes
  BY ProcTyped, Zenon
<1>1. ASSUME NEW e \in EventRecords, NEW next, EmitStep(e, next),
             e[1] \notin Shown \cup Ends, e[1] = "message.completed" <=> proc.pc = "message.completed",
             Onto(next), proc.pc \notin {"down", "return"}, next \notin {"down", "finish"},
             next \in Grounded => next = "tool.end" /\ proc.pc = "tool.restarted"
      PROVE  RInv'
  BY <1>1, EmitKeeps, Zenon DEF Caused
<1> USE Fields DEF Shown, Ends, Grounded, Onto, Ending, Passing, Working, Held, Intending, InAttempt, Undispatched
<1>2. CASE SessionStarted
  BY <1>1, <1>2, Zenon DEF SessionStarted, EventRecords
<1>3. CASE FlowStarted
  BY <1>1, <1>3, Zenon DEF FlowStarted, EventRecords
<1>4. CASE PhaseEntered
  <2>1. <<"phase.entered", proc.phase + 1>> \in EventRecords
    BY <1>0, Zenon DEF EventRecords
  <2> QED
    BY <1>1, <1>4, <2>1, Zenon DEF PhaseEntered
<1>5. CASE PhaseFailed
  <2>1. <<"phase.failed", proc.phase + 1, proc.error>> \in EventRecords
    BY <1>0 DEF EventRecords
  <2> QED
    BY <1>1, <1>5, <2>1, Zenon DEF PhaseFailed
<1>6. CASE ErrorEvent
  <2>1. <<"error", proc.error>> \in EventRecords
    BY <1>0, Zenon DEF EventRecords
  <2> QED
    BY <1>1, <1>6, <2>1, Zenon DEF ErrorEvent
<1>7. CASE FlowFailed
  <2>1. <<"flow.failed", proc.error>> \in EventRecords
    BY <1>0, Zenon DEF EventRecords
  <2> QED
    BY <1>1, <1>7, <2>1, Zenon DEF FlowFailed
<1>8. CASE MessageCompleted
  <2>1. <<"message.completed", proc.turns>> \in EventRecords
    BY <1>0, Zenon DEF EventRecords
  <2> QED
    BY <1>1, <1>8, <2>1, Zenon DEF MessageCompleted
<1>9. CASE ToolStartedAgain
  <2>1. <<"tool.started", proc.tools>> \in EventRecords
    BY <1>0, Zenon DEF EventRecords
  <2> QED
    BY <1>1, <1>9, <2>1, Zenon DEF ToolStartedAgain
<1>10. CASE ToolLost
  <2>1. <<"tool.failed", proc.tools, "runtime_error">> \in EventRecords
    BY <1>0, Zenon DEF EventRecords, Errors
  <2> QED
    BY <1>1, <1>10, <2>1, Zenon DEF ToolLost
<1>11. CASE At("tool.started") /\ EmitStep(<<"tool.started", proc.tools>>, "tool.claim")
  <2>1. <<"tool.started", proc.tools>> \in EventRecords
    BY <1>0, Zenon DEF EventRecords
  <2> QED
    BY <1>1, <1>11, <2>1, Zenon
<1>12. CASE At("tool.end") /\ EmitStep(<<"tool.failed", proc.tools, proc.outcome>>, "tool.ended")
  <2>1. <<"tool.failed", proc.tools, proc.outcome>> \in EventRecords
    BY <1>0, Zenon DEF EventRecords
  <2>2. proc.pc = "tool.end" /\ EmitStep(<<"tool.failed", proc.tools, proc.outcome>>, "tool.ended")
    BY <1>12, Zenon
  <2>3. Onto("tool.ended")
    BY <2>2, Zenon
  <2>4. <<"tool.failed", proc.tools, proc.outcome>>[1] = "tool.failed"
    BY Zenon
  <2> HIDE DEF Onto
  <2> QED
    BY <1>1, <2>1, <2>2, <2>3, <2>4, Zenon
<1> QED
  BY <1>2, <1>3, <1>4, <1>5, <1>6, <1>7, <1>8, <1>9, <1>10, <1>11, <1>12, Zenon

\* The Events that show an answer, a Tool result, a Phase or an end.
LEMMA CausedEvents ==
  ASSUME Counting, IInv, IInv', RInv,
         \/ MessageDelta \/ SessionEnded
         \/ At("tool.end") /\ proc.outcome = "ok" /\ EmitStep(<<"tool.completed", proc.tools>>, "turn")
         \/ At("phase.completed") /\ EmitStep(<<"phase.completed", proc.phase + 1>>, "transition")
         \/ At("flow.completed") /\ EmitStep(<<"flow.completed">>, "claim")
  PROVE  RInv'
<1> USE DEF At
<1>0. /\ proc.phase + 1 \in Nat /\ proc.turns \in Nat /\ proc.tools \in Nat
      /\ proc.error \in Errors /\ proc.outcome \in Outcomes /\ Grounds
  BY ProcTyped, Zenon DEF RInv
<1>1. ASSUME NEW e \in EventRecords, NEW next, EmitStep(e, next),
             e[1] # "message.completed", proc.pc # "message.completed", Caused(e),
             Onto(next), proc.pc \notin {"down", "return"}, next \notin Grounded \cup {"down", "finish"}
      PROVE  RInv'
  BY <1>1, EmitKeeps, Zenon
<1> USE Fields DEF Grounded, Onto, Ending, Passing, Working, Held, Intending, InAttempt, Undispatched
<1>2. CASE MessageDelta
  <2> DEFINE e == <<"message.delta", proc.turns, proc.outcome>>
  <2>1. e \in EventRecords
    BY <1>0, Zenon DEF EventRecords
  <2>2. e[1] = "message.delta" /\ e[2] = proc.turns /\ e[3] = proc.outcome
    BY Zenon
  <2>3. Cause(e) = <<"attempt", <<"provider", proc.turns>>, proc.outcome>>
    BY <2>2, Zenon DEF Cause
  <2>4. Caused(e)
    BY <1>0, <1>2, <2>2, <2>3, Zenon DEF MessageDelta, Grounds, Caused, Ends
  <2> QED
    BY <1>1, <1>2, <2>1, <2>2, <2>4, Zenon DEF MessageDelta
<1>3. CASE At("tool.end") /\ proc.outcome = "ok" /\ EmitStep(<<"tool.completed", proc.tools>>, "turn")
  <2> DEFINE e == <<"tool.completed", proc.tools>>
  <2>1. e \in EventRecords
    BY <1>0, Zenon DEF EventRecords
  <2>2. e[1] = "tool.completed" /\ e[2] = proc.tools
    BY Zenon
  <2>3. Cause(e) = <<"attempt", <<"tool", proc.tools>>, "ok">>
    BY <2>2, Zenon DEF Cause
  <2>4. Caused(e)
    BY <1>0, <1>3, <2>2, <2>3, Zenon DEF Grounds, Caused, Ends
  <2> QED
    BY <1>1, <1>3, <2>1, <2>2, <2>4, Zenon
<1>4. CASE At("phase.completed") /\ EmitStep(<<"phase.completed", proc.phase + 1>>, "transition")
  <2> DEFINE e == <<"phase.completed", proc.phase + 1>>
  <2>1. e \in EventRecords
    BY <1>0, Zenon DEF EventRecords
  <2>2. e[1] = "phase.completed" /\ e[2] = proc.phase + 1
    BY Zenon
  <2>3. Cause(e) = <<"phase", proc.phase + 1>>
    BY <2>2, Zenon DEF Cause
  <2>4. Caused(e)
    BY <1>0, <1>4, <2>2, <2>3, Zenon DEF Grounds, Caused, Ends
  <2> QED
    BY <1>1, <1>4, <2>1, <2>2, <2>4, Zenon
<1>5. CASE At("flow.completed") /\ EmitStep(<<"flow.completed">>, "claim")
  <2> DEFINE e == <<"flow.completed">>
  <2>1. e \in EventRecords
    BY Zenon DEF EventRecords
  <2>2. e[1] = "flow.completed"
    BY Zenon
  <2>3. Cause(e) = <<"flow">>
    BY <2>2, Zenon DEF Cause
  <2>4. Caused(e)
    BY <1>0, <1>5, <2>2, <2>3, Zenon DEF Grounds, Caused, Ends
  <2> QED
    BY <1>1, <1>5, <2>1, <2>2, <2>4, Zenon
<1>6. CASE SessionEnded
  <2> DEFINE e == SessionEnd(proc.error)
  <2>1. e \in EventRecords /\ e[1] \in Ends /\ e[1] \notin Shown \cup {"message.completed"}
    BY <1>0, Zenon DEF EventRecords, SessionEnd, Ends, Shown
  <2>2. EmitStep(e, "finish") /\ proc.pc = "terminal.event"
    BY <1>6, Zenon DEF SessionEnded, SessionEnd
  <2>3. Caused(e)
    BY <1>0, <2>1, <2>2, Zenon DEF Grounds, Caused
  <2>4. Onto("finish") /\ "finish" \notin Grounded
    BY Zenon
  <2> HIDE DEF Onto, Grounded, e
  <2> QED
    BY <2>1, <2>2, <2>3, <2>4, EmitKeeps, Zenon DEF e
<1> QED
  BY <1>2, <1>3, <1>4, <1>5, <1>6, Zenon

-----------------------------------------------------------------------------
(* Steps that leave the disk alone. *)

\* Within its attempt the process may go anywhere.
LEMMA HeldOnto ==
  ASSUME proc.pc \in InAttempt, NEW next \in InAttempt
  PROVE  /\ Onto(next) /\ next \notin Grounded \cup {"finish"}
         /\ proc.pc \notin {"down", "return", "message.completed"}
<1>1. /\ proc.pc \in Held /\ proc.pc \notin Passing \cup {"transition.ensure", "flow.completed"}
      /\ next \notin Grounded \cup {"finish"} /\ proc.pc \notin {"down", "return", "message.completed"}
  BY Zenon DEF InAttempt, Undispatched, Held, Passing, Grounded
<1> QED
  BY <1>1, Zenon DEF Onto

\* The steps of an attempt on its way to its result.
LEMMA AttemptMoves ==
  ASSUME IInv, IInv', RInv,
         \/ ProviderDispatch \/ ProviderReturns \/ ProviderReturned \/ AttemptCommit
         \/ ToolPreflight \/ ToolPreflightReturns \/ ToolStart \/ ToolReturns \/ ToolLostEnd
  PROVE  RInv'
<1> USE DEF At
<1>1. ASSUME proc.pc \in InAttempt, UNCHANGED disk, NEW error, Fail(error, TRUE)
      PROVE  RInv'
  BY <1>1, HeldOnto, FailKeeps, Zenon
<1>2. ASSUME proc.pc \in InAttempt, UNCHANGED disk, NEW outcome, NEW next \in InAttempt,
             Persist(outcome, next) \/ Goto(next)
      PROVE  RInv'
  BY <1>2, HeldOnto, GoKeeps, Zenon
<1>3. ASSUME NEW pc \in InAttempt, proc.pc = pc PROVE proc.pc \in InAttempt
  BY <1>3, Zenon
<1>4. /\ {"provider.claim", "provider.flight", "provider.returned", "attempt.commit", "attempt.terminal",
          "tool.preflight", "tool.preflighting", "tool.started", "tool.claim", "tool.flight", "tool.lost",
          "tool.lost.end"} \subseteq InAttempt
  BY Zenon DEF InAttempt, Undispatched
<1>5. CASE ProviderDispatch
  BY <1>2, <1>4, <1>5, Zenon DEF ProviderDispatch
<1>6. CASE ProviderReturns
  BY <1>2, <1>4, <1>6, Zenon DEF ProviderReturns
<1>7. CASE ProviderReturned
  <2>1. proc.outcome \in Answers \cup {"failed", "lost", "cancelled"} /\ proc.pc = "provider.returned"
    BY <1>7, Zenon DEF ProviderReturned, IInv, OutcomeFits
  <2>2. proc.outcome = "cancelled" => ~effect_dispatch_allowed
    BY <1>7, <2>1, Zenon DEF IInv, OutcomeFits, effect_dispatch_allowed, Flagged, Bounded, Permits
  <2>3. UNCHANGED disk
    BY <1>7, Zenon DEF ProviderReturned
  <2>4. CASE ~effect_dispatch_allowed
    BY <1>2, <1>4, <1>7, <2>1, <2>3, <2>4, Zenon DEF ProviderReturned
  <2>5. CASE effect_dispatch_allowed
    <3>1. \/ Goto("attempt.terminal") \/ Fail("runtime_error", TRUE) \/ Goto("attempt.commit")
      BY <1>7, <2>1, <2>2, <2>5, Zenon DEF ProviderReturned, Answers
    <3> QED
      BY <1>1, <1>2, <1>4, <2>1, <2>3, <3>1, Zenon
  <2> QED
    BY <2>4, <2>5, Zenon
<1>8. CASE AttemptCommit
  BY <1>2, <1>4, <1>8, Zenon DEF AttemptCommit
<1>9. CASE ToolPreflight
  BY <1>1, <1>2, <1>4, <1>9, Zenon DEF ToolPreflight
<1>10. CASE ToolPreflightReturns
  BY <1>1, <1>2, <1>4, <1>10, Zenon DEF ToolPreflightReturns
<1>11. CASE ToolStart
  BY <1>2, <1>4, <1>11, Zenon DEF ToolStart
<1>12. CASE ToolReturns
  BY <1>2, <1>4, <1>12, Zenon DEF ToolReturns
<1>13. CASE ToolLostEnd
  BY <1>1, <1>4, <1>13, Zenon DEF ToolLostEnd, Local
<1> QED
  BY <1>5, <1>6, <1>7, <1>8, <1>9, <1>10, <1>11, <1>12, <1>13, Zenon

\* The other steps that only move the process.
LEMMA FlowMoves ==
  ASSUME IInv, IInv', RInv, TransitionEnsure \/ TurnEnd \/ ToolEnded \/ ClaimTerminal
  PROVE  RInv'
<1> USE DEF At
<1>1. CASE TransitionEnsure
  <2>0. proc.pc = "transition.ensure" /\ UNCHANGED disk
    BY <1>1, Zenon DEF TransitionEnsure, Local
  <2>1. CASE ~effect_dispatch_allowed
    BY <1>1, <2>0, <2>1, FailKeeps, Zenon DEF TransitionEnsure
  <2>2. CASE effect_dispatch_allowed
    <3>1. PICK next \in {"phase", "flow.boundary"} : proc' = [proc EXCEPT !.phase = @ + 1, !.pc = next]
      BY <1>1, <2>2, Zenon DEF TransitionEnsure
    <3>2. /\ StreamFields /\ SnapshotFields /\ proc'.pc = next /\ proc'.phase = proc.phase + 1
      BY <3>1, ProcTyped, Zenon DEF StreamFields, SnapshotFields, Processes
    <3>3. PhaseMark(proc) <= PhaseMark(proc') /\ TransitionMark(proc) <= TransitionMark(proc')
      <4>1. /\ PhaseMark(proc) = proc.phase + 1 /\ TransitionMark(proc) = proc.phase + 1
            /\ PhaseMark(proc') = (proc.phase + 1) + 0 /\ TransitionMark(proc') = (proc.phase + 1) + 0
        BY <2>0, <3>1, <3>2, Zenon DEF PhaseMark, TransitionMark, Passing
      <4>2. proc.phase \in Nat
        BY ProcTyped, Zenon
      <4> QED
        BY <4>1, <4>2
    <3>4. Ahead(proc, proc')
      <4>1. proc.turns <= proc'.turns /\ proc.tools <= proc'.tools
        BY <3>2, ProcTyped DEF SnapshotFields
      <4> QED
        BY <2>0, <3>3, <4>1, Zenon DEF Ahead
    <3>5. /\ {proc.pc, next} \subseteq Working \ Held
          /\ proc'.pc \notin Grounded \cup {"finish", "attempt.record"}
      BY <2>0, <3>1, <3>2, Zenon DEF Working, Held, Intending, InAttempt, Undispatched, Grounded
    <3>6. Onward
      BY <2>0, <3>2, <3>4, <3>5, Zenon DEF Onward
    <3> QED
      BY <2>0, <3>2, <3>5, <3>6, MoveKeeps, Zenon
  <2> QED
    BY <2>1, <2>2, Zenon
<1>2. CASE TurnEnd
  <2>0. proc.pc = "turn.end" /\ UNCHANGED disk
    BY <1>2, Zenon DEF TurnEnd, Local
  <2>1. proc.outcome \in {"done", "bad", "tool"}
    BY <2>0, Zenon DEF IInv, OutcomeFits, Answers, Answered
  <2>2. (\E error : Fail(error, TRUE)) \/ Goto("phase.boundary") \/ Goto("tool")
    BY <1>2, <2>1, Zenon DEF TurnEnd
  <2>3. /\ Onto("phase.boundary") /\ "phase.boundary" \notin Grounded \cup {"finish"}
        /\ Onto("tool") /\ "tool" \notin Grounded \cup {"finish"}
    BY <2>0, Zenon DEF Onto, Passing, Working, Held, Intending, InAttempt, Undispatched, Grounded
  <2> QED
    BY <2>0, <2>2, <2>3, FailKeeps, GoKeeps, Zenon
<1>3. CASE ToolEnded
  BY <1>3, FailKeeps, Zenon DEF ToolEnded, Local
<1>4. CASE ClaimTerminal
  <2>1. /\ StreamFields /\ SnapshotFields /\ proc'.phase = proc.phase
        /\ proc'.recovery_failed = proc.recovery_failed /\ proc'.event_commit_failed = proc.event_commit_failed
        /\ proc'.pc = IF proc.recovery_failed \/ proc.event_commit_failed THEN "finish" ELSE "terminal"
        /\ proc.pc = "claim" /\ UNCHANGED disk
    BY <1>4, ProcTyped, Zenon DEF ClaimTerminal, StreamFields, SnapshotFields, Processes
  <2>2. /\ Onto(proc'.pc) /\ proc'.pc \notin Grounded /\ (proc'.pc = "finish" => Undecided')
    BY <2>1, Zenon DEF Onto, Ending, Grounded, Undecided
  <2> QED
    BY <2>1, <2>2, OntoOnward, MoveKeeps, Zenon
<1> QED
  BY <1>1, <1>2, <1>3, <1>4, Zenon

-----------------------------------------------------------------------------
(* The snapshot grows, or is replayed. *)

\* A snapshot without an end has no terminal record, and its Run has not ended.
LEMMA NotEnded ==
  ASSUME IInv, Snapshot, EventsFollowSnapshot, ~Terminal(recovery)
  PROVE  /\ \A i \in DOMAIN recovery : recovery[i][1] # "terminal"
         /\ \A i \in DOMAIN events : events[i][1] \notin Ends
<1>1. ASSUME NEW i \in DOMAIN recovery, recovery[i][1] = "terminal"
      PROVE  FALSE
  <2>1. i = Len(recovery)
    BY <1>1, Zenon DEF Snapshot
  <2>2. recovery # <<>>
    BY <1>1
  <2> QED
    BY <1>1, <2>1, <2>2, Zenon DEF Terminal
<1> QED
  BY <1>1, Zenon DEF EventsFollowSnapshot, Ends

LEMMA SnapshotGrows ==
  ASSUME IInv, Snapshot, EventsFollowSnapshot, ~Terminal(recovery),
         NEW r \in SnapshotRecords, r \notin Records, recovery' = Append(recovery, r),
         r[1] = "attempt" => r[2] \in intents /\ r[3] # "none" /\ results[r[2]] = r[3],
         UNCHANGED <<intents, results, events>>
  PROVE  /\ Snapshot' /\ EventsFollowSnapshot' /\ Records' = Records \cup {r}
         /\ RecordedAttempts' = RecordedAttempts \cup (IF r[1] = "attempt" THEN {r[2]} ELSE {})
         /\ Len(recovery') = Len(recovery) + 1 /\ recovery'[Len(recovery) + 1] = r
         /\ \A i \in 1..Len(recovery) : recovery'[i] = recovery[i]
<1>1. /\ Len(recovery') = Len(recovery) + 1 /\ recovery'[Len(recovery) + 1] = r /\ Len(recovery) \in Nat
      /\ \A i \in 1..Len(recovery) : recovery'[i] = recovery[i]
      /\ DOMAIN recovery' = 1..(Len(recovery) + 1) /\ DOMAIN recovery = 1..Len(recovery)
  BY DEF IInv, Types
<1>2. /\ \A i \in DOMAIN recovery : recovery[i][1] # "terminal"
      /\ \A i \in DOMAIN events : events[i][1] \notin Ends
  BY NotEnded, Zenon
<1>3. /\ DOMAIN recovery' = DOMAIN recovery \cup {Len(recovery) + 1} /\ Len(recovery) + 1 \notin DOMAIN recovery
  BY <1>1
<1>0. \A i \in DOMAIN recovery : recovery'[i] = recovery[i] /\ i \in DOMAIN recovery'
  BY <1>1, <1>3, Zenon
<1> DEFINE top == Len(recovery) + 1
<1>10. /\ top \in DOMAIN recovery' /\ recovery'[top] = r
       /\ \A i \in DOMAIN recovery' : i \in DOMAIN recovery \/ i = top
  BY <1>1, <1>3, Zenon
<1> HIDE DEF top
<1>4. Records' = Records \cup {r}
  <2>1. ASSUME NEW x \in Records' PROVE x \in Records \cup {r}
    <3>1. PICK i \in DOMAIN recovery' : x = recovery'[i]
      BY <2>1, Zenon DEF Records
    <3>2. CASE i \in DOMAIN recovery
      BY <1>0, <3>1, <3>2, Zenon DEF Records
    <3>3. CASE i = top
      BY <1>10, <3>1, <3>3, Zenon
    <3> QED
      BY <1>10, <3>2, <3>3, Zenon
  <2>2. ASSUME NEW x \in Records PROVE x \in Records'
    <3>1. PICK i \in DOMAIN recovery : x = recovery[i]
      BY <2>2, Zenon DEF Records
    <3>2. i \in DOMAIN recovery' /\ x = recovery'[i]
      BY <1>0, <3>1, Zenon
    <3> QED
      BY <3>2, Zenon DEF Records
  <2>3. r \in Records'
    BY <1>10, Zenon DEF Records
  <2> QED
    BY <2>1, <2>2, <2>3, Zenon
<1>5. RecordedAttempts' = RecordedAttempts \cup (IF r[1] = "attempt" THEN {r[2]} ELSE {})
  <2>1. \A a : a \in RecordedAttempts <=> \E i \in DOMAIN recovery : recovery[i][1] = "attempt" /\ recovery[i][2] = a
    BY Zenon DEF RecordedAttempts
  <2>2. \A a : a \in RecordedAttempts' <=> \E i \in DOMAIN recovery' : recovery'[i][1] = "attempt" /\ recovery'[i][2] = a
    BY Zenon DEF RecordedAttempts
  <2>3. ASSUME NEW a \in RecordedAttempts PROVE a \in RecordedAttempts'
    <3>1. PICK i \in DOMAIN recovery : recovery[i][1] = "attempt" /\ recovery[i][2] = a
      BY <2>1, <2>3, Zenon
    <3>2. i \in DOMAIN recovery' /\ recovery'[i] = recovery[i]
      BY <1>0, Zenon
    <3> QED
      BY <2>2, <3>1, <3>2, Zenon
  <2>4. ASSUME r[1] = "attempt" PROVE r[2] \in RecordedAttempts'
    <3>1. top \in DOMAIN recovery' /\ recovery'[top][1] = "attempt" /\ recovery'[top][2] = r[2]
      BY <1>10, <2>4, Zenon
    <3> QED
      BY <2>2, <3>1, Zenon
  <2>5. ASSUME NEW a \in RecordedAttempts', a \notin RecordedAttempts PROVE r[1] = "attempt" /\ a = r[2]
    <3>1. PICK i \in DOMAIN recovery' : recovery'[i][1] = "attempt" /\ recovery'[i][2] = a
      BY <2>2, <2>5, Zenon
    <3>2. i \notin DOMAIN recovery
      BY <1>0, <2>1, <2>5, <3>1, Zenon
    <3>3. i = top
      BY <1>10, <3>2, Zenon
    <3> QED
      BY <1>10, <3>1, <3>3, Zenon
  <2> QED
    BY <2>3, <2>4, <2>5, Zenon
<1>6. ASSUME NEW i \in DOMAIN recovery'
      PROVE  /\ recovery'[i][1] = "attempt" =>
                  /\ recovery'[i][2] \in intents' /\ recovery'[i][3] # "none"
                  /\ results'[recovery'[i][2]] = recovery'[i][3]
             /\ recovery'[i][1] = "terminal" => i = Len(recovery')
             /\ \A j \in DOMAIN recovery' : i # j => recovery'[i] # recovery'[j]
  <2>1. recovery'[i][1] = "attempt" =>
          /\ recovery'[i][2] \in intents' /\ recovery'[i][3] # "none"
          /\ results'[recovery'[i][2]] = recovery'[i][3]
    <3>1. CASE i \in DOMAIN recovery
      BY <1>0, <3>1, Zenon DEF Snapshot
    <3>2. CASE i = Len(recovery) + 1
      BY <1>1, <3>2, Zenon
    <3> QED
      BY <1>3, <3>1, <3>2, Zenon
  <2>2. recovery'[i][1] = "terminal" => i = Len(recovery')
    BY <1>1, <1>2, <1>3, Zenon
  <2>3. \A j \in DOMAIN recovery : recovery'[j] = recovery[j] /\ recovery'[j] # r
    BY <1>1, Zenon DEF Records
  <2>4. ASSUME NEW j \in DOMAIN recovery', i # j PROVE recovery'[i] # recovery'[j]
    <3>1. CASE i \in DOMAIN recovery /\ j \in DOMAIN recovery
      <4>1. recovery[i] # recovery[j]
        BY <2>4, <3>1, Zenon DEF Snapshot
      <4> QED
        BY <1>0, <3>1, <4>1, Zenon
    <3>2. CASE i \in DOMAIN recovery /\ j = Len(recovery) + 1
      BY <1>1, <2>3, <3>2, Zenon
    <3>3. CASE i = Len(recovery) + 1 /\ j \in DOMAIN recovery
      BY <1>1, <2>3, <3>3, Zenon
    <3> QED
      BY <1>3, <2>4, <3>1, <3>2, <3>3, Zenon
  <2> QED
    BY <2>1, <2>2, <2>4, Zenon
<1>7. \E a \in Attempts : intents' \subseteq RecordedAttempts' \cup {a}
  BY <1>5, Zenon DEF Snapshot
<1>8. Snapshot'
  BY <1>6, <1>7, Zenon DEF Snapshot
<1>9. EventsFollowSnapshot'
  <2>1. ASSUME NEW i \in DOMAIN events, events[i][1] \in Shown
        PROVE  \E j \in DOMAIN recovery' : recovery'[j] = Cause(events[i])
    <3>1. PICK j \in DOMAIN recovery : recovery[j] = Cause(events[i])
      BY <2>1, Zenon DEF EventsFollowSnapshot, Shown
    <3> QED
      BY <1>1, <1>3, <3>1, Zenon
  <2> QED
    BY <1>2, <2>1, Zenon DEF EventsFollowSnapshot, Shown, Ends
<1> QED
  BY <1>1, <1>4, <1>5, <1>8, <1>9, Zenon

\* Where a process goes after a record: past it, and with no attempt of its own.
Past(r) ==
  /\ proc.pc # "down" /\ proc'.pc \notin Held
  /\ proc'.pc \in Working =>
       proc.pc \in Working \cup InAttempt /\ Ahead(proc, proc') /\ Behind(r, proc')

LEMMA ProgressGrows ==
  ASSUME IInv, IInv', Progress, ~Replaying, NEW r \in SnapshotRecords, recovery' = Append(recovery, r),
         Past(r), proc'.recorded = proc.recorded, proc'.records = proc.records,
         proc'.consumed \subseteq RecordedAttempts',
         proc'.pc \in Working => intents' \subseteq proc'.completed \cup RecordedAttempts'
  PROVE  Progress'
<1>0. InAttempt \subseteq Held /\ "attempt.record" \in Held
  BY Zenon DEF Held
<1>1. /\ proc.recorded \in Nat /\ proc.records \in Nat /\ Len(recovery) \in Nat
      /\ \A i \in 1..Len(recovery) : recovery[i] \in SnapshotRecords
      /\ proc.recorded <= proc.records /\ proc.records <= Len(recovery) /\ Seen = Len(recovery)
  BY Positions, Zenon DEF Past, Progress, Seen
<1>2. /\ Len(recovery') = Len(recovery) + 1 /\ recovery'[Len(recovery) + 1] = r
      /\ \A i \in 1..Len(recovery) : recovery'[i] = recovery[i]
  BY DEF IInv, Types
<1>3. ~Replaying' /\ Seen' = Len(recovery) + 1
  BY <1>2, Zenon DEF Replaying, Seen
<1>4. proc'.recorded <= proc'.records /\ proc'.records <= Len(recovery')
  BY <1>1, <1>2
<1>5. ASSUME proc'.pc \in Working, NEW i \in 1..Seen'
      PROVE  Behind(recovery'[i], proc')
  <2>1. i \in 1..Len(recovery) \/ i = Len(recovery) + 1
    BY <1>1, <1>3, <1>5
  <2>2. CASE i \in 1..Len(recovery)
    <3>1. proc \in Processes /\ proc' \in Processes /\ Behind(recovery[i], proc) /\ recovery[i] \in SnapshotRecords
      BY <1>1, <1>5, <2>2, Zenon DEF Past, Progress, IInv, Types
    <3> QED
      BY <1>2, <1>5, <2>2, <3>1, BehindStays, Zenon DEF Past
  <2>3. CASE i = Len(recovery) + 1
    BY <1>2, <1>5, <2>3, Zenon DEF Past
  <2> QED
    BY <2>1, <2>2, <2>3, Zenon
<1> QED
  BY <1>0, <1>3, <1>4, <1>5, Zenon DEF Progress, Past

LEMMA ProgressReplays ==
  ASSUME IInv, IInv', Progress, Replaying, UNCHANGED <<recovery, intents>>,
         Past(recovery[proc.recorded + 1]), proc'.recorded = proc.recorded + 1, proc'.records = proc.records,
         proc'.consumed \subseteq RecordedAttempts,
         proc'.pc \in Working => proc.pc \in Working \ Held /\ proc'.completed = proc.completed
  PROVE  Progress'
<1>0. InAttempt \subseteq Held /\ "attempt.record" \in Held /\ RecordedAttempts' = RecordedAttempts
  BY Zenon DEF Held, RecordedAttempts
<1>1. /\ proc.recorded \in Nat /\ proc.records \in Nat /\ Len(recovery) \in Nat
      /\ \A i \in 1..Len(recovery) : recovery[i] \in SnapshotRecords
      /\ proc.recorded <= proc.records /\ proc.records = Len(recovery) /\ Seen = proc.recorded
      /\ proc.recorded + 1 <= Len(recovery)
  BY Positions, Zenon DEF Past, Progress, Seen
<1>2. /\ proc'.recorded <= proc'.records /\ proc'.records <= Len(recovery')
      /\ Replaying' => proc'.records = Len(recovery')
      /\ Seen' = proc.recorded + 1
  BY <1>1 DEF Seen, Replaying
<1>3. ASSUME proc'.pc \in Working, NEW i \in 1..Seen'
      PROVE  Behind(recovery'[i], proc')
  <2>1. (i \in 1..Seen /\ i \in 1..Len(recovery)) \/ i = proc.recorded + 1
    BY <1>1, <1>2, <1>3
  <2>2. CASE i \in 1..Seen /\ i \in 1..Len(recovery)
    <3>1. proc \in Processes /\ proc' \in Processes /\ Behind(recovery[i], proc) /\ recovery[i] \in SnapshotRecords
      BY <1>1, <1>3, <2>2, Zenon DEF Past, Progress, IInv, Types
    <3> QED
      BY <1>3, <2>2, <3>1, BehindStays, Zenon DEF Past
  <2>3. CASE i = proc.recorded + 1
    BY <1>3, <2>3, Zenon DEF Past
  <2> QED
    BY <2>1, <2>2, <2>3, Zenon
<1> QED
  BY <1>0, <1>2, <1>3, Zenon DEF Progress, Past

\* A step that appends a record of its own.
LEMMA AppendKeeps ==
  ASSUME IInv, IInv', RInv, proc.pc \notin {"down", "return", "message.completed"},
         ensure_live_append, NEW r \in SnapshotRecords, r \notin Records, recovery' = Append(recovery, r),
         r[1] = "attempt" => r[2] \in intents /\ r[3] # "none" /\ results[r[2]] = r[3],
         UNCHANGED <<intents, results, events, synced, contexts, history>>,
         StreamFields, proc'.recorded = proc.recorded, proc'.records = proc.records, Past(r),
         proc'.consumed \subseteq RecordedAttempts',
         proc'.pc \in Working => intents' \subseteq proc'.completed \cup RecordedAttempts', Grounds'
  PROVE  RInv'
<1>1. Snapshot' /\ EventsFollowSnapshot'
  BY SnapshotGrows, Zenon DEF RInv, ensure_live_append
<1>2. StreamsAgree' /\ Closed'
  BY StreamsStay, StaysOpen, Zenon DEF RInv
<1>3. Progress'
  BY ProgressGrows, Zenon DEF RInv, ensure_live_append
<1> QED
  BY <1>1, <1>2, <1>3, Zenon DEF RInv

\* A step that replays the next record.
LEMMA ReplayKeeps ==
  ASSUME IInv, IInv', RInv, proc.pc \notin {"down", "return", "message.completed"}, Replaying, UNCHANGED disk,
         StreamFields, proc'.recorded = proc.recorded + 1, proc'.records = proc.records,
         Past(recovery[proc.recorded + 1]), proc'.consumed \subseteq RecordedAttempts,
         proc'.pc \in Working => proc.pc \in Working \ Held /\ proc'.completed = proc.completed, Grounds'
  PROVE  RInv'
<1>0. UNCHANGED <<recovery, intents, results>> /\ UNCHANGED <<events, synced, contexts>> /\ UNCHANGED history
  BY Zenon DEF disk
<1>1. Snapshot' /\ EventsFollowSnapshot'
  BY <1>0, SnapshotStays, EventsStay, Zenon DEF RInv
<1>2. StreamsAgree' /\ Closed'
  BY <1>0, StreamsStay, StaysOpen, Zenon DEF RInv
<1>3. Progress'
  BY <1>0, ProgressReplays, Zenon DEF RInv
<1> QED
  BY <1>1, <1>2, <1>3, Zenon DEF RInv

\* A boundary, whose record is new or the next one to replay.
LEMMA BoundaryKeeps ==
  ASSUME IInv, IInv', RInv, proc.pc \notin {"down", "return", "message.completed"},
         NEW r \in SnapshotRecords, r[1] # "attempt", NEW next, Boundary(r, next), SnapshotOnly,
         ensure_live_append => r \notin Records,
         next \notin Held \cup {"finish", "message", "tool.restarted", "tool.end"},
         next \in Working => proc.pc \in Working \ Held,
         \A q \in Processes :
           /\ q.pc = next /\ q.phase = proc.phase /\ q.turns = proc.turns /\ q.tools = proc.tools
           /\ next \in Working
           => Ahead(proc, q) /\ Behind(r, q),
         next = "phase.completed" => r = <<"phase", proc.phase + 1>>,
         next = "flow.completed" => r = <<"flow">>,
         next = "terminal.event" => r = <<"terminal", proc.error # "none", proc.emitted + 1>>
  PROVE  RInv'
<1>0. /\ proc \in Processes /\ proc' \in Processes
      /\ UNCHANGED <<intents, results, events, synced, contexts, history>>
      /\ proc.pc # "down"
  BY Zenon DEF IInv, Types, SnapshotOnly
<1>1. \/ /\ Replaying /\ recovery[proc.recorded + 1] = r
         /\ proc' = [proc EXCEPT !.pc = next, !.recorded = @ + 1] /\ UNCHANGED recovery
      \/ ensure_live_append /\ recovery' = Append(recovery, r) /\ Goto(next)
      \/ RecoveryDiverges
  BY Zenon DEF Boundary
<1>2. ASSUME proc'.pc = next, proc'.phase = proc.phase, proc'.error = proc.error, proc'.emitted = proc.emitted,
             r \in Records', next = "terminal.event" => recovery' # <<>> /\ recovery'[Len(recovery')] = r
      PROVE  Grounds'
  BY <1>2, Zenon DEF Grounds, Bound
<1>3. ASSUME proc'.pc = next, proc'.phase = proc.phase, proc'.turns = proc.turns, proc'.tools = proc.tools
      PROVE  Past(r)
  BY <1>0, <1>3, Zenon DEF Past
<1>4. CASE /\ Replaying /\ recovery[proc.recorded + 1] = r
           /\ proc' = [proc EXCEPT !.pc = next, !.recorded = @ + 1] /\ UNCHANGED recovery
  <2>1. /\ StreamFields /\ proc'.recorded = proc.recorded + 1 /\ proc'.records = proc.records
        /\ proc'.consumed = proc.consumed /\ proc'.completed = proc.completed
        /\ proc'.pc = next /\ proc'.phase = proc.phase /\ proc'.turns = proc.turns /\ proc'.tools = proc.tools
        /\ proc'.error = proc.error
    BY <1>0, <1>4, ZenonT(60) DEF StreamFields, Processes
  <2>2. UNCHANGED disk
    BY <1>0, <1>4, Zenon DEF disk
  <2>3. proc.recorded + 1 \in DOMAIN recovery
    <3>1. /\ proc.recorded \in Nat /\ proc.recorded + 1 <= Len(recovery) /\ Len(recovery) \in Nat
          /\ DOMAIN recovery = 1..Len(recovery)
      BY <1>0, <1>4, Positions, Zenon DEF RInv
    <3> QED
      BY <3>1
  <2>4. r \in Records'
    BY <1>4, <2>3, Zenon DEF Records
  <2>5. r[1] = "terminal" => recovery # <<>> /\ recovery[Len(recovery)] = r
    <3>1. r[1] = "terminal" => proc.recorded + 1 = Len(recovery)
      BY <1>4, <2>3, Zenon DEF RInv, Snapshot
    <3>2. recovery # <<>>
      BY <2>3
    <3> QED
      BY <1>4, <3>1, <3>2, Zenon
  <2>6. next = "terminal.event" => recovery' # <<>> /\ recovery'[Len(recovery')] = r
    <3>1. next = "terminal.event" => r[1] = "terminal"
      OBVIOUS
    <3> QED
      BY <1>4, <2>5, <3>1, Zenon
  <2>7. Grounds'
    BY <1>2, <2>1, <2>4, <2>6, Zenon DEF StreamFields
  <2>8. Past(recovery[proc.recorded + 1]) /\ proc'.consumed \subseteq RecordedAttempts
    BY <1>0, <1>3, <1>4, <2>1, Zenon DEF RInv, Progress
  <2> QED
    BY <1>4, <2>1, <2>2, <2>7, <2>8, ReplayKeeps, Zenon
<1>5. CASE ensure_live_append /\ recovery' = Append(recovery, r) /\ Goto(next)
  <2>1. /\ StreamFields /\ proc'.recorded = proc.recorded /\ proc'.records = proc.records
        /\ proc'.consumed = proc.consumed /\ proc'.completed = proc.completed
        /\ proc'.pc = next /\ proc'.phase = proc.phase /\ proc'.turns = proc.turns /\ proc'.tools = proc.tools
        /\ proc'.error = proc.error
    BY <1>0, <1>5, ZenonT(60) DEF Goto, StreamFields, Processes
  <2>2. /\ RecordedAttempts' = RecordedAttempts \cup {} /\ Records' = Records \cup {r}
        /\ Len(recovery') = Len(recovery) + 1 /\ recovery'[Len(recovery) + 1] = r
    BY <1>0, <1>5, SnapshotGrows, Zenon DEF RInv, ensure_live_append
  <2>3. recovery' # <<>>
    BY <1>5 DEF IInv, Types
  <2>4. Grounds'
    BY <1>2, <2>1, <2>2, <2>3, Zenon DEF StreamFields
  <2>5. proc'.consumed \subseteq RecordedAttempts'
    BY <1>0, <2>1, <2>2, Zenon DEF RInv, Progress
  <2>6. proc'.pc \in Working => intents' \subseteq proc'.completed \cup RecordedAttempts'
    BY <1>0, <2>1, <2>2, Zenon DEF RInv, Progress
  <2> QED
    BY <1>0, <1>3, <1>5, <2>1, <2>4, <2>5, <2>6, AppendKeeps, Zenon
<1>6. CASE RecoveryDiverges
  <2>1. UNCHANGED disk
    BY <1>0, <1>6, Zenon DEF RecoveryDiverges, disk
  <2> QED
    BY <1>6, <2>1, DivergeKeeps, Zenon
<1> QED
  BY <1>1, <1>4, <1>5, <1>6, Zenon

\* What lies behind a process that has seen the whole snapshot is no new record.
LEMMA NewRecord ==
  ASSUME IInv, Progress, proc.pc \in Working \cup InAttempt, ~Replaying, NEW r \in Records
  PROVE  Behind(r, proc) /\ r \in SnapshotRecords
<1>1. proc.pc # "down"
  BY Zenon DEF Working, InAttempt, Undispatched
<1>2. PICK i \in DOMAIN recovery : r = recovery[i]
  BY Zenon DEF Records
<1>3. i \in 1..Seen /\ i \in 1..Len(recovery)
  BY <1>1, <1>2, Positions, Zenon DEF Seen
<1> QED
  BY <1>1, <1>2, <1>3, Positions, Zenon DEF Progress

\* The boundaries of Phases, transitions and the Flow.
LEMMA FlowBoundaries ==
  ASSUME IInv, IInv', RInv, SnapshotOnly,
         \/ At("phase.boundary") /\ Boundary(<<"phase", proc.phase + 1>>, "phase.completed")
         \/ At("transition") /\ Boundary(<<"transition", proc.phase + 1>>, "transition.ensure")
         \/ At("flow.boundary") /\ Boundary(<<"flow">>, "flow.completed")
  PROVE  RInv'
<1> USE DEF At
<1>0. proc \in Processes /\ proc.phase \in Nat /\ proc.phase + 1 \in Nat /\ proc.turns \in Nat /\ proc.tools \in Nat
  BY ProcTyped, Zenon
<1>1. ASSUME proc.pc \in Working, ensure_live_append, NEW r \in Records
      PROVE  Behind(r, proc)
  BY <1>1, NewRecord, Zenon DEF RInv, ensure_live_append
<1>2. CASE At("phase.boundary") /\ Boundary(<<"phase", proc.phase + 1>>, "phase.completed")
  <2> DEFINE r == <<"phase", proc.phase + 1>>
  <2>0. /\ r \in SnapshotRecords /\ r[1] = "phase" /\ r[2] = proc.phase + 1
        /\ proc.pc = "phase.boundary" /\ proc.pc \in Working \ Held
        /\ "phase.completed" \notin Held
    BY <1>0, <1>2, Fields, Zenon DEF SnapshotRecords, Working, Held, Intending, InAttempt, Undispatched
  <2>1. PhaseMark(proc) = proc.phase + 0
    BY <2>0, Zenon DEF PhaseMark, Passing
  <2>2. ~Behind(r, proc)
    BY <1>0, <2>0, <2>1 DEF Behind
  <2>3. ensure_live_append => r \notin Records
    BY <1>1, <2>0, <2>2, Zenon
  <2>4. ASSUME NEW q \in Processes, q.pc = "phase.completed", q.phase = proc.phase, q.turns = proc.turns,
               q.tools = proc.tools
        PROVE  Ahead(proc, q) /\ Behind(r, q)
    <3>1. Ahead(proc, q)
      <4>1. proc.turns <= q.turns /\ proc.tools <= q.tools
        BY <1>0, <2>4
      <4> QED
        BY <1>0, <2>0, <2>4, <4>1, SamePhase, Zenon DEF Passing
    <3>2. PhaseMark(q) = proc.phase + 1
      BY <2>4, Zenon DEF PhaseMark, Passing
    <3>3. proc.phase + 1 <= proc.phase + 1
      BY <1>0
    <3> QED
      BY <2>0, <3>1, <3>2, <3>3, Zenon DEF Behind
  <2> QED
    <3>1. r = <<"phase", proc.phase + 1>> /\ Boundary(r, "phase.completed")
      BY <1>2, Zenon
    <3> HIDE DEF r
    <3> QED
      BY <2>0, <2>3, <2>4, <3>1, BoundaryKeeps, SMTT(60)
<1>3. CASE At("transition") /\ Boundary(<<"transition", proc.phase + 1>>, "transition.ensure")
  <2> DEFINE r == <<"transition", proc.phase + 1>>
  <2>0. /\ r \in SnapshotRecords /\ r[1] = "transition" /\ r[2] = proc.phase + 1
        /\ proc.pc = "transition" /\ proc.pc \in Working \ Held
        /\ "transition.ensure" \notin Held
    BY <1>0, <1>3, Fields, Zenon DEF SnapshotRecords, Working, Held, Intending, InAttempt, Undispatched
  <2>1. TransitionMark(proc) = proc.phase + 0
    BY <2>0, Zenon DEF TransitionMark
  <2>2. ~Behind(r, proc)
    BY <1>0, <2>0, <2>1 DEF Behind
  <2>3. ensure_live_append => r \notin Records
    BY <1>1, <2>0, <2>2, Zenon
  <2>4. ASSUME NEW q \in Processes, q.pc = "transition.ensure", q.phase = proc.phase, q.turns = proc.turns,
               q.tools = proc.tools
        PROVE  Ahead(proc, q) /\ Behind(r, q)
    <3>1. Ahead(proc, q)
      <4>1. proc.turns <= q.turns /\ proc.tools <= q.tools
        BY <1>0, <2>4
      <4> QED
        BY <1>0, <2>0, <2>4, <4>1, SamePhase, Zenon DEF Passing
    <3>2. TransitionMark(q) = proc.phase + 1
      BY <2>4, Zenon DEF TransitionMark
    <3>3. proc.phase + 1 <= proc.phase + 1
      BY <1>0
    <3> QED
      BY <2>0, <3>1, <3>2, <3>3, Zenon DEF Behind
  <2> QED
    BY <1>3, <2>0, <2>3, <2>4, BoundaryKeeps, ZenonT(60)
<1>4. CASE At("flow.boundary") /\ Boundary(<<"flow">>, "flow.completed")
  <2> DEFINE r == <<"flow">>
  <2>0. /\ r \in SnapshotRecords /\ r[1] = "flow" /\ proc.pc = "flow.boundary" /\ proc.pc \in Working \ Held
        /\ "flow.completed" \notin Held
    BY <1>4, Fields, Zenon DEF SnapshotRecords, Working, Held, Intending, InAttempt, Undispatched
  <2>1. ensure_live_append => r \notin Records
    BY <1>1, <2>0, Zenon DEF Behind
  <2>2. ASSUME NEW q \in Processes, q.pc = "flow.completed", q.phase = proc.phase, q.turns = proc.turns,
               q.tools = proc.tools
        PROVE  Ahead(proc, q) /\ Behind(r, q)
    <3>1. proc.turns <= q.turns /\ proc.tools <= q.tools
      BY <1>0, <2>2
    <3> QED
      BY <1>0, <2>0, <2>2, <3>1, SamePhase, Zenon DEF Passing, Behind
  <2> QED
    <3>1. r = <<"flow">> /\ Boundary(r, "flow.completed")
      BY <1>4, Zenon
    <3> HIDE DEF r
    <3>2. r \in SnapshotRecords /\ r[1] # "attempt"
      BY <2>0, Zenon
    <3>3. /\ "flow.completed" \notin Held \cup {"finish", "message", "tool.restarted", "tool.end"}
          /\ proc.pc \in Working \ Held /\ proc.pc \notin {"down", "return", "message.completed"}
          /\ "flow.completed" # "phase.completed" /\ "flow.completed" # "terminal.event"
      BY <2>0, Zenon
    <3>4. \A q \in Processes :
            /\ q.pc = "flow.completed" /\ q.phase = proc.phase /\ q.turns = proc.turns /\ q.tools = proc.tools
            /\ "flow.completed" \in Working
            => Ahead(proc, q) /\ Behind(r, q)
      BY <2>2, Zenon
    <3> QED
      BY <2>1, <3>1, <3>2, <3>3, <3>4, BoundaryKeeps, SMTT(60)
<1> QED
  BY <1>2, <1>3, <1>4, Zenon

\* terminal_boundary.
LEMMA TerminalBoundaryKeeps ==
  ASSUME IInv, IInv', RInv, TerminalBoundary
  PROVE  RInv'
<1>0. proc.pc = "terminal" /\ SnapshotOnly
  BY Zenon DEF TerminalBoundary, At
<1>1. CASE RecoveryDiverges
  <2>1. UNCHANGED disk
    BY <1>0, <1>1, Zenon DEF RecoveryDiverges, disk, SnapshotOnly
  <2> QED
    BY <1>0, <1>1, <2>1, DivergeKeeps, Zenon
<1>2. CASE Boundary(<<"terminal", proc.error # "none", proc.emitted + 1>>, "terminal.event")
  <2> DEFINE r == <<"terminal", proc.error # "none", proc.emitted + 1>>
  <2>1. r \in SnapshotRecords /\ r[1] = "terminal"
    <3>1. proc.emitted \in Nat
      BY Zenon DEF IInv, Types, Processes
    <3>2. proc.emitted + 1 \in Nat /\ (proc.error # "none") \in BOOLEAN
      BY <3>1
    <3> QED
      BY <3>2 DEF SnapshotRecords
  <2>2. ensure_live_append => r \notin Records
    BY <2>1, NotEnded, Zenon DEF RInv, ensure_live_append, Records
  <2>3. "terminal.event" \notin Held \cup Working
    BY Zenon DEF Working, Held, Intending, InAttempt, Undispatched
  <2> HIDE DEF r
  <2>4. Boundary(r, "terminal.event")
    BY <1>2 DEF r
  <2>5. r = <<"terminal", proc.error # "none", proc.emitted + 1>>
    BY DEF r
  <2> QED
    BY <1>0, <2>1, <2>2, <2>3, <2>4, <2>5, BoundaryKeeps, Zenon
<1> QED
  BY <1>1, <1>2, Zenon DEF TerminalBoundary

-----------------------------------------------------------------------------
(* Attempts. *)

\* The fields that an outcome leaves alone.
Kept(p) ==
  /\ p.phase = proc.phase /\ p.emitted = proc.emitted /\ p.prefix = proc.prefix
  /\ p.manifest = proc.manifest /\ p.manifests = proc.manifests
  /\ p.recorded = proc.recorded /\ p.records = proc.records /\ p.completed = proc.completed

\* What an outcome makes of the process: it is answered, or the Phase fails.
Answering(p, kind, outcome) ==
  /\ p \in Processes /\ Kept(p) /\ p.consumed = proc.consumed
  /\ p.turns = proc.turns /\ p.tools = proc.tools /\ p.cur = proc.cur
  /\ p.pc \in {"phase.failed", "message", "tool.restarted"}
  /\ p.pc = "message" => kind = "provider" /\ p.outcome = outcome
  /\ p.pc = "tool.restarted" => kind = "tool" /\ p.outcome = outcome

LEMMA ProviderAnswering ==
  ASSUME IInv, NEW outcome \in ProviderOutcomes
  PROVE  Answering(ProviderOutcome(outcome), "provider", outcome)
<1>0. proc \in Processes /\ ProviderOutcome(outcome) \in Processes
  BY ProcTyped, ProviderOutcomeTyped, Zenon
<1>1. CASE outcome = "cancelled"
  <2>1. ProviderOutcome(outcome) = [proc EXCEPT !.pc = "phase.failed", !.error = "cancelled"]
    BY <1>1, Zenon DEF ProviderOutcome, Answers
  <2> QED
    BY <1>0, <2>1, ZenonT(60) DEF Processes, Answering, Kept
<1>2. CASE outcome = "failed"
  <2>1. ProviderOutcome(outcome) = [proc EXCEPT !.pc = "phase.failed", !.error = "provider_error"]
    BY <1>2, Zenon DEF ProviderOutcome, Answers
  <2> QED
    BY <1>0, <2>1, ZenonT(60) DEF Processes, Answering, Kept
<1>3. CASE outcome \in Answers
  <2>1. ProviderOutcome(outcome) = [proc EXCEPT !.pc = "message", !.outcome = outcome]
    BY <1>3, Zenon DEF ProviderOutcome, Answers
  <2> QED
    BY <1>0, <2>1, ZenonT(60) DEF Processes, Answering, Kept
<1> QED
  BY <1>1, <1>2, <1>3, Zenon DEF ProviderOutcomes

LEMMA ToolAnswering ==
  ASSUME IInv, NEW outcome \in ToolOutcomes
  PROVE  Answering(ToolOutcome(outcome), "tool", outcome)
<1>0. /\ proc \in Processes /\ {"phase.failed", "tool.restarted"} \subseteq PCs /\ "runtime_error" \in Errors
      /\ outcome \in Outcomes
  BY ProcTyped, Zenon DEF PCs, Working, Ending, Errors, Outcomes
<1>1. CASE outcome = "preflight"
  <2>1. ToolOutcome(outcome) = [proc EXCEPT !.pc = "phase.failed", !.error = "runtime_error"]
    BY <1>1, Zenon DEF ToolOutcome
  <2>2. ToolOutcome(outcome) \in Processes
    BY <1>0, <2>1, Zenon DEF Processes
  <2> QED
    BY <1>0, <2>1, <2>2, ZenonT(60) DEF Processes, Answering, Kept
<1>2. CASE outcome # "preflight"
  <2>1. ToolOutcome(outcome) = [proc EXCEPT !.pc = "tool.restarted", !.outcome = outcome]
    BY <1>2, Zenon DEF ToolOutcome
  <2>2. ToolOutcome(outcome) \in Processes
    BY <1>0, <2>1, Zenon DEF Processes
  <2> QED
    BY <1>0, <2>1, <2>2, ZenonT(60) DEF Processes, Answering, Kept
<1> QED
  BY <1>1, <1>2, Zenon

\* The numbers of a process that has begun an attempt.
Numbered(p, a) ==
  /\ p.turns = (IF a[1] = "provider" THEN a[2] ELSE proc.turns)
  /\ p.tools = (IF a[1] = "tool" THEN a[2] ELSE proc.tools)

\* What a process is after it has consumed an old attempt.
LEMMA ConsumeKeeps ==
  ASSUME IInv, NEW a \in Attempts, NEW outcome \in OutcomesOf(a)
  PROVE  LET q == Consume(a, outcome)
         IN  /\ q \in Processes /\ Kept(q) /\ Numbered(q, a) /\ q.consumed = proc.consumed \cup {a}
             /\ q.pc \in {"phase.failed", "message", "tool.restarted"}
             /\ q.pc = "message" => a[1] = "provider" /\ q.outcome = outcome
             /\ q.pc = "tool.restarted" => a[1] = "tool" /\ q.outcome = outcome
<1> DEFINE p == IF a[1] = "provider" THEN ProviderOutcome(outcome) ELSE ToolOutcome(outcome)
<1>1. a[1] \in {"provider", "tool"} /\ a[2] \in Nat
  BY DEF Attempts
<1>2. Answering(p, a[1], outcome)
  BY <1>1, ProviderAnswering, ToolAnswering, Zenon DEF OutcomesOf
<1>3. Consume(a, outcome) = [Began(p, a) EXCEPT !.consumed = @ \cup {a}]
  BY Zenon DEF Consume
<1> HIDE DEF p
<1> DEFINE b == Began(p, a)
<1>4. /\ b \in Processes /\ b.pc = p.pc /\ b.outcome = p.outcome /\ b.consumed = p.consumed /\ Numbered(b, a)
  BY <1>1, <1>2, Zenon DEF Began, Processes, Answering, Numbered
<1>5. Kept(b)
  BY <1>2, Zenon DEF Began, Processes, Answering, Kept
<1>6. Consume(a, outcome) = [b EXCEPT !.consumed = @ \cup {a}]
  BY <1>3, Zenon
<1> HIDE DEF b
<1> DEFINE q == Consume(a, outcome)
<1>7. q = [b EXCEPT !.consumed = @ \cup {a}]
  BY <1>6, Zenon
<1> HIDE DEF q
<1>8. q \in Processes /\ q.consumed = b.consumed \cup {a}
  BY <1>4, <1>7, Zenon DEF Processes
<1>9. q.pc = b.pc /\ q.outcome = b.outcome /\ Kept(q) /\ Numbered(q, a)
  BY <1>4, <1>5, <1>7, Zenon DEF Processes, Kept, Numbered
<1>10. /\ q.consumed = proc.consumed \cup {a} /\ q.pc \in {"phase.failed", "message", "tool.restarted"}
       /\ q.pc = "message" => a[1] = "provider" /\ q.outcome = outcome
       /\ q.pc = "tool.restarted" => a[1] = "tool" /\ q.outcome = outcome
  BY <1>2, <1>4, <1>8, <1>9, Zenon DEF Answering
<1> QED
  BY <1>8, <1>9, <1>10, Zenon DEF q

\* recover_attempt with the number after the last one.
Following(a) ==
  \/ proc.pc = "turn" /\ a = <<"provider", proc.turns + 1>>
  \/ proc.pc = "tool" /\ a = <<"tool", proc.tools + 1>>

\* The process moves on by beginning it.
LEMMA Begins ==
  ASSUME IInv, IInv', NEW a \in Attempts, Following(a)
  PROVE  /\ proc.pc \in Working \ Held /\ proc.pc \notin {"down", "return", "message.completed"}
         /\ a = <<a[1], a[2]>> /\ a[1] \in {"provider", "tool"} /\ a[2] \in Nat
         /\ ~(a[2] <= IF a[1] = "provider" THEN proc.turns ELSE proc.tools)
         /\ proc'.phase = proc.phase /\ Numbered(proc', a) =>
              /\ Ahead(proc, proc')
              /\ a[2] <= IF a[1] = "provider" THEN proc'.turns ELSE proc'.tools
              /\ a[2] = IF a[1] = "provider" THEN proc'.turns ELSE proc'.tools
<1>0. proc \in Processes /\ proc' \in Processes /\ proc.turns \in Nat /\ proc.tools \in Nat
  BY ProcTyped, Zenon DEF IInv, Types
<1>1. /\ proc.pc \in Working \ Held /\ proc.pc \notin {"down", "return", "message.completed"}
      /\ proc.pc \notin Passing \cup {"transition.ensure", "flow.completed"}
  BY Zenon DEF Following, Working, Held, Intending, InAttempt, Undispatched, Passing
<1>2. a = <<a[1], a[2]>> /\ a[1] \in {"provider", "tool"} /\ a[2] \in Nat
  BY DEF Attempts
<1>3. a[2] = (IF a[1] = "provider" THEN proc.turns ELSE proc.tools) + 1
  BY DEF Following
<1>4. ~(a[2] <= IF a[1] = "provider" THEN proc.turns ELSE proc.tools)
  BY <1>0, <1>3
<1>5. ASSUME proc'.phase = proc.phase, Numbered(proc', a)
      PROVE  /\ Ahead(proc, proc')
             /\ a[2] <= IF a[1] = "provider" THEN proc'.turns ELSE proc'.tools
             /\ a[2] = IF a[1] = "provider" THEN proc'.turns ELSE proc'.tools
  <2>1. /\ proc.turns <= proc'.turns /\ proc.tools <= proc'.tools
        /\ a[2] = IF a[1] = "provider" THEN proc'.turns ELSE proc'.tools
    BY <1>0, <1>2, <1>3, <1>5 DEF Numbered
  <2>2. a[2] <= a[2]
    BY <1>2
  <2>3. Ahead(proc, proc')
    BY <1>0, <1>1, <1>5, <2>1, SamePhase, Zenon
  <2> QED
    BY <2>1, <2>2, <2>3, Zenon
<1> QED
  BY <1>1, <1>2, <1>4, <1>5, Zenon

\* A recorded attempt is one the process has behind it.
LEMMA RecordedBehind ==
  ASSUME IInv, Progress, proc.pc \in Working \cup InAttempt, ~Replaying, NEW a \in RecordedAttempts
  PROVE  a[2] <= IF a[1] = "provider" THEN proc.turns ELSE proc.tools
<1>1. PICK r \in Records : r[1] = "attempt" /\ r[2] = a
  BY Zenon DEF RecordedAttempts, Records
<1>2. Behind(r, proc)
  BY <1>1, NewRecord, Zenon
<1> QED
  BY <1>1, <1>2, Zenon DEF Behind

\* An old attempt is consumed: its outcome is in the snapshot.
LEMMA ConsumedGrounds ==
  ASSUME NEW a \in Attempts, a = <<a[1], a[2]>>, NEW outcome, Numbered(proc', a),
         proc'.pc \in {"phase.failed", "message", "tool.restarted", "tool.end"},
         proc'.pc = "message" => a[1] = "provider" /\ proc'.outcome = outcome,
         proc'.pc \in {"tool.restarted", "tool.end"} => a[1] = "tool" /\ proc'.outcome = outcome,
         <<"attempt", a, outcome>> \in Records'
  PROVE  Grounds'
<1>1. CASE proc'.pc = "phase.failed"
  BY <1>1, Zenon DEF Grounds
<1>2. CASE proc'.pc = "message"
  <2>1. a = <<"provider", proc'.turns>> /\ proc'.outcome = outcome
    BY <1>2, Zenon DEF Numbered
  <2> QED
    BY <1>2, <2>1, Zenon DEF Grounds
<1>3. CASE proc'.pc \in {"tool.restarted", "tool.end"}
  <2>1. a = <<"tool", proc'.tools>> /\ proc'.outcome = outcome
    BY <1>3, Zenon DEF Numbered
  <2> QED
    BY <1>3, <2>1, Zenon DEF Grounds
<1> QED
  BY <1>1, <1>2, <1>3, Zenon

\* A recorded attempt is replayed.
LEMMA ReplayedAttempt ==
  ASSUME IInv, IInv', RInv, NEW a \in Attempts, Following(a), Replaying, UNCHANGED disk,
         recovery[proc.recorded + 1][1] = "attempt", recovery[proc.recorded + 1][2] = a,
         a \in proc.completed, results[a] = recovery[proc.recorded + 1][3],
         proc' = [Consume(a, results[a]) EXCEPT !.recorded = @ + 1]
  PROVE  RInv'
<1> DEFINE r == recovery[proc.recorded + 1]
           q == Consume(a, results[a])
<1>0. /\ proc.pc \in Working \ Held /\ proc.pc \notin {"down", "return", "message.completed"}
      /\ a = <<a[1], a[2]>> /\ a[1] \in {"provider", "tool"}
      /\ proc'.phase = proc.phase /\ Numbered(proc', a) =>
           Ahead(proc, proc') /\ a[2] <= IF a[1] = "provider" THEN proc'.turns ELSE proc'.tools
  BY Begins, Zenon
<1>1. proc.recorded + 1 \in DOMAIN recovery
  <2>1. /\ proc.recorded \in Nat /\ proc.recorded + 1 <= Len(recovery) /\ Len(recovery) \in Nat
        /\ DOMAIN recovery = 1..Len(recovery)
    BY <1>0, Positions, Zenon DEF RInv
  <2> QED
    BY <2>1
<1>2. r \in SnapshotRecords /\ r \in Records /\ a \in RecordedAttempts
  <2>1. r \in Records /\ a \in RecordedAttempts
    BY <1>1, Zenon DEF Records, RecordedAttempts
  <2>2. r \in SnapshotRecords
    BY <1>0, <1>1, Positions, Zenon DEF RInv
  <2> QED
    BY <2>1, <2>2, Zenon
<1>3. r = <<"attempt", a, results[a]>>
  BY <1>2, RecordTyped, Zenon
<1>4. results[a] \in OutcomesOf(a)
  BY Zenon DEF IInv, Passed, Ledger, Types, Following
<1>5. /\ q \in Processes /\ Kept(q) /\ Numbered(q, a) /\ q.consumed = proc.consumed \cup {a}
      /\ q.pc \in {"phase.failed", "message", "tool.restarted"}
      /\ q.pc = "message" => a[1] = "provider" /\ q.outcome = results[a]
      /\ q.pc = "tool.restarted" => a[1] = "tool" /\ q.outcome = results[a]
  BY <1>4, ConsumeKeeps, Zenon
<1> HIDE DEF q, r
<1>6. proc' = [q EXCEPT !.recorded = @ + 1]
  BY Zenon DEF q
<1>7. /\ proc'.recorded = proc.recorded + 1 /\ proc'.records = proc.records /\ proc'.completed = proc.completed
      /\ proc'.phase = proc.phase /\ StreamFields /\ Numbered(proc', a)
      /\ proc'.consumed = proc.consumed \cup {a} /\ proc'.pc = q.pc /\ proc'.outcome = q.outcome
  <2>1. /\ proc'.recorded = q.recorded + 1 /\ proc'.records = q.records /\ proc'.completed = q.completed
        /\ proc'.phase = q.phase /\ proc'.consumed = q.consumed /\ proc'.pc = q.pc /\ proc'.outcome = q.outcome
    BY <1>5, <1>6, Zenon DEF Processes
  <2>2. /\ proc'.turns = q.turns /\ proc'.tools = q.tools /\ proc'.emitted = q.emitted /\ proc'.prefix = q.prefix
        /\ proc'.manifest = q.manifest /\ proc'.manifests = q.manifests
    BY <1>5, <1>6, Zenon DEF Processes
  <2>3. StreamFields /\ Numbered(proc', a)
    BY <1>5, <2>2, Zenon DEF Kept, Numbered, StreamFields
  <2> QED
    BY <1>5, <2>1, <2>3, Zenon DEF Kept
<1>8. proc'.pc \notin Held /\ proc'.pc \notin InAttempt
  BY <1>5, <1>7, Zenon DEF Held, Intending, InAttempt, Undispatched
<1>9. Past(r)
  <2>1. r[1] = "attempt" /\ r[2] = a
    BY <1>3, Fields, Zenon
  <2> QED
    BY <1>0, <1>7, <1>8, <2>1, Zenon DEF Past, Behind
<1>10. Grounds'
  <2>1. <<"attempt", a, results[a]>> \in Records'
    BY <1>2, <1>3, Zenon DEF Records, disk
  <2> QED
    BY <1>0, <1>5, <1>7, <2>1, ConsumedGrounds, Zenon
<1>11. proc'.consumed \subseteq RecordedAttempts
  BY <1>0, <1>2, <1>7, Zenon DEF RInv, Progress
<1> QED
  BY <1>0, <1>7, <1>9, <1>10, <1>11, ReplayKeeps, Zenon DEF r

\* A completed attempt that was not recorded is promoted.
LEMMA PromotedAttempt ==
  ASSUME IInv, IInv', RInv, SnapshotOnly, NEW a \in Attempts, Following(a), ensure_live_append,
         a \in proc.completed, proc' = Consume(a, results[a]),
         recovery' = Append(recovery, <<"attempt", a, results[a]>>)
  PROVE  RInv'
<1> DEFINE r == <<"attempt", a, results[a]>>
<1>0. /\ proc.pc \in Working \ Held /\ proc.pc \notin {"down", "return", "message.completed"}
      /\ a = <<a[1], a[2]>> /\ ~(a[2] <= IF a[1] = "provider" THEN proc.turns ELSE proc.tools)
      /\ proc'.phase = proc.phase /\ Numbered(proc', a) =>
           Ahead(proc, proc') /\ a[2] <= IF a[1] = "provider" THEN proc'.turns ELSE proc'.tools
  BY Begins, Zenon
<1>1. /\ results[a] \in OutcomesOf(a) /\ results[a] \in Outcomes /\ results[a] # "none" /\ a \in intents
  BY Zenon DEF IInv, Passed, Ledger, Types, Following
<1>2. /\ Kept(proc') /\ Numbered(proc', a) /\ proc'.consumed = proc.consumed \cup {a}
      /\ proc'.pc \in {"phase.failed", "message", "tool.restarted"}
      /\ proc'.pc = "message" => a[1] = "provider" /\ proc'.outcome = results[a]
      /\ proc'.pc = "tool.restarted" => a[1] = "tool" /\ proc'.outcome = results[a]
  BY <1>1, ConsumeKeeps, Zenon
<1>3. r \in SnapshotRecords /\ r[1] = "attempt" /\ r[2] = a /\ r[3] = results[a]
  BY <1>1, Fields, Zenon DEF SnapshotRecords
<1>4. a \notin RecordedAttempts
  BY <1>0, RecordedBehind, Zenon DEF RInv, ensure_live_append
<1>5. r \notin Records
  BY <1>3, <1>4, Zenon DEF Records, RecordedAttempts
<1>6. UNCHANGED <<intents, results, events, synced, contexts, history>>
  BY Zenon DEF SnapshotOnly
<1> HIDE DEF r
<1>7. recovery' = Append(recovery, r) /\ r = <<"attempt", a, results[a]>>
  BY Zenon DEF r
<1>8. RecordedAttempts' = RecordedAttempts \cup {a} /\ Records' = Records \cup {r}
  BY <1>1, <1>3, <1>5, <1>6, <1>7, SnapshotGrows, Zenon DEF RInv, ensure_live_append
<1>9. proc'.pc \notin Held /\ StreamFields /\ proc'.recorded = proc.recorded /\ proc'.records = proc.records
  BY <1>2, Zenon DEF Held, Intending, InAttempt, Undispatched, Kept, StreamFields
<1>10. Past(r)
  BY <1>0, <1>2, <1>3, <1>9, Zenon DEF Past, Behind, Kept
<1>11. Grounds'
  BY <1>0, <1>2, <1>7, <1>8, ConsumedGrounds, Zenon
<1>12. /\ proc'.consumed \subseteq RecordedAttempts'
       /\ intents' \subseteq proc'.completed \cup RecordedAttempts'
  BY <1>0, <1>2, <1>6, <1>8, Zenon DEF RInv, Progress, Kept
<1> QED
  BY <1>0, <1>1, <1>3, <1>5, <1>6, <1>7, <1>9, <1>10, <1>11, <1>12, AppendKeeps, Zenon

\* An attempt that no process began before: all the others are recorded.
LEMMA NewAttempt ==
  ASSUME IInv, IInv', RInv, UNCHANGED disk, NEW a \in Attempts, Following(a), ensure_live_append,
         ensure_completed_attempts_consumed, NEW new \in Intending, proc' = [Began(proc, a) EXCEPT !.pc = new]
  PROVE  RInv'
<1>0. /\ proc.pc \in Working \ Held /\ proc.pc \notin {"down", "return", "message.completed"}
      /\ a[1] \in {"provider", "tool"} /\ a[2] \in Nat
      /\ ~(a[2] <= IF a[1] = "provider" THEN proc.turns ELSE proc.tools)
      /\ proc'.phase = proc.phase /\ Numbered(proc', a) =>
           Ahead(proc, proc') /\ a[2] = IF a[1] = "provider" THEN proc'.turns ELSE proc'.tools
  BY Begins, Zenon
<1>1. new \in PCs /\ new \in Held \cap Working /\ new \notin Grounded \cup {"finish", "attempt.record", "down"}
  BY Zenon DEF Intending, PCs, Working, Held, Grounded
<1> DEFINE b == Began(proc, a)
<1>2. /\ b \in Processes /\ Kept(b) /\ b.consumed = proc.consumed /\ Numbered(b, a) /\ b.cur = a
  BY <1>0, ProcTyped, ZenonT(60) DEF Began, Processes, Kept, Numbered
<1>3. proc' = [b EXCEPT !.pc = new]
  BY Zenon
<1> HIDE DEF b
<1>4. /\ Kept(proc') /\ proc'.consumed = proc.consumed /\ Numbered(proc', a) /\ proc'.cur = a /\ proc'.pc = new
  BY <1>2, <1>3, ZenonT(60) DEF Processes, Kept, Numbered
<1>5. UNCHANGED <<recovery, intents, results>> /\ UNCHANGED <<events, synced, contexts>> /\ UNCHANGED history
  BY Zenon DEF disk
<1>6. StreamsAgree' /\ Snapshot' /\ EventsFollowSnapshot' /\ Closed' /\ Grounds'
  <2>1. StreamFields
    BY <1>4, Zenon DEF Kept, StreamFields
  <2> QED
    BY <1>0, <1>1, <1>4, <1>5, <2>1, StreamsStay, SnapshotStays, EventsStay, StaysOpen, Groundless, Zenon DEF RInv
<1>7. /\ Seen' = Seen /\ (Replaying' <=> Replaying) /\ RecordedAttempts' = RecordedAttempts
      /\ ensure_live_append'
  BY <1>4, <1>5, Zenon DEF Kept, Seen, Replaying, RecordedAttempts, ensure_live_append, Terminal
<1>8. Progress'
  <2>1. ASSUME NEW i \in 1..Seen PROVE Behind(recovery[i], proc')
    <3>1. i \in 1..Len(recovery)
      BY <1>0, Positions DEF RInv
    <3>2. proc \in Processes /\ proc' \in Processes /\ Behind(recovery[i], proc) /\ recovery[i] \in SnapshotRecords
      BY <1>0, <3>1, Positions, Zenon DEF RInv, Progress, IInv, Types
    <3> QED
      BY <1>0, <1>4, <3>2, BehindStays, Zenon DEF Kept
  <2>2. a \notin RecordedAttempts
    BY <1>0, RecordedBehind, Zenon DEF RInv, ensure_live_append
  <2>3. intents \subseteq RecordedAttempts
    BY <1>0, Zenon DEF RInv, Progress, ensure_completed_attempts_consumed
  <2>4. /\ proc'.recorded <= proc'.records /\ proc'.records <= Len(recovery')
        /\ Replaying' => proc'.records = Len(recovery')
        /\ proc'.consumed \subseteq RecordedAttempts'
    BY <1>0, <1>4, <1>5, <1>7, Zenon DEF RInv, Progress, Kept
  <2>5. \A i \in 1..Seen' : Behind(recovery'[i], proc')
    BY <1>5, <1>7, <2>1, Zenon
  <2>6. /\ intents' \subseteq RecordedAttempts' \cup {proc'.cur} /\ proc'.cur \notin RecordedAttempts'
        /\ proc'.cur[2] = IF proc'.cur[1] = "provider" THEN proc'.turns ELSE proc'.tools
    <3>1. a[2] = IF a[1] = "provider" THEN proc'.turns ELSE proc'.tools
      BY <1>0, <1>4, Zenon DEF Kept
    <3>2. intents' \subseteq RecordedAttempts' /\ proc'.cur = a /\ a \notin RecordedAttempts'
      BY <1>4, <1>5, <1>7, <2>2, <2>3, Zenon
    <3> QED
      BY <3>1, <3>2, Zenon
  <2> QED
    BY <1>1, <1>4, <1>7, <2>4, <2>5, <2>6, Zenon DEF Progress
<1> QED
  BY <1>6, <1>8, Zenon DEF RInv

\* recover_attempt.
LEMMA RecoverKeeps ==
  ASSUME IInv, IInv', RInv, SnapshotOnly, NEW a \in Attempts, Following(a), NEW new \in Intending,
         recover_attempt(a, new)
  PROVE  RInv'
<1>0. proc.pc \notin {"down", "return", "message.completed"}
  BY Begins, Zenon
<1>1. ASSUME UNCHANGED recovery PROVE UNCHANGED disk
  BY <1>1, Zenon DEF SnapshotOnly, disk
<1>2. CASE RecoveryDiverges
  BY <1>0, <1>1, <1>2, DivergeKeeps, Zenon DEF RecoveryDiverges
<1>3. CASE Replaying /\ ~RecoveryDiverges
  <2> DEFINE record == recovery[proc.recorded + 1]
  <2>1. /\ record[1] = "attempt" /\ record[2] = a /\ a \in proc.completed /\ results[a] = record[3]
        /\ proc' = [Consume(a, record[3]) EXCEPT !.recorded = @ + 1] /\ UNCHANGED recovery
    BY <1>3, Zenon DEF recover_attempt
  <2> QED
    BY <1>1, <1>3, <2>1, ReplayedAttempt, Zenon
<1>4. CASE ~Replaying /\ a \in proc.completed /\ ~RecoveryDiverges
  <2>1. /\ ~Terminal(recovery) /\ proc' = Consume(a, results[a])
        /\ recovery' = Append(recovery, <<"attempt", a, results[a]>>)
    BY <1>4, Zenon DEF recover_attempt
  <2> QED
    BY <1>4, <2>1, PromotedAttempt, Zenon DEF ensure_live_append
<1>5. CASE ~Replaying /\ a \notin proc.completed /\ ~RecoveryDiverges
  <2>1. /\ ensure_live_append /\ ensure_completed_attempts_consumed
        /\ proc' = [Began(proc, a) EXCEPT !.pc = new] /\ UNCHANGED recovery
    BY <1>5, Zenon DEF recover_attempt
  <2> QED
    BY <1>1, <2>1, NewAttempt, Zenon
<1> QED
  BY <1>2, <1>3, <1>4, <1>5, Zenon

\* The intent of an attempt.
LEMMA IntentKeeps == ASSUME IInv, IInv', RInv, AttemptIntent PROVE RInv'
<1>0. PICK next \in {"provider.claim", "tool.preflight"} : proc.pc \in Intending /\ WriteIntent(next)
  BY Zenon DEF AttemptIntent, Intending, At
<1>1. /\ UNCHANGED <<results, recovery, events, synced, contexts, history>>
      /\ proc.pc \in Held \cap Working /\ proc.pc \notin {"down", "return", "message.completed"} \cup Passing
      /\ proc.pc \notin {"transition.ensure", "flow.completed"}
      /\ next \in InAttempt /\ next \notin Grounded \cup {"finish", "attempt.record"}
  BY <1>0, Zenon DEF AttemptIntent, Intending, Held, Working, InAttempt, Undispatched, Grounded, Passing
<1>2. ASSUME UNCHANGED intents PROVE UNCHANGED disk
  BY <1>1, <1>2, Zenon DEF disk
<1>3. \/ Fail("cancelled", TRUE) /\ UNCHANGED intents
      \/ proc' = [proc EXCEPT !.event_commit_failed = TRUE, !.pc = "claim"] /\ UNCHANGED intents
      \/ Goto(next) /\ intents' = intents \cup {proc.cur}
  BY <1>0, Zenon DEF WriteIntent
<1>4. CASE Fail("cancelled", TRUE) /\ UNCHANGED intents
  BY <1>1, <1>2, <1>4, FailKeeps, Zenon
<1>5. CASE proc' = [proc EXCEPT !.event_commit_failed = TRUE, !.pc = "claim"] /\ UNCHANGED intents
  BY <1>1, <1>2, <1>5, DivergeKeeps, Zenon
<1>6. CASE Goto(next) /\ intents' = intents \cup {proc.cur}
  <2>1. StreamFields /\ SnapshotFields /\ proc'.phase = proc.phase /\ proc'.pc = next
    BY <1>6, ProcTyped, Zenon DEF Goto, StreamFields, SnapshotFields, Processes
  <2>2. StreamsAgree' /\ EventsFollowSnapshot' /\ Closed' /\ Grounds'
    BY <1>1, <2>1, StreamsStay, EventsStay, StaysOpen, Groundless, Zenon DEF RInv
  <2>3. /\ Seen' = Seen /\ (Replaying' <=> Replaying) /\ RecordedAttempts' = RecordedAttempts
        /\ ensure_live_append' <=> ensure_live_append
    BY <1>1, <2>1, Zenon DEF SnapshotFields, Seen, Replaying, RecordedAttempts, ensure_live_append, Terminal
  <2>4. /\ intents \subseteq RecordedAttempts \cup {proc.cur} /\ proc.cur \notin RecordedAttempts
        /\ ensure_live_append /\ proc.cur \in Attempts
        /\ proc.cur[2] = IF proc.cur[1] = "provider" THEN proc.turns ELSE proc.tools
    BY <1>1, ProcTyped, Zenon DEF RInv, Progress
  <2>5. Snapshot'
    <3>1. intents' \subseteq RecordedAttempts' \cup {proc.cur}
      BY <1>6, <2>3, <2>4, Zenon
    <3>2. intents \subseteq intents' /\ recovery' = recovery /\ results' = results
      BY <1>1, <1>6, Zenon
    <3> QED
      BY <2>4, <3>1, <3>2, Zenon DEF RInv, Snapshot
  <2>6. Progress'
    <3>1. Onto(proc'.pc)
      BY <1>1, <2>1, Zenon DEF Onto
    <3>2. Onward
      BY <1>1, <2>1, <3>1, OntoOnward, Zenon
    <3>3. ASSUME NEW i \in 1..Seen PROVE Behind(recovery[i], proc')
      <4>1. i \in 1..Len(recovery)
        BY <1>1, Positions DEF RInv
      <4>2. proc \in Processes /\ proc' \in Processes /\ Behind(recovery[i], proc) /\ recovery[i] \in SnapshotRecords
        BY <1>1, <4>1, Positions, Zenon DEF RInv, Progress, IInv, Types
      <4>3. Ahead(proc, proc')
        BY <1>1, <2>1, <3>2, Zenon DEF Onward
      <4> QED
        BY <4>2, <4>3, BehindStays, Zenon
    <3>4. /\ proc'.recorded <= proc'.records /\ proc'.records <= Len(recovery')
          /\ Replaying' => proc'.records = Len(recovery')
          /\ proc'.consumed \subseteq RecordedAttempts'
      BY <1>1, <2>1, <2>3, Zenon DEF RInv, Progress, SnapshotFields
    <3>5. \A i \in 1..Seen' : Behind(recovery'[i], proc')
      BY <1>1, <2>3, <3>3, Zenon
    <3>6. /\ intents' \subseteq RecordedAttempts' \cup {proc'.cur} /\ proc'.cur \notin RecordedAttempts'
          /\ proc'.cur[2] = IF proc'.cur[1] = "provider" THEN proc'.turns ELSE proc'.tools
      BY <1>6, <2>1, <2>3, <2>4, Zenon DEF SnapshotFields
    <3>7. proc'.pc \in Held
      BY <1>1, <2>1, Zenon DEF Held
    <3> QED
      BY <1>1, <2>1, <2>3, <2>4, <3>4, <3>5, <3>6, <3>7, Zenon DEF Progress
  <2> QED
    BY <2>2, <2>5, <2>6, Zenon DEF RInv
<1> QED
  BY <1>3, <1>4, <1>5, <1>6, Zenon

\* The result of an attempt.
LEMMA TerminalKeeps == ASSUME IInv, IInv', RInv, AttemptTerminal PROVE RInv'
<1>0. /\ proc.pc = "attempt.terminal" /\ results' = [results EXCEPT ![proc.cur] = proc.outcome]
      /\ Goto("attempt.record") /\ UNCHANGED <<intents, recovery, events, synced, contexts, history>>
  BY Zenon DEF AttemptTerminal, At
<1>1. /\ proc.pc \in InAttempt /\ proc.pc \in Held /\ proc.pc \notin Passing
      /\ "attempt.record" \in Working \cap Held /\ "attempt.record" \notin Grounded
  BY <1>0, Zenon DEF InAttempt, Held, Passing, Working, Grounded
<1>2. /\ StreamFields /\ SnapshotFields /\ proc'.phase = proc.phase /\ proc'.pc = "attempt.record"
      /\ proc'.outcome = proc.outcome
  BY <1>0, ProcTyped, Zenon DEF Goto, StreamFields, SnapshotFields, Processes
<1>3. /\ results \in [Attempts -> Outcomes] /\ proc.cur \in Attempts /\ proc.cur \in intents
      /\ intents \subseteq RecordedAttempts \cup {proc.cur} /\ proc.cur \notin RecordedAttempts
      /\ ensure_live_append
      /\ proc.cur[2] = IF proc.cur[1] = "provider" THEN proc.turns ELSE proc.tools
  BY <1>1, ProcTyped, Zenon DEF RInv, Progress, IInv, Types, Standing, Uncertain
<1>4. StreamsAgree' /\ EventsFollowSnapshot' /\ Closed' /\ Grounds'
  BY <1>0, <1>1, <1>2, StreamsStay, EventsStay, StaysOpen, Groundless, Zenon DEF RInv
<1>5. /\ Seen' = Seen /\ (Replaying' <=> Replaying) /\ RecordedAttempts' = RecordedAttempts
      /\ ensure_live_append' <=> ensure_live_append
  BY <1>0, <1>2, Zenon DEF SnapshotFields, Seen, Replaying, RecordedAttempts, ensure_live_append, Terminal
<1>6. Snapshot'
  <2>1. ASSUME NEW i \in DOMAIN recovery, recovery[i][1] = "attempt"
        PROVE  results'[recovery[i][2]] = recovery[i][3]
    <3>1. recovery[i][2] \in RecordedAttempts /\ recovery[i][2] \in intents /\ results[recovery[i][2]] = recovery[i][3]
      BY <2>1, Zenon DEF RecordedAttempts, RInv, Snapshot
    <3>2. recovery[i][2] # proc.cur /\ recovery[i][2] \in Attempts
      BY <1>3, <3>1, Zenon DEF IInv, Types
    <3> QED
      BY <1>0, <1>3, <3>1, <3>2, Zenon
  <2> QED
    BY <1>0, <1>5, <2>1, ZenonT(60) DEF RInv, Snapshot
<1>7. Progress'
  <2>1. Ahead(proc, proc') /\ proc \in Processes /\ proc' \in Processes
    <3>1. proc.turns <= proc'.turns /\ proc.tools <= proc'.tools
      BY <1>2, ProcTyped DEF SnapshotFields
    <3>2. proc \in Processes /\ proc' \in Processes
      BY Zenon DEF IInv, Types
    <3> QED
      BY <1>0, <1>1, <1>2, <3>1, <3>2, SamePhase, Zenon
  <2>2. ASSUME NEW i \in 1..Seen PROVE Behind(recovery[i], proc')
    <3>1. i \in 1..Len(recovery)
      BY <1>0, Positions DEF RInv
    <3>2. Behind(recovery[i], proc) /\ recovery[i] \in SnapshotRecords
      BY <1>0, <1>1, <3>1, Positions, Zenon DEF RInv, Progress
    <3> QED
      BY <2>1, <3>2, BehindStays, Zenon
  <2>3. /\ proc'.recorded <= proc'.records /\ proc'.records <= Len(recovery')
        /\ Replaying' => proc'.records = Len(recovery')
        /\ proc'.consumed \subseteq RecordedAttempts'
    BY <1>0, <1>2, <1>5, Zenon DEF RInv, Progress, SnapshotFields
  <2>4. \A i \in 1..Seen' : Behind(recovery'[i], proc')
    BY <1>0, <1>5, <2>2, Zenon
  <2>5. /\ intents' \subseteq RecordedAttempts' \cup {proc'.cur} /\ proc'.cur \notin RecordedAttempts'
        /\ proc'.cur[2] = IF proc'.cur[1] = "provider" THEN proc'.turns ELSE proc'.tools
    BY <1>0, <1>2, <1>3, <1>5, Zenon DEF SnapshotFields
  <2>6. proc'.cur \in intents' /\ results'[proc'.cur] = proc'.outcome
    BY <1>0, <1>2, <1>3, Zenon DEF SnapshotFields
  <2> QED
    BY <1>1, <1>2, <1>3, <1>5, <2>3, <2>4, <2>5, <2>6, Zenon DEF Progress
<1> QED
  BY <1>4, <1>6, <1>7, Zenon DEF RInv

\* What a process does after it has recorded an attempt of its own.
LEMMA RecordedNext ==
  ASSUME IInv, proc.pc = "attempt.record"
  PROVE  /\ Kept(Recorded) /\ Recorded.consumed = proc.consumed
         /\ Recorded.turns = proc.turns /\ Recorded.tools = proc.tools
         /\ Recorded.pc \in {"phase.failed", "message", "tool.end"}
         /\ Recorded.pc = "message" => proc.cur[1] = "provider" /\ Recorded.outcome = proc.outcome
         /\ Recorded.pc = "tool.end" => proc.cur[1] = "tool" /\ Recorded.outcome = proc.outcome
<1>0. /\ proc \in Processes /\ proc.outcome \in OutcomesOf(proc.cur)
      /\ proc.cur[1] = "provider" \/ (proc.cur[1] = "tool" /\ proc.cur[1] # "provider")
  <2>1. proc.cur[1] \in {"provider", "tool"}
    BY ProcTyped DEF Attempts
  <2> QED
    BY <2>1, ProcTyped, Zenon DEF IInv, OutcomeFits, Deciding
<1>1. CASE proc.cur[1] = "provider"
  <2>1. proc.outcome \in ProviderOutcomes
    BY <1>0, <1>1, Zenon DEF OutcomesOf
  <2>2. CASE proc.outcome \in Answers /\ cancelled
    <3>1. Recorded = [proc EXCEPT !.pc = "phase.failed", !.error = "cancelled"]
      BY <1>1, <2>2, Zenon DEF Recorded, ProviderOutcome, Answers
    <3> QED
      BY <1>0, <3>1, ZenonT(60) DEF Processes, Kept
  <2>3. CASE ~(proc.outcome \in Answers /\ cancelled)
    <3>1. Recorded = ProviderOutcome(proc.outcome)
      BY <1>1, <2>3, Zenon DEF Recorded
    <3>2. Recorded.pc # "tool.restarted"
      BY <2>1, <3>1, ProviderOutcomeTyped, Zenon
    <3> QED
      BY <1>1, <2>1, <3>1, <3>2, ProviderAnswering, Zenon DEF Answering
  <2> QED
    BY <2>2, <2>3, Zenon
<1>2. CASE proc.cur[1] = "tool" /\ proc.cur[1] # "provider"
  <2>1. CASE proc.outcome = "preflight"
    <3>1. Recorded = [proc EXCEPT !.pc = "phase.failed", !.error = "runtime_error"]
      BY <1>2, <2>1, Zenon DEF Recorded
    <3> QED
      BY <1>0, <3>1, ZenonT(60) DEF Processes, Kept
  <2>2. CASE proc.outcome # "preflight"
    <3>1. Recorded = [proc EXCEPT !.pc = "tool.end"]
      BY <1>2, <2>2, Zenon DEF Recorded
    <3> QED
      BY <1>0, <1>2, <3>1, ZenonT(60) DEF Processes, Kept
  <2> QED
    BY <2>1, <2>2, Zenon
<1> QED
  BY <1>0, <1>1, <1>2, Zenon

\* The record of an attempt.
LEMMA RecordKeeps == ASSUME IInv, IInv', RInv, AttemptRecord PROVE RInv'
<1> DEFINE a == proc.cur
           r == <<"attempt", proc.cur, proc.outcome>>
<1>0. proc.pc = "attempt.record" /\ UNCHANGED <<intents, results, events, synced, contexts, history>>
  BY Zenon DEF AttemptRecord, At
<1>1. /\ proc.pc \in Working \cap Held /\ proc.pc \notin {"down", "return", "message.completed"} \cup Passing
      /\ proc.pc \notin {"transition.ensure", "flow.completed"}
  BY <1>0, Zenon DEF Working, Held, Passing
<1>2. /\ ensure_live_append /\ a \in intents /\ results[a] = proc.outcome /\ a \notin RecordedAttempts
      /\ intents \subseteq RecordedAttempts \cup {a}
      /\ a[2] = IF a[1] = "provider" THEN proc.turns ELSE proc.tools
      /\ proc.consumed \subseteq RecordedAttempts
  BY <1>0, <1>1, Zenon DEF RInv, Progress
<1>3. proc.outcome # "none" /\ proc.outcome \in Outcomes /\ a \in Attempts /\ a = <<a[1], a[2]>> /\ a[2] \in Nat
  <2>1. proc.outcome \in ProviderOutcomes \cup ToolOutcomes
    BY <1>0, Zenon DEF IInv, OutcomeFits, Deciding, OutcomesOf
  <2>2. proc.outcome # "none"
    BY <2>1, Zenon DEF ProviderOutcomes, ToolOutcomes, Answers
  <2>3. a \in Attempts /\ a = <<a[1], a[2]>> /\ a[2] \in Nat
    BY ProcTyped DEF Attempts
  <2> QED
    BY <2>2, <2>3, ProcTyped, Zenon
<1>4. r \in SnapshotRecords /\ r[1] = "attempt" /\ r[2] = a /\ r[3] = proc.outcome
  BY <1>3, Fields, Zenon DEF SnapshotRecords
<1>5. r \notin Records
  <2>1. SUFFICES ASSUME NEW i \in DOMAIN recovery, recovery[i] = r PROVE FALSE
    BY Zenon DEF Records
  <2>2. recovery[i][1] = "attempt" /\ recovery[i][2] = a
    BY <1>4, <2>1, Zenon
  <2> QED
    BY <1>2, <2>2, Zenon DEF RecordedAttempts
<1>6. recovery' = Append(recovery, r) /\ proc' = Recorded
  BY <1>2, Zenon DEF AttemptRecord
<1> HIDE DEF r
<1>7. RecordedAttempts' = RecordedAttempts \cup {a} /\ Records' = Records \cup {r}
  BY <1>0, <1>2, <1>3, <1>4, <1>5, <1>6, SnapshotGrows, Zenon DEF RInv, ensure_live_append
<1>8. /\ Kept(proc') /\ proc'.consumed = proc.consumed /\ proc'.turns = proc.turns /\ proc'.tools = proc.tools
      /\ proc'.pc \in {"phase.failed", "message", "tool.end"}
      /\ proc'.pc = "message" => a[1] = "provider" /\ proc'.outcome = proc.outcome
      /\ proc'.pc = "tool.end" => a[1] = "tool" /\ proc'.outcome = proc.outcome
  BY <1>0, <1>6, RecordedNext, Zenon
<1>9. proc'.pc \notin Held /\ StreamFields /\ proc'.recorded = proc.recorded /\ proc'.records = proc.records
  BY <1>8, Zenon DEF Held, Intending, InAttempt, Undispatched, Kept, StreamFields
<1>10. Past(r)
  <2>1. proc.turns <= proc'.turns /\ proc.tools <= proc'.tools /\ a[2] <= a[2]
    BY <1>3, <1>8, ProcTyped
  <2>2. Ahead(proc, proc')
    <3>1. proc \in Processes /\ proc' \in Processes
      BY Zenon DEF IInv, Types
    <3> QED
      BY <1>1, <1>8, <2>1, <3>1, SamePhase, Zenon DEF Kept
  <2>3. Behind(r, proc')
    BY <1>2, <1>4, <1>8, <2>1, Zenon DEF Behind
  <2> QED
    BY <1>1, <1>9, <2>2, <2>3, Zenon DEF Past
<1>11. Grounds'
  <2>1. Numbered(proc', a)
    <3>1. a[1] \in {"provider", "tool"}
      BY <1>3 DEF Attempts
    <3> QED
      BY <1>2, <1>8, <3>1, Zenon DEF Numbered
  <2>2. <<"attempt", a, proc.outcome>> \in Records'
    BY <1>7, Zenon DEF r
  <2> QED
    BY <1>3, <1>8, <2>1, <2>2, ConsumedGrounds, Zenon
<1>12. /\ proc'.consumed \subseteq RecordedAttempts'
       /\ intents' \subseteq proc'.completed \cup RecordedAttempts'
  BY <1>0, <1>2, <1>7, <1>8, Zenon
<1> QED
  BY <1>0, <1>1, <1>2, <1>3, <1>4, <1>5, <1>6, <1>9, <1>10, <1>11, <1>12, AppendKeeps, Zenon

-----------------------------------------------------------------------------
(* The end of an execution, crashes, Ctrl-C and reconciliation. *)

\* The history entry binds the terminal record, the last Event and the outcome.
LEMMA FinishKeeps == ASSUME IInv, IInv', RInv, FinishRun PROVE RInv'
<1>0. /\ proc.pc = "finish" /\ proc.pc \notin {"down", "return", "message.completed"} /\ Goto("return")
      /\ UNCHANGED <<intents, results, recovery, events, contexts>> /\ synced' = Len(events)
  BY Zenon DEF FinishRun, At
<1>1. StreamFields /\ SnapshotFields /\ proc'.phase = proc.phase /\ proc'.pc = "return"
  BY <1>0, ProcTyped, Zenon DEF Goto, StreamFields, SnapshotFields, Processes
<1>2. /\ Len(events) \in Nat /\ proc.emitted \in Nat /\ proc.prefix \in Nat /\ synced \in Nat
      /\ synced <= Len(events) /\ Len(events) <= Len(events)
      /\ PrefixReplayed => proc.emitted = Len(events) /\ contexts = Messages(events)
  <2>1. /\ Len(events) \in Nat /\ proc.emitted \in Nat /\ proc.prefix \in Nat /\ synced \in Nat
        /\ synced <= Len(events)
        /\ IF proc.emitted < proc.prefix THEN Len(events) = proc.prefix ELSE proc.emitted = Len(events)
        /\ PrefixReplayed => contexts = Messages(events)
    BY <1>0 DEF IInv, Types, Processes, RInv, StreamsAgree
  <2> QED
    BY <2>1 DEF PrefixReplayed
<1>3. StreamsAgree'
  <2>1. \A i \in 1..Len(events) : i <= Len(events)
    BY <1>2
  <2>2. PrefixReplayed' <=> PrefixReplayed
    BY <1>1, Zenon DEF StreamFields, PrefixReplayed
  <2> QED
    BY <1>0, <1>1, <1>2, <2>1, <2>2, Zenon DEF RInv, StreamsAgree, StreamFields
<1>4. Snapshot' /\ EventsFollowSnapshot' /\ Grounds'
  BY <1>0, <1>1, SnapshotStays, EventsStay, Groundless, Zenon DEF RInv, Grounded
<1>5. Progress'
  <2>1. Onto(proc'.pc)
    BY <1>1, Zenon DEF Onto, Ending
  <2> QED
    BY <1>0, <1>1, <2>1, OntoOnward, ProgressStays, Zenon DEF RInv
<1>6. ASSUME history' # "none"
      PROVE  HistoryClosesRun'
  <2>1. history = "none"
    BY <1>0, Zenon DEF RInv, Closed
  <2>2. /\ ~proc.recovery_failed /\ ~proc.event_commit_failed /\ PrefixReplayed /\ Terminal(recovery)
        /\ history' = IF proc.error = "none" THEN "completed" ELSE "failed"
    BY <1>6, <2>1, Zenon DEF FinishRun
  <2>3. /\ recovery[Len(recovery)] = <<"terminal", proc.error # "none", proc.emitted>>
        /\ events[proc.emitted] = SessionEnd(proc.error)
    BY <1>0, <2>2, Zenon DEF RInv, Grounds, Bound
  <2>4. (proc.error # "none") = (history' = "failed")
    BY <2>2
  <2>5. events[Len(events)][1] = IF history' = "failed" THEN "session.failed" ELSE "session.completed"
    BY <1>2, <2>2, <2>3 DEF SessionEnd
  <2>6. recovery[Len(recovery)] = <<"terminal", history' = "failed", Len(events)>>
    BY <1>2, <2>2, <2>3, <2>4
  <2> QED
    BY <1>0, <1>2, <2>2, <2>5, <2>6 DEF HistoryClosesRun
<1>7. Closed'
  BY <1>1, <1>6, Zenon DEF Closed
<1> QED
  BY <1>3, <1>4, <1>5, <1>7, Zenon DEF RInv

\* The process is gone; Events it had not synchronized may be gone with it.
LEMMA DownKeeps ==
  ASSUME Counting, IInv, IInv', RInv, proc' = NoProcess,
         UNCHANGED <<intents, results, recovery, synced, contexts, history>>,
         NEW n \in Nat, synced <= n, n <= Len(events),
         Len(events') = n, \A i \in 1..n : events'[i] = events[i]
  PROVE  RInv'
<1>1. proc'.pc = "down" /\ "down" \notin Working \cup InAttempt \cup Held \cup Grounded \cup {"finish"}
  BY Zenon DEF NoProcess, Working, InAttempt, Undispatched, Held, Intending, Grounded
<1>2. /\ events \in Seq(EventRecords) /\ events' \in Seq(EventRecords) /\ Len(events) \in Nat
      /\ DOMAIN events = 1..Len(events) /\ DOMAIN events' = 1..n /\ synced \in Nat
      /\ \A i \in 1..n : i \in 1..Len(events)
  BY DEF IInv, Types
<1>3. Messages(events') = Messages(events)
  <2>1. MessagesOf(events', n) = MessagesOf(events, n)
    BY CountSame, Zenon
  <2>2. MessagesOf(events, n) = MessagesOf(events, Len(events))
    <3>1. \A i \in 1..Len(events) : events[i][1] = "message.completed" => i <= synced
      BY Zenon DEF RInv, StreamsAgree
    <3>2. \A i \in 1..Len(events) : events[i][1] = "message.completed" => i \in 1..n
      BY <1>2, <3>1
    <3> QED
      BY <1>2, <3>2, Zenon DEF MessagesOf
  <2> QED
    BY <1>2, <2>1, <2>2, CountAll, Zenon
<1>4. StreamsAgree'
  <2>1. \A i \in 1..n : events'[i][1] = "message.completed" => i <= synced
    BY <1>2, Zenon DEF RInv, StreamsAgree
  <2> QED
    BY <1>1, <1>3, <2>1, Zenon DEF RInv, StreamsAgree
<1>5. EventsFollowSnapshot'
  <2>1. \A i \in DOMAIN events' : i \in DOMAIN events /\ events'[i] = events[i]
    BY <1>2, Zenon
  <2>2. \A i \in DOMAIN events' :
          /\ events[i][1] \in Shown => \E j \in DOMAIN recovery : recovery[j] = Cause(events[i])
          /\ events[i][1] \in Ends
               => /\ Terminal(recovery) /\ recovery[Len(recovery)][3] = i
                  /\ recovery[Len(recovery)][2] = (events[i][1] = "session.failed")
    BY <2>1, Zenon DEF RInv, EventsFollowSnapshot, Shown, Ends
  <2>3. ASSUME NEW i \in DOMAIN events'
        PROVE  /\ events'[i][1] \in Shown => \E j \in DOMAIN recovery' : recovery'[j] = Cause(events'[i])
               /\ events'[i][1] \in Ends =>
                    /\ Terminal(recovery') /\ recovery'[Len(recovery')][3] = i
                    /\ recovery'[Len(recovery')][2] = (events'[i][1] = "session.failed")
    <3>1. events'[i] = events[i] /\ recovery' = recovery
      BY <2>1, Zenon
    <3>2. /\ events[i][1] \in Shown => \E j \in DOMAIN recovery : recovery[j] = Cause(events[i])
          /\ events[i][1] \in Ends =>
               /\ Terminal(recovery) /\ recovery[Len(recovery)][3] = i
               /\ recovery[Len(recovery)][2] = (events[i][1] = "session.failed")
      BY <2>2, Zenon
    <3> QED
      BY <3>1, <3>2, Zenon
  <2> QED
    BY <2>3, Zenon DEF EventsFollowSnapshot, Shown, Ends
<1>6. Progress' /\ Grounds' /\ Snapshot'
  BY <1>1, Groundless, SnapshotStays, Zenon DEF RInv, Progress
<1>7. Closed'
  <2>1. SUFFICES ASSUME history # "none" PROVE HistoryClosesRun'
    BY <1>1, Zenon DEF Closed
  <2>2. HistoryClosesRun /\ synced = Len(events)
    BY <2>1, Zenon DEF RInv, Closed, HistoryClosesRun
  <2>3. n = Len(events) /\ Len(events') = Len(events)
    BY <1>2, <2>2
  <2>4. events'[Len(events)] = events[Len(events)]
    <3>1. CASE Len(events) = 0
      <4>1. events = <<>> /\ events' = <<>>
        BY <1>2, <2>3, <3>1
      <4> QED
        BY <4>1, Zenon
    <3>2. CASE Len(events) # 0
      <4>1. Len(events) \in 1..n
        BY <1>2, <2>3, <3>2
      <4> QED
        BY <4>1, Zenon
    <3> QED
      BY <3>1, <3>2, Zenon
  <2>5. Terminal(recovery)' = Terminal(recovery)
    BY Zenon DEF Terminal
  <2> QED
    BY <1>3, <2>1, <2>2, <2>3, <2>4, <2>5, Zenon DEF HistoryClosesRun
<1> QED
  BY <1>4, <1>5, <1>6, <1>7, Zenon DEF RInv

LEMMA UnchangedKeeps == ASSUME RInv, UNCHANGED <<disk, proc>> PROVE RInv'
<1>0. UNCHANGED <<intents, results, recovery, events, synced, contexts, history, proc>>
  BY Zenon DEF disk
<1>1. Snapshot' /\ EventsFollowSnapshot' /\ Grounds'
  BY <1>0, SnapshotStays, EventsStay, GroundsStay, Zenon DEF RInv
<1>2. StreamsAgree'
  BY <1>0, Zenon DEF RInv, StreamsAgree, PrefixReplayed, Messages
<1>3. Progress'
  <2>1. /\ Replaying' <=> Replaying
        /\ ensure_live_append' <=> ensure_live_append
        /\ RecordedAttempts' = RecordedAttempts
    BY <1>0, Zenon DEF Replaying, ensure_live_append, Terminal, RecordedAttempts
  <2>2. Seen' = Seen
    BY <1>0, <2>1, Zenon DEF Seen
  <2> QED
    BY <1>0, <2>1, <2>2, ZenonT(60) DEF RInv, Progress
<1>4. Closed'
  BY <1>0, Zenon DEF RInv, Closed, HistoryClosesRun, Terminal, Messages
<1> QED
  BY <1>1, <1>2, <1>3, <1>4, Zenon DEF RInv

\* Return, Crash and Ctrl-C.
LEMMA EndKeeps == ASSUME Counting, IInv, IInv', RInv, Return \/ Crash \/ Interrupt PROVE RInv'
<1>0. events \in Seq(EventRecords) /\ Len(events) \in Nat /\ synced \in Nat /\ synced <= Len(events)
  BY SMTT(30) DEF IInv, Types, RInv, StreamsAgree
<1>1. ASSUME NEW power \in BOOLEAN, ProcessEnds(power) PROVE RInv'
  <2>1. PICK n \in Surviving(power) : events' = SubSeq(events, 1, n)
    BY <1>1, Zenon DEF ProcessEnds
  <2>2. n \in synced..Len(events)
    BY Zenon DEF Surviving
  <2>3. /\ n \in Nat /\ synced <= n /\ n <= Len(events)
        /\ Len(events') = n /\ \A i \in 1..n : events'[i] = events[i]
    BY <1>0, <2>1, <2>2
  <2>4. proc' = NoProcess /\ UNCHANGED <<intents, results, recovery, synced, contexts, history>>
    BY <1>1, Zenon DEF ProcessEnds
  <2> QED
    BY <2>3, <2>4, DownKeeps, Zenon
<1>2. CASE Return
  <2>1. proc' = NoProcess /\ UNCHANGED <<intents, results, recovery, events, synced, contexts, history>>
    BY <1>2, Zenon DEF Return, disk
  <2>2. Len(events) <= Len(events)
    BY <1>0
  <2> QED
    BY <1>0, <2>1, <2>2, DownKeeps, Zenon
<1>3. CASE Crash
  BY <1>1, <1>3, BoundsAssumption, Zenon DEF Crash
<1>4. CASE Interrupt
  BY <1>1, <1>4, UnchangedKeeps, Zenon DEF Interrupt
<1> QED
  BY <1>2, <1>3, <1>4, Zenon

\* First execution and exact Resume.
LEMMA OpenKeeps == ASSUME Counting, IInv, IInv', RInv, Open PROVE RInv'
<1>0. /\ UNCHANGED <<intents, results, recovery, events, synced, contexts, history>>
      /\ history = "none" /\ Uncertain = {}
  BY Zenon DEF Open, disk
<1>1. /\ proc'.pc = "start" /\ proc'.records = Len(recovery) /\ proc'.recorded = 0
      /\ proc'.completed = Completed /\ proc'.consumed = {}
      /\ proc'.prefix = Len(events) /\ proc'.emitted = 0
      /\ proc'.manifests = contexts /\ proc'.manifest = 0
  BY Zenon DEF Open, NoProcess
<1>2. proc'.pc \in Working \ Held /\ proc'.pc \notin Held \cup Grounded \cup {"finish", "return", "down"}
  BY <1>1, Zenon DEF Working, Held, Intending, InAttempt, Undispatched, Grounded
<1>3. /\ Len(events) \in Nat /\ Len(recovery) \in Nat /\ contexts \in Nat /\ events \in Seq(EventRecords)
      /\ Messages(events) \in Nat /\ contexts \in {Messages(events), Messages(events) + 1}
  <2>1. Len(events) \in Nat /\ Len(recovery) \in Nat /\ contexts \in Nat /\ events \in Seq(EventRecords)
    BY DEF IInv, Types
  <2> QED
    BY <2>1, CountAll, Zenon DEF RInv, StreamsAgree
<1>4. StreamsAgree'
  <2>1. Cardinality(MessagesOf(events, 0)) = 0
    BY Zenon DEF Counting
  <2>2. IF 0 < Len(events) THEN Len(events) = Len(events) ELSE 0 = Len(events)
    BY <1>3
  <2>3. IF 0 >= Len(events) /\ 0 >= contexts THEN contexts = Messages(events) ELSE contexts = contexts
    BY <1>3
  <2>4. PrefixReplayed' <=> 0 >= Len(events) /\ 0 >= contexts
    BY <1>1, Zenon DEF PrefixReplayed
  <2>5. IF PrefixReplayed' THEN contexts = Messages(events) ELSE contexts = proc'.manifests
    BY <1>1, <2>3, <2>4, Zenon
  <2>6. proc'.manifest = Cardinality(MessagesOf(events, proc'.emitted))
    BY <1>1, <2>1, Zenon
  <2>7. IF proc'.emitted < proc'.prefix THEN Len(events) = proc'.prefix ELSE proc'.emitted = Len(events)
    BY <1>1, <2>2, Zenon
  <2> QED
    BY <1>0, <1>3, <2>5, <2>6, <2>7, Zenon DEF RInv, StreamsAgree
<1>5. Progress'
  <2>1. 0 <= Len(recovery) /\ Len(recovery) <= Len(recovery) /\ (~(0 < Len(recovery)) => Len(recovery) = 0)
    BY <1>3
  <2>2. Seen' = 0
    BY <1>0, <1>1, <2>1, Zenon DEF Seen, Replaying
  <2>3. \A i \in 1..0 : FALSE
    OBVIOUS
  <2>4. intents \subseteq Completed
    BY <1>0, Zenon DEF Uncertain, Completed
  <2>5. proc'.pc # "attempt.record"
    BY <1>1, Zenon
  <2> QED
    BY <1>0, <1>1, <1>2, <2>1, <2>2, <2>3, <2>4, <2>5, Zenon DEF Progress
<1>6. Snapshot' /\ EventsFollowSnapshot' /\ Grounds' /\ Closed'
  BY <1>0, <1>2, SnapshotStays, EventsStay, Groundless, Zenon DEF RInv, Closed
<1> QED
  BY <1>4, <1>5, <1>6, Zenon DEF RInv

\* flow reconcile-tool: a recorded attempt is not uncertain.
LEMMA ReconcileKeeps == ASSUME IInv, IInv', RInv, Reconcile PROVE RInv'
<1>0. UNCHANGED <<intents, recovery, events, synced, contexts, history, proc>> /\ proc.pc = "down"
  BY Zenon DEF Reconcile, At
<1>1. PICK a \in Uncertain, outcome \in {"ok", "exit", "cancelled"} : results' = [results EXCEPT ![a] = outcome]
  BY Zenon DEF Reconcile
<1>2. a \in intents /\ results[a] = "none" /\ results \in [Attempts -> Outcomes]
  BY Zenon DEF Uncertain, IInv, Types
<1>3. "down" \notin Working \cup InAttempt \cup Held
  BY Zenon DEF Working, InAttempt, Undispatched, Held, Intending
<1>4. Snapshot'
  <2>1. ASSUME NEW i \in DOMAIN recovery, recovery[i][1] = "attempt"
        PROVE  results'[recovery[i][2]] = results[recovery[i][2]]
    <3>1. /\ recovery[i][2] \in intents /\ recovery[i][3] # "none"
          /\ results[recovery[i][2]] = recovery[i][3]
      BY <2>1, Zenon DEF RInv, Snapshot
    <3>2. recovery[i][2] # a /\ recovery[i][2] \in Attempts
      BY <1>2, <3>1, Zenon DEF IInv, Types
    <3> QED
      BY <1>1, <1>2, <3>2, Zenon
  <2>2. RecordedAttempts' = RecordedAttempts
    BY <1>0, Zenon DEF RecordedAttempts
  <2> QED
    BY <1>0, <2>1, <2>2, Zenon DEF RInv, Snapshot
<1>5. Progress' /\ EventsFollowSnapshot' /\ Grounds'
  BY <1>0, <1>3, EventsStay, GroundsStay, Zenon DEF RInv, Progress
<1>6. StreamsAgree' /\ Closed'
  BY <1>0, Zenon DEF RInv, StreamsAgree, Closed, HistoryClosesRun, Messages, Terminal, PrefixReplayed
<1> QED
  BY <1>4, <1>5, <1>6, Zenon DEF RInv

-----------------------------------------------------------------------------
(* The invariant. *)

\* Steps that are an Event, a boundary or an attempt unless Ctrl-C was answered.
LEMMA CancellableKeeps ==
  ASSUME Counting, IInv, IInv', RInv,
         \/ PhaseBoundary \/ PhaseCompleted \/ TransitionBoundary \/ FlowBoundary \/ FlowCompleted
         \/ ProviderTurn \/ ToolCall \/ ToolStarted \/ ToolEnd
  PROVE  RInv'
<1>1. ASSUME NEW error, NEW open \in BOOLEAN, Fail(error, open), Local,
             proc.pc \notin {"down", "return", "message.completed"}
      PROVE  RInv'
  BY <1>1, FailKeeps, Zenon DEF Local
<1>2. CASE PhaseBoundary \/ TransitionBoundary \/ FlowBoundary
  BY <1>1, <1>2, FlowBoundaries, Zenon DEF PhaseBoundary, TransitionBoundary, FlowBoundary, At
<1>3. CASE PhaseCompleted \/ FlowCompleted
  BY <1>1, <1>3, CausedEvents, Zenon DEF PhaseCompleted, FlowCompleted, At
<1>4. CASE ToolStarted
  BY <1>1, <1>4, PlainEvents, Zenon DEF ToolStarted, At
<1>5. CASE ToolEnd
  BY <1>5, PlainEvents, CausedEvents, Zenon DEF ToolEnd
<1>6. CASE ProviderTurn
  <2>1. CASE effect_dispatch_allowed
    <3>1. <<"provider", proc.turns + 1>> \in Attempts
      <4>1. proc.turns < MaxTurns /\ proc.turns \in Nat /\ MaxTurns \in Nat
        BY <1>6, ProcTyped, BoundsAssumption, Zenon DEF ProviderTurn
      <4> QED
        BY <4>1 DEF Attempts
    <3>2. /\ Following(<<"provider", proc.turns + 1>>) /\ "provider.intent" \in Intending /\ SnapshotOnly
          /\ recover_attempt(<<"provider", proc.turns + 1>>, "provider.intent")
      BY <1>6, <2>1, Zenon DEF ProviderTurn, Following, Intending, At
    <3> QED
      BY <3>1, <3>2, RecoverKeeps, Zenon
  <2>2. CASE ~effect_dispatch_allowed
    BY <1>1, <1>6, <2>2, Zenon DEF ProviderTurn, At
  <2> QED
    BY <2>1, <2>2, Zenon
<1>7. CASE ToolCall
  <2>1. <<"tool", proc.tools + 1>> \in Attempts
    <3>1. proc.tools < MaxTurns /\ proc.tools \in Nat /\ MaxTurns \in Nat
      BY <1>7, ProcTyped, BoundsAssumption, Zenon DEF ToolCall
    <3> QED
      BY <3>1 DEF Attempts
  <2>2. /\ Following(<<"tool", proc.tools + 1>>) /\ "tool.intent" \in Intending /\ SnapshotOnly
        /\ recover_attempt(<<"tool", proc.tools + 1>>, "tool.intent")
    BY <1>7, Zenon DEF ToolCall, Following, Intending, At
  <2> QED
    BY <2>1, <2>2, RecoverKeeps, Zenon
<1> QED
  BY <1>2, <1>3, <1>4, <1>5, <1>6, <1>7, Zenon

LEMMA RInvStep == ASSUME Counting, IInv, RInv, [Next]_vars PROVE RInv'
<1>0. IInv'
  BY IInvStep, Zenon
<1>1. CASE UNCHANGED vars
  BY <1>1, UnchangedKeeps, Zenon DEF vars
<1>2. CASE Open \/ Reconcile \/ Crash \/ Interrupt
  BY <1>0, <1>2, OpenKeeps, ReconcileKeeps, EndKeeps, Zenon
<1>3. CASE Execute
  BY <1>0, <1>3, PlainEvents, CausedEvents, CancellableKeeps, FlowMoves, AttemptMoves, IntentKeeps,
     TerminalKeeps, RecordKeeps, TerminalBoundaryKeeps, FinishKeeps, EndKeeps, ZenonT(60) DEF Execute
<1> QED
  BY <1>1, <1>2, <1>3, Zenon DEF Next

-----------------------------------------------------------------------------
(* Counting. *)

Sets == INSTANCE FiniteSetTheorems

LEMMA SameCount == \A S : Cardinality(S) = Sets!Cardinality(S)
BY Zenon DEF Cardinality, Sets!Cardinality

LEMMA CountingHolds == Counting
<1> SUFFICES ASSUME NEW log
             PROVE  /\ Cardinality(MessagesOf(log, 0)) = 0
                    /\ \A n \in Nat :
                         /\ Cardinality(MessagesOf(log, n)) \in Nat
                         /\ Cardinality(MessagesOf(log, n + 1)) =
                              Cardinality(MessagesOf(log, n))
                                + IF log[n + 1][1] = "message.completed" THEN 1 ELSE 0
  BY Zenon DEF Counting
<1>1. Cardinality(MessagesOf(log, 0)) = 0
  <2>1. MessagesOf(log, 0) = {}
    BY DEF MessagesOf
  <2> QED
    BY <2>1, SameCount, Sets!FS_EmptySet, Zenon
<1>2. ASSUME NEW n \in Nat
      PROVE  /\ Sets!IsFiniteSet(MessagesOf(log, n)) /\ Cardinality(MessagesOf(log, n)) \in Nat
             /\ Cardinality(MessagesOf(log, n + 1)) =
                  Cardinality(MessagesOf(log, n)) + IF log[n + 1][1] = "message.completed" THEN 1 ELSE 0
  <2>1. Sets!IsFiniteSet(MessagesOf(log, n))
    <3>1. Sets!IsFiniteSet(1..n)
      BY Sets!FS_Interval
    <3>2. MessagesOf(log, n) \subseteq 1..n
      BY Zenon DEF MessagesOf
    <3> QED
      BY <3>1, <3>2, Sets!FS_Subset, Zenon
  <2>2. Cardinality(MessagesOf(log, n)) \in Nat
    BY <2>1, SameCount, Sets!FS_CardinalityType, Zenon
  <2>3. CASE log[n + 1][1] = "message.completed"
    <3>1. MessagesOf(log, n + 1) = MessagesOf(log, n) \cup {n + 1} /\ n + 1 \notin MessagesOf(log, n)
      BY <2>3 DEF MessagesOf
    <3>2. Cardinality(MessagesOf(log, n) \cup {n + 1}) = Cardinality(MessagesOf(log, n)) + 1
      BY <2>1, <3>1, SameCount, Sets!FS_AddElement, Zenon
    <3> QED
      BY <2>1, <2>2, <2>3, <3>1, <3>2
  <2>4. CASE log[n + 1][1] # "message.completed"
    <3>1. MessagesOf(log, n + 1) = MessagesOf(log, n)
      BY <2>4 DEF MessagesOf
    <3> QED
      BY <2>1, <2>2, <2>4, <3>1
  <2> QED
    BY <2>3, <2>4, Zenon
<1> QED
  BY <1>1, <1>2, Zenon

LEMMA AtMostOne == ASSUME NEW S, NEW a, S \subseteq {a} PROVE Cardinality(S) <= 1
<1>1. Sets!IsFiniteSet({a}) /\ Sets!Cardinality({a}) = 1
  BY Sets!FS_Singleton, Zenon
<1> QED
  BY <1>1, SameCount, Sets!FS_Subset, Zenon

-----------------------------------------------------------------------------
(* The theorems. *)

\* RInv holds in every reachable state: what a process has replayed and what it
\* has written agree, whatever was lost with the processes before it.
THEOREM RecordsInvariance == Spec => []RInv
<1>1. Init => RInv
  <2> SUFFICES ASSUME Init PROVE RInv
    BY Zenon
  <2>1. /\ intents = {} /\ recovery = <<>> /\ events = <<>> /\ synced = 0 /\ contexts = 0
        /\ history = "none" /\ proc.pc = "down"
    BY Zenon DEF Init, NoProcess
  <2>2. "down" \notin Working \cup InAttempt \cup Held \cup Grounded \cup {"finish"}
    BY Zenon DEF Working, InAttempt, Undispatched, Held, Intending, Grounded
  <2>3. Messages(events) = 0 /\ DOMAIN recovery = {} /\ DOMAIN events = {} /\ synced <= Len(events)
        /\ \A i \in 1..Len(events) : FALSE
    <3>1. events \in Seq(EventRecords) /\ Len(events) = 0
      BY <2>1
    <3>2. Messages(events) = 0
      BY <3>1, CountAll, CountingHolds, Zenon DEF Counting
    <3> QED
      BY <2>1, <3>2
  <2>4. StreamsAgree /\ Closed
    BY <2>1, <2>3, Zenon DEF StreamsAgree, Closed
  <2>5. Snapshot
    <3>1. <<"provider", 1>> \in Attempts
      BY BoundsAssumption DEF Attempts
    <3> QED
      BY <2>1, <2>3, <3>1, Zenon DEF Snapshot
  <2>6. Progress /\ Grounds /\ EventsFollowSnapshot
    BY <2>1, <2>2, <2>3, Zenon DEF Progress, Grounds, EventsFollowSnapshot, Grounded
  <2> QED
    BY <2>4, <2>5, <2>6, Zenon DEF RInv
<1>2. IInv /\ RInv /\ [Next]_vars => RInv'
  BY RInvStep, CountingHolds, Zenon
<1> QED
  BY <1>1, <1>2, Invariance, PTL DEF Spec

\* However often a Run is crashed, cancelled, reconciled and resumed, the
\* recovery snapshot repeats the Run Log with at most one completed attempt to
\* be promoted, no Event is in the stream before the snapshot holds its cause,
\* and the history entry closes a Run whose records agree (recover_attempt,
\* emit_and_commit, finalize_productive_run).
THEOREM RecordsTheorem == Spec => []RecordsAgree
<1>1. IInv /\ RInv => RecordsAgree
  <2> SUFFICES ASSUME IInv, RInv PROVE RecordsAgree
    BY Zenon
  <2>1. PICK a \in Attempts : intents \subseteq RecordedAttempts \cup {a}
    BY Zenon DEF RInv, Snapshot
  <2>2. Completed \ RecordedAttempts \subseteq {a}
    BY <2>1, Zenon DEF Completed
  <2>3. Cardinality(Completed \ RecordedAttempts) <= 1
    BY <2>2, AtMostOne, Zenon
  <2>4. SnapshotRepeatsRunLog
    BY <2>3, Zenon DEF RInv, Snapshot, SnapshotRepeatsRunLog
  <2>5. HistoryClosesRun
    BY Zenon DEF RInv, Closed, HistoryClosesRun
  <2> QED
    BY <2>4, <2>5, Zenon DEF RInv, RecordsAgree
<1> QED
  BY <1>1, Invariance, RecordsInvariance, PTL
=============================================================================

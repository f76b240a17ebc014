---------------------------- MODULE AgentSession -----------------------------
(***************************************************************************)
(* One agent process (pi) and the session that drives it                   *)
(* (meta-harness-core, session.rs and session/supervisor.rs): the owner's  *)
(* calls, the supervisor that routes the agent's records, the timers of    *)
(* questions, the stopper, and the cards Liquid shows.  A step ends where  *)
(* the code awaits or releases the state lock.                             *)
(***************************************************************************)
EXTENDS Naturals, Sequences, SequencesExt, FiniteSets

CONSTANTS
  Approvals,    \* tool calls that ask for an approval
  Questions,    \* questions of extensions, all with a time limit
  Sessions,     \* session ids of pi
  Commands,     \* how many commands the owner sends
  Turns,        \* how many turns the agent starts without a prompt
  EventBuffer,  \* EVENT_BUFFER
  WriteBuffer,  \* WRITE_BUFFER
  OutputBuffer  \* records that fit into the agent's output

ASSUME Bounds == {EventBuffer, WriteBuffer, OutputBuffer} \subseteq Nat \ {0} /\ {Commands, Turns} \subseteq Nat

VARIABLES
  shared,   \* Shared, under its mutex
  owner,    \* the call in progress on the Session
  sup,      \* the supervisor task
  timers,   \* question -> its timer task
  ended,    \* the mutex and flag that keep Exited last
  stopper,  \* Stopper::stop
  input,    \* records queued for the agent, while its writer lives
  output,   \* records the agent wrote and the supervisor has not read
  events,   \* the event channel to Liquid
  screen,   \* the cards Liquid shows
  pi        \* the agent

vars == <<shared, owner, sup, timers, ended, stopper, input, output, events, screen, pi>>

Dialogs == Approvals \cup Questions
None == "none"

Record(kind, id, dialog, session) == [kind |-> kind, id |-> id, dialog |-> dialog, session |-> session]

Init ==
  /\ shared = [open |-> TRUE, replies |-> {}, switches |-> {}, full |-> FALSE,
               allowed |-> FALSE, allowed_in |-> None, approvals |-> {}, questions |-> {},
               expiries |-> {}, stopping |-> FALSE, granted |-> {}]
  /\ owner = [pc |-> "idle", op |-> None, dialog |-> None, todo |-> {}, sent |-> 0]
  /\ sup = [pc |-> "read", record |-> Record(None, 0, None, None), answer |-> None]
  /\ timers = [q \in Questions |-> "off"]
  /\ ended = [flag |-> FALSE, holder |-> None]
  /\ stopper = "idle"
  /\ input = [open |-> TRUE, queue |-> <<>>]
  /\ output = <<>>
  /\ events = <<>>
  /\ screen = [cards |-> {}, unseen |-> {}, exited |-> FALSE]
  /\ pi = [alive |-> TRUE, running |-> FALSE, session |-> CHOOSE session \in Sessions : TRUE,
           aborts |-> {}, turns |-> 0, dialogs |-> [d \in Dialogs |-> "new"],
           asked_in |-> [d \in Dialogs |-> None]]

------------------------------------------------------------------------------
(* The channels.                                                           *)

Room(queue, bound) == Len(queue) < bound

\* A send to the input ends with the record queued, or with an error once the
\* writer is gone; between the two it waits.
Delivered(record) ==
  \/ /\ input.open /\ Room(input.queue, WriteBuffer)
     /\ input' = [input EXCEPT !.queue = Append(@, record)]
  \/ ~input.open /\ UNCHANGED input

Reported(kind, dialog) ==
  /\ Room(events, EventBuffer)
  /\ events' = Append(events, <<kind, dialog>>)

------------------------------------------------------------------------------
(* The owner's calls; the session is borrowed mutably, so one at a time.   *)

Returned == [owner EXCEPT !.pc = "idle", !.op = None, !.dialog = None, !.todo = {}]

\* submit_as, up to the send.  Every message that may start a run asks for the
\* loaded commands first (require_gate).
Submit(op) ==
  /\ owner.pc = "idle" /\ owner.sent < Commands
  /\ IF shared.open
     THEN LET id == owner.sent + 1
          IN  /\ owner' = [owner EXCEPT !.pc = "send", !.op = op, !.sent = id]
              /\ shared' = [shared EXCEPT !.replies = @ \cup {id},
                              !.switches = IF op = "switch" THEN @ \cup {id} ELSE @,
                              !.stopping = @ \/ op = "abort"]
     ELSE /\ shared' = [shared EXCEPT !.stopping = @ \/ op = "abort"]
          /\ UNCHANGED owner
  /\ UNCHANGED <<sup, timers, ended, stopper, input, output, events, screen, pi>>

Send ==
  /\ owner.pc = "send"
  /\ Delivered(Record(owner.op, owner.sent, None, None))
  /\ owner' = CASE input.open /\ owner.op = "abort" -> [owner EXCEPT !.pc = "collect"]
                [] input.open /\ owner.op = "gate" -> [owner EXCEPT !.pc = "gated"]
                [] OTHER -> Returned
  /\ UNCHANGED <<shared, sup, timers, ended, stopper, output, events, screen, pi>>

\* require_gate got its answer, or the agent is gone: the prompt follows only a
\* gated answer.
Gated ==
  /\ owner.pc = "gated" /\ owner.sent \notin shared.replies
  /\ \/ owner' = Returned /\ UNCHANGED shared
     \/ /\ shared.open /\ owner.sent < Commands
        /\ owner' = [owner EXCEPT !.pc = "send", !.op = "prompt", !.sent = @ + 1]
        /\ shared' = [shared EXCEPT !.replies = @ \cup {owner.sent + 1}]
  /\ UNCHANGED <<sup, timers, ended, stopper, input, output, events, screen, pi>>

\* The rest of abort: the open dialogs, and their answers one after another.
Collect ==
  /\ owner.pc = "collect"
  /\ owner' = [owner EXCEPT !.pc = "withdraw", !.todo = shared.approvals \cup shared.questions]
  /\ UNCHANGED <<shared, sup, timers, ended, stopper, input, output, events, screen, pi>>

\* Mutant: an approval stays open until it is reported.
Taken_open(d) == [shared EXCEPT !.questions = @ \ {d}, !.expiries = @ \ {d}]

\* decide, withdraw and answer begin by taking the dialog (end_question).
Taken(d) ==
  [shared EXCEPT !.approvals = @ \ {d}, !.questions = @ \ {d}, !.expiries = @ \ {d}]

Open(d) == d \in shared.approvals \cup shared.questions

\* Its timer ends with it, unless it has already removed itself.
Untimed(d) == [q \in Questions |-> IF q = d /\ q \in shared.expiries THEN "off" ELSE timers[q]]

Withdraw ==
  /\ owner.pc = "withdraw"
  /\ \/ owner.todo = {} /\ owner' = Returned /\ UNCHANGED <<shared, timers>>
     \/ \E d \in owner.todo :
          IF Open(d)
          THEN /\ shared' = Taken(d) /\ timers' = Untimed(d)
               /\ owner' = [owner EXCEPT !.pc = "respond", !.dialog = d, !.todo = @ \ {d}]
          ELSE owner' = [owner EXCEPT !.todo = @ \ {d}] /\ UNCHANGED <<shared, timers>>
  /\ UNCHANGED <<sup, ended, stopper, input, output, events, screen, pi>>

\* The user answers a card.  AllowSession remembers the session of the call.
Decide(d, session_wide) ==
  /\ owner.pc = "idle" /\ d \in screen.cards /\ Open(d)
  /\ session_wide => d \in Approvals
  /\ shared' = IF session_wide
               THEN [Taken(d) EXCEPT !.allowed = TRUE, !.allowed_in = pi.asked_in[d],
                                     !.granted = @ \cup {pi.asked_in[d]}]
               ELSE Taken(d)
  /\ timers' = Untimed(d)
  /\ owner' = [owner EXCEPT !.pc = "respond", !.op = "decide", !.dialog = d]
  /\ UNCHANGED <<sup, ended, stopper, input, output, events, screen, pi>>

\* The next dialog to withdraw, or the end of the call.
Onward == IF owner.op = "abort" THEN [owner EXCEPT !.pc = "withdraw"] ELSE Returned

\* The answer to the agent, and then the report, which never follows Exited.
Respond ==
  /\ owner.pc = "respond"
  /\ Delivered(Record("answer", 0, owner.dialog, None))
  /\ owner' = IF input.open THEN [owner EXCEPT !.pc = "resolve"] ELSE Onward
  /\ UNCHANGED <<shared, sup, timers, ended, stopper, output, events, screen, pi>>

\* Mutant: a report waits for the lock and does not look at the flag.
Resolve_unchecked ==
  /\ \/ /\ owner.pc = "resolve" /\ ended.holder = None
        /\ owner' = [owner EXCEPT !.pc = "report"]
        /\ ended' = [ended EXCEPT !.holder = "owner"]
        /\ UNCHANGED events
     \/ /\ owner.pc = "report"
        /\ Reported("resolved", owner.dialog)
        /\ owner' = Onward
        /\ ended' = [ended EXCEPT !.holder = None]
  /\ UNCHANGED <<shared, sup, timers, stopper, input, output, screen, pi>>

Resolve ==
  /\ \/ /\ owner.pc = "resolve" /\ ended.holder = None
        /\ IF ended.flag
           THEN owner' = Onward /\ UNCHANGED <<ended, events>>
           ELSE /\ owner' = [owner EXCEPT !.pc = "report"]
                /\ ended' = [ended EXCEPT !.holder = "owner"]
                /\ UNCHANGED events
     \/ /\ owner.pc = "report"
        /\ Reported("resolved", owner.dialog)
        /\ owner' = Onward
        /\ ended' = [ended EXCEPT !.holder = None]
  /\ UNCHANGED <<shared, sup, timers, stopper, input, output, screen, pi>>

SetApprovalMode ==
  /\ owner.pc = "idle"
  /\ shared' = [shared EXCEPT !.full = ~@]
  /\ UNCHANGED <<owner, sup, timers, ended, stopper, input, output, events, screen, pi>>

Asks == \/ \E op \in {"gate", "abort", "switch"} : Submit(op)
        \/ \E d \in Dialogs, session_wide \in BOOLEAN : Decide(d, session_wide)
        \/ SetApprovalMode
Owner == Send \/ Gated \/ Collect \/ Withdraw \/ Respond \/ Resolve

------------------------------------------------------------------------------
(* The supervisor.                                                         *)

\* Mutant: an allowance outlives the session it was given in.
allow_in_any(s, session) == s

\* Shared::allow_in: allowances are kept for one session.
allow_in(s, session) ==
  IF s.allowed_in = session THEN s ELSE [s EXCEPT !.allowed = FALSE, !.allowed_in = session]

\* answer_command; the answer to an abort ends the stopping, the answer to a
\* switch that happened the allowances.
AnswerCommand(r) ==
  IF r.id \in shared.replies
  THEN [shared EXCEPT !.replies = @ \ {r.id}, !.switches = @ \ {r.id},
          !.stopping = @ /\ r.kind # "aborted",
          !.allowed = @ /\ ~(r.kind = "switched" /\ r.id \in shared.switches)]
  ELSE [shared EXCEPT !.switches = @ \ {r.id}]

\* One record of handle up to its first await: what it makes of the shared
\* state, and what is left to do.
Handle ==
  /\ sup.pc = "read" /\ output # <<>>
  /\ LET r == Head(output)
         s == IF r.dialog \in Approvals THEN allow_in(shared, r.session) ELSE shared
         reply(answer) == sup' = [pc |-> "reply", record |-> r, answer |-> answer]
         forward == sup' = [pc |-> "forward", record |-> r, answer |-> None]
     IN  \/ /\ r.kind \in {"response", "aborted", "switched"}
            /\ shared' = AnswerCommand(r) /\ UNCHANGED sup
         \/ /\ r.kind \in {"started", "completed"}
            /\ shared' = [s EXCEPT !.stopping = FALSE] /\ forward
         \/ r.kind = "dialog" /\ s.stopping /\ shared' = s /\ reply("cancelled")
         \/ /\ r.kind = "dialog" /\ ~s.stopping /\ r.dialog \in Approvals
            /\ IF s.allowed \/ s.full
               THEN shared' = s /\ reply("allow-auto")
               ELSE shared' = [s EXCEPT !.approvals = @ \cup {r.dialog}] /\ forward
         \/ /\ r.kind = "dialog" /\ ~s.stopping /\ r.dialog \in Questions
            /\ shared' = [s EXCEPT !.questions = @ \cup {r.dialog}] /\ forward
  /\ output' = Tail(output)
  /\ UNCHANGED <<owner, timers, ended, stopper, input, events, screen, pi>>

Reading == [sup EXCEPT !.pc = "read", !.record = Record(None, 0, None, None), !.answer = None]

Reply ==
  /\ sup.pc = "reply"
  /\ Delivered(Record("answer", 0, sup.record.dialog, None))
  /\ sup' = Reading
  /\ UNCHANGED <<shared, owner, timers, ended, stopper, output, events, screen, pi>>

\* The event, and then the timer of a question.
Forward ==
  /\ sup.pc = "forward"
  /\ Reported(sup.record.kind, sup.record.dialog)
  /\ sup' = IF sup.record.dialog \in Questions THEN [sup EXCEPT !.pc = "expire"] ELSE Reading
  /\ UNCHANGED <<shared, owner, timers, ended, stopper, input, output, screen, pi>>

Expire ==
  /\ sup.pc = "expire"
  /\ timers' = [timers EXCEPT ![sup.record.dialog] = "set"]
  /\ shared' = [shared EXCEPT !.expiries = @ \cup {sup.record.dialog}]
  /\ sup' = Reading
  /\ UNCHANGED <<owner, ended, stopper, input, output, events, screen, pi>>

\* watching: once the agent has exited, nothing more is written to it.
CloseInput ==
  /\ sup.pc \in {"read", "reply", "forward"} /\ ~pi.alive /\ input.open
  /\ input' = [open |-> FALSE, queue |-> <<>>]
  /\ UNCHANGED <<shared, owner, sup, timers, ended, stopper, output, events, screen, pi>>

\* The supervisor waits: only then it looks at the kill (unless_killed).
Waiting ==
  \/ sup.pc = "read" /\ output = <<>>
  \/ sup.pc = "forward" /\ ~Room(events, EventBuffer)
  \/ sup.pc = "reply" /\ input.open /\ ~Room(input.queue, WriteBuffer)

\* The reading ends with the output, or with a kill.
StopReading ==
  /\ \/ sup.pc = "read" /\ output = <<>> /\ ~pi.alive
     \/ Waiting /\ stopper = "killing"
  /\ sup' = [Reading EXCEPT !.pc = "reap"]
  /\ UNCHANGED <<shared, owner, timers, ended, stopper, input, output, events, screen, pi>>

\* The agent is gone; open dialogs, commands and timers end with it.
Reap ==
  /\ sup.pc = "reap" /\ (~pi.alive \/ stopper = "killing")
  /\ pi' = [pi EXCEPT !.alive = FALSE]
  /\ input' = [open |-> FALSE, queue |-> <<>>]
  /\ shared' = [shared EXCEPT !.open = FALSE, !.replies = {}, !.questions = {},
                              !.expiries = {}, !.approvals = {}]
  /\ timers' = [q \in Questions |-> IF q \in shared.expiries THEN "off" ELSE timers[q]]
  /\ sup' = [sup EXCEPT !.pc = "gone"]
  /\ UNCHANGED <<owner, ended, stopper, output, events, screen>>

\* Mutant: the flag is set without waiting for a report in progress.
End_at_once ==
  /\ sup.pc = "gone"
  /\ ended' = [ended EXCEPT !.flag = TRUE]
  /\ sup' = [sup EXCEPT !.pc = "exit"]
  /\ UNCHANGED <<shared, owner, timers, stopper, input, output, events, screen, pi>>

\* The stopper has learnt of the exit; a report in progress finishes first.
End ==
  /\ sup.pc = "gone" /\ ended.holder = None
  /\ ended' = [flag |-> TRUE, holder |-> "sup"]
  /\ sup' = [sup EXCEPT !.pc = "exit"]
  /\ UNCHANGED <<shared, owner, timers, stopper, input, output, events, screen, pi>>

ReportExit ==
  /\ sup.pc = "exit"
  /\ Reported("exited", None)
  /\ ended' = [ended EXCEPT !.holder = None]
  /\ sup' = [sup EXCEPT !.pc = "done"]
  /\ UNCHANGED <<shared, owner, timers, stopper, input, output, screen, pi>>

Supervisor == \/ Handle \/ Reply \/ Forward \/ Expire \/ CloseInput
              \/ StopReading \/ Reap \/ End \/ ReportExit

\* A question's time is up: it is forgotten and reported, under the ended lock.
Timer(q) ==
  /\ \/ /\ timers[q] = "set" /\ ended.holder = None
        /\ shared' = [shared EXCEPT !.questions = @ \ {q}, !.expiries = @ \ {q}]
        /\ IF q \in shared.questions /\ ~ended.flag
           THEN timers' = [timers EXCEPT ![q] = "report"] /\ ended' = [ended EXCEPT !.holder = q]
           ELSE timers' = [timers EXCEPT ![q] = "off"] /\ UNCHANGED ended
        /\ UNCHANGED events
     \/ /\ timers[q] = "report"
        /\ Reported("resolved", q)
        /\ timers' = [timers EXCEPT ![q] = "off"] /\ ended' = [ended EXCEPT !.holder = None]
        /\ UNCHANGED shared
  /\ UNCHANGED <<owner, sup, stopper, input, output, screen, pi>>

------------------------------------------------------------------------------
(* Stopper::stop: close the input, wait for the exit, kill after the grace. *)

StopAsked ==
  /\ stopper = "idle" /\ stopper' = "closing"
  /\ UNCHANGED <<shared, owner, sup, timers, ended, input, output, events, screen, pi>>

Exits == sup.pc \in {"gone", "exit", "done"}

\* Mutant: the grace begins once the input is closed.
GraceOver_after_close ==
  /\ stopper = "waiting" /\ ~Exits /\ stopper' = "killing"
  /\ UNCHANGED <<shared, owner, sup, timers, ended, input, output, events, screen, pi>>

GraceOver ==
  /\ stopper \in {"closing", "waiting"} /\ ~Exits /\ stopper' = "killing"
  /\ UNCHANGED <<shared, owner, sup, timers, ended, input, output, events, screen, pi>>

Stopper ==
  /\ \/ stopper = "closing" /\ Delivered(Record("close", 0, None, None)) /\ stopper' = "waiting"
     \/ stopper \in {"waiting", "killing"} /\ Exits /\ stopper' = "returned" /\ UNCHANGED input
  /\ UNCHANGED <<shared, owner, sup, timers, ended, output, events, screen, pi>>

------------------------------------------------------------------------------
(* Liquid takes the events: a resolution may come before its dialog.       *)

\* Mutant: a resolution that comes before its dialog is forgotten.
Show_forgets ==
  /\ events # <<>>
  /\ LET kind == Head(events)[1]
         d == Head(events)[2]
     IN  screen' = CASE kind = "dialog" -> [screen EXCEPT !.cards = @ \cup {d}]
                     [] kind = "resolved" -> [screen EXCEPT !.cards = @ \ {d}]
                     [] kind = "exited" -> [screen EXCEPT !.cards = {}, !.exited = TRUE]
                     [] OTHER -> screen
  /\ events' = Tail(events)
  /\ UNCHANGED <<shared, owner, sup, timers, ended, stopper, input, output, pi>>

Show ==
  /\ events # <<>>
  /\ LET kind == Head(events)[1]
         d == Head(events)[2]
     IN  screen' =
           CASE kind = "dialog" /\ d \in screen.unseen -> [screen EXCEPT !.unseen = @ \ {d}]
             [] kind = "dialog" /\ d \notin screen.unseen -> [screen EXCEPT !.cards = @ \cup {d}]
             [] kind = "resolved" /\ d \in screen.cards -> [screen EXCEPT !.cards = @ \ {d}]
             [] kind = "resolved" /\ d \notin screen.cards -> [screen EXCEPT !.unseen = @ \cup {d}]
             [] kind = "exited" -> [screen EXCEPT !.cards = {}, !.exited = TRUE]
             [] OTHER -> screen
  /\ events' = Tail(events)
  /\ UNCHANGED <<shared, owner, sup, timers, ended, stopper, input, output, pi>>

------------------------------------------------------------------------------
(* The agent, from how the session uses it.  It handles each input line on *)
(* its own, answers an abort once it is idle, and answers a question whose *)
(* time is up itself.                                                      *)

Writes(records) ==
  /\ Len(output) + Len(records) <= OutputBuffer
  /\ output' = output \o records

Asked == {d \in Dialogs : pi.dialogs[d] = "asked"}

PiReads ==
  /\ pi.alive /\ input.queue # <<>>
  /\ LET r == Head(input.queue)
         response(kind) == Record(kind, r.id, None, None)
     IN  \/ r.kind = "gate" /\ Writes(<<response("response")>>) /\ UNCHANGED pi
         \/ /\ r.kind = "prompt"
            /\ pi' = [pi EXCEPT !.running = TRUE]
            /\ Writes(IF pi.running THEN <<response("response")>>
                      ELSE <<response("response"), Record("started", 0, None, None)>>)
         \/ /\ r.kind = "abort" /\ (pi.running \/ Asked # {})
            /\ pi' = [pi EXCEPT !.aborts = @ \cup {r.id}] /\ UNCHANGED output
         \/ /\ r.kind = "abort" /\ ~pi.running /\ Asked = {}
            /\ Writes(<<response("aborted")>>) /\ UNCHANGED pi
         \/ /\ r.kind = "switch"
            /\ \/ Writes(<<response("response")>>) /\ UNCHANGED pi
               \/ /\ ~pi.running /\ Writes(<<response("switched")>>)
                  /\ \E session \in Sessions : pi' = [pi EXCEPT !.session = session]
         \/ /\ r.kind = "answer"
            /\ pi' = [pi EXCEPT !.dialogs[r.dialog] = IF @ = "asked" THEN "answered" ELSE @]
            /\ UNCHANGED output
         \/ r.kind = "close" /\ pi' = [pi EXCEPT !.alive = FALSE] /\ UNCHANGED output
  /\ input' = [input EXCEPT !.queue = Tail(@)]
  /\ UNCHANGED <<shared, owner, sup, timers, ended, stopper, events, screen>>

PiAsks(d) ==
  /\ pi.alive /\ pi.dialogs[d] = "new" /\ (pi.running \/ d \in Questions)
  /\ pi' = [pi EXCEPT !.dialogs[d] = "asked", !.asked_in[d] = pi.session]
  /\ Writes(<<Record("dialog", 0, d, pi.session)>>)
  /\ UNCHANGED <<shared, owner, sup, timers, ended, stopper, input, events, screen>>

\* A queued message or an extension starts a turn; the turn ends by itself or
\* aborted; an extension's command switches the session unseen; a question
\* times out; the process ends.
PiGoesOn ==
  /\ pi.alive
  /\ \/ /\ ~pi.running /\ pi.aborts = {} /\ pi.turns < Turns
        /\ pi' = [pi EXCEPT !.running = TRUE, !.turns = @ + 1]
        /\ Writes(<<Record("started", 0, None, None)>>)
     \/ /\ pi.running /\ Asked = {}
        /\ pi' = [pi EXCEPT !.running = FALSE]
        /\ Writes(<<Record("completed", 0, None, None)>>)
     \/ /\ ~pi.running /\ Asked = {}
        /\ \E id \in pi.aborts :
             /\ pi' = [pi EXCEPT !.aborts = @ \ {id}]
             /\ Writes(<<Record("aborted", id, None, None)>>)
     \/ /\ ~pi.running
        /\ \E session \in Sessions \ {pi.session} : pi' = [pi EXCEPT !.session = session]
        /\ UNCHANGED output
     \/ /\ \E q \in Questions \cap Asked : pi' = [pi EXCEPT !.dialogs[q] = "expired"]
        /\ UNCHANGED output
     \/ pi' = [pi EXCEPT !.alive = FALSE] /\ UNCHANGED output
  /\ UNCHANGED <<shared, owner, sup, timers, ended, stopper, input, events, screen>>

Pi == PiReads \/ PiGoesOn \/ \E d \in Dialogs : PiAsks(d)

------------------------------------------------------------------------------
Timers == \E q \in Questions : Timer(q)

Next ==
  \/ Asks \/ Owner \/ Supervisor \/ Timers
  \/ StopAsked \/ GraceOver \/ Stopper
  \/ Show \/ Pi

Spec == Init /\ [][Next]_vars

\* The runtime polls its tasks and the grace ends.  Nothing is assumed of the
\* agent, of the user, or of Liquid taking the events.
FairSpec ==
  Spec /\ WF_vars(Owner) /\ WF_vars(Supervisor) /\ WF_vars(GraceOver) /\ WF_vars(Stopper)

------------------------------------------------------------------------------
Kinds == {"dialog", "resolved", "started", "completed", "exited"}

\* The shared state holds dialogs and commands the owner really sent, the
\* channels keep their bounds, and the ended lock has at most one holder, who
\* is at a step that holds it.
TypeOK ==
  /\ shared.approvals \subseteq Approvals /\ shared.questions \subseteq Questions
  /\ shared.replies \subseteq 1..owner.sent /\ owner.sent <= Commands
  /\ Len(events) <= EventBuffer /\ Len(input.queue) <= WriteBuffer /\ Len(output) <= OutputBuffer
  /\ \A i \in DOMAIN events : events[i][1] \in Kinds
  /\ (owner.pc = "report") <=> (ended.holder = "owner")
  /\ (sup.pc = "exit") <=> (ended.holder = "sup")
  /\ \A q \in Questions : (timers[q] = "report") <=> (ended.holder = q)

\* Where a dialog the agent waits for is.
Places(d) ==
  {<<"output", i>> : i \in {j \in DOMAIN output : output[j].dialog = d}}
  \cup {<<"answer", i>> : i \in {j \in DOMAIN input.queue : input.queue[j].dialog = d}}
  \cup (IF sup.pc = "reply" /\ sup.record.dialog = d THEN {<<"reply", 0>>} ELSE {})
  \cup (IF Open(d) THEN {<<"open", 0>>} ELSE {})
  \cup (IF owner.pc = "respond" /\ owner.dialog = d THEN {<<"respond", 0>>} ELSE {})

\* Until the session kills the agent, every approval the agent waits for is in
\* exactly one place: unread, open for the user, or about to be answered.  None
\* is dropped (the agent would wait forever) and none is answered twice.  A
\* question may be in no place, once its timer has forgotten it.
DialogsAccounted ==
  pi.alive /\ stopper # "killing" =>
    \A d \in Asked :
      Cardinality(Places(d)) \in IF d \in Questions THEN {0, 1} ELSE {1}

\* A card on the screen is open, or its end is on the way to Liquid, or the
\* agent is gone and Exited will clear it.  This covers a resolution that
\* reaches the event channel before its dialog does.
NoStaleCard ==
  pi.alive =>
    \A d \in screen.cards :
      \/ Open(d) \/ Contains(events, <<"resolved", d>>)
      \/ owner.dialog = d /\ owner.pc \in {"respond", "resolve", "report"}
      \/ ended.holder = d

\* Exited is the last event: no resolution by the user or by a timer follows.
ExitedLast ==
  /\ \A i \in DOMAIN events : events[i][1] = "exited" => i = Len(events)
  /\ screen.exited => events = <<>>

\* The user answers only what can still be answered: every card is live, or its end is on
\* the way, and Exited, which clears them, comes last; and no dialog is dropped or answered
\* twice (session.rs).
CardsLive == NoStaleCard /\ ExitedLast /\ DialogsAccounted

\* A call is allowed without the user only in full mode, or when the user
\* allowed such calls in the session that the call belongs to, whichever
\* switches of the session came between.
AllowanceInScope ==
  (sup.pc = "read" /\ sup'.pc = "reply" /\ sup'.answer = "allow-auto")
    => (shared.full \/ sup'.record.session \in shared.granted)

\* A stop returns, and no command waits for good, even if the agent neither
\* reads nor ends and Liquid takes no event.
StopReturns ==
  (stopper = "closing") ~>
    [](stopper = "returned" /\ owner.pc \notin {"send", "gated", "respond"})
==============================================================================

---------------------------- MODULE SessionHistory ----------------------------
(***************************************************************************)
(* A chat session's stored history (meta-harness-core, src/history and the *)
(* reading of it in src/session.rs).  The agent appends entries to a tree, *)
(* moves its leaf about and writes a session file that lags behind; the    *)
(* session reads the file once, then asks for the entries added since, and *)
(* rebuilds from them the branch tree, the Trajectory of a branch with what *)
(* the model saw, the pages of the chat and the turns with their           *)
(* checkpoints.                                                            *)
(*                                                                         *)
(* An entry's id is its place among the agent's entries, 0 is none.  Its   *)
(* text is its length.  A call's id may repeat within a response; `place'  *)
(* is the ghost of the call a timing entry or a result is about, which the *)
(* stored entry does not say.                                              *)
(***************************************************************************)
EXTENDS Naturals, Sequences, FiniteSets, SequencesExt

CONSTANTS
  CallIds,   \* ids of tool calls
  Limit,     \* entries of a page of the chat
  Scenes     \* [kinds, calls, length, moves, reads]

VARIABLES
  scene,
  agent,     \* [session, entries, leaf, stored]: stored is how many the file has
  switched,  \* Shared.switched
  reader     \* Session::history: [at, history, reads, again, ok, was]

vars == <<scene, agent, switched, reader>>

Entry(kind, parent) ==
  [id |-> 0, parent |-> parent, kind |-> kind, chars |-> 1, calls |-> <<>>, call |-> 0, place |-> 0,
   target |-> 0, turn |-> 0, error |-> FALSE, large |-> FALSE]

-----------------------------------------------------------------------------
\* trajectory.rs, path: the entries from the root to `leaf'; an id names its last
\* entry, and a cycle ends the branch.
RECURSIVE Above(_, _, _)
Above(entries, id, seen) ==
  LET found == {i \in DOMAIN entries : entries[i].id = id}
  IN  IF found = {} \/ id \in seen THEN <<>>
      ELSE LET entry == entries[Max(found)]
           IN  Append(Above(entries, entry.parent, seen \cup {id}), entry)

path(entries, leaf) == Above(entries, leaf, {})

-----------------------------------------------------------------------------
\* entry.rs, OpenCalls: the calls of the latest response without a result, in
\* order by id, and the timing of those that ended.
NoCalls == [open |-> [id \in CallIds |-> <<>>], timing |-> [id \in CallIds |-> <<>>]]

respond(response) ==
  [open |-> [id \in CallIds |->
               LET places == SelectSeq([p \in DOMAIN response.calls |-> p],
                                       LAMBDA p : response.calls[p] = id)
               IN  [k \in DOMAIN places |-> <<response.id, places[k]>>]],
   timing |-> [id \in CallIds |-> <<>>]]

\* Mutant: the result answers the latest call with its id.
answered_last(calls, id) == IF calls.open[id] = <<>> THEN <<0, 0>> ELSE Last(calls.open[id])

\* answer: the earliest open call with the id.
answered(calls, id) == IF calls.open[id] = <<>> THEN <<0, 0>> ELSE Head(calls.open[id])

answer(calls, id) ==
  [calls EXCEPT !.open[id] = SelectSeq(@, LAMBDA call : call # answered(calls, id))]

reopen(calls, id, call) == [calls EXCEPT !.open[id] = <<call>> \o @]

ended(calls, id, place) == [calls EXCEPT !.timing[id] = Append(@, place)]

\* Mutant: the first of several timing entries is taken for the result's.
timing_first(calls, id) == IF calls.timing[id] = <<>> THEN 0 ELSE Head(calls.timing[id])

\* timing: none when several entries wait for the id.
timing(calls, id) == IF Len(calls.timing[id]) = 1 THEN Head(calls.timing[id]) ELSE 0

untimed(calls, id) == [calls EXCEPT !.timing[id] = <<>>]

-----------------------------------------------------------------------------
\* trajectory.rs, Projection: what the model sees, counted as a branch is walked.
Projected ==
  [log |-> <<>>, messages |-> 0, chars |-> 0, summary |-> 0, since |-> 0, turn |-> 0,
   calls |-> NoCalls, records |-> <<>>]

Logged(entry) ==
  [id |-> entry.id, message |-> FALSE, was |-> FALSE, chars |-> 0, out |-> FALSE]

\* count: the entry just logged is a message the model sees.
count(p, entry) ==
  [p EXCEPT !.messages = @ + 1, !.chars = @ + entry.chars,
            !.log[Len(p.log)] = [@ EXCEPT !.message = TRUE, !.was = TRUE, !.chars = entry.chars]]

\* Mutant: an entry is taken out of the context as often as it is forgotten.
forget_again(p, i) ==
  [p EXCEPT !.log[i].out = FALSE, !.log[i].message = FALSE,
            !.messages = IF p.log[i].was /\ @ > 0 THEN @ - 1 ELSE @,
            !.chars = IF p.log[i].message THEN @ - p.log[i].chars ELSE @]

\* forget: the entry is taken out of the model's context for good.
forget(p, i) ==
  [p EXCEPT !.log[i].out = FALSE, !.log[i].message = FALSE,
            !.messages = IF p.log[i].message THEN @ - 1 ELSE @,
            !.chars = IF p.log[i].message THEN @ - p.log[i].chars ELSE @]

RECURSIVE ForgetUpTo(_, _)
ForgetUpTo(p, kept) == IF kept = 0 THEN p ELSE forget(ForgetUpTo(p, kept - 1), kept)

position(p, id) == SelectInSeq(p.log, LAMBDA logged : logged.id = id)

\* The model sees the summary and what was kept from before it.
Compacted(p, entry) ==
  LET found == position(p, entry.target)
      kept == IF found = 0 THEN Len(p.log) ELSE found
  IN  [ForgetUpTo(p, kept - 1) EXCEPT !.summary = Len(p.log), !.log[Len(p.log)].chars = entry.chars]

\* The latest edit of a message wins; an edit without content takes it out.
Edited(p, entry) ==
  LET i == position(p, entry.target)
  IN  IF i = 0 THEN p
      ELSE IF entry.chars = 0
      THEN IF p.log[i].message THEN [forget(p, i) EXCEPT !.log[i].out = TRUE] ELSE p
      ELSE IF p.log[i].message
      THEN [p EXCEPT !.chars = @ - p.log[i].chars + entry.chars, !.log[i].chars = entry.chars]
      ELSE IF p.log[i].out
      THEN [p EXCEPT !.messages = @ + 1, !.chars = @ + entry.chars,
                     !.log[i] = [@ EXCEPT !.out = FALSE, !.message = TRUE, !.chars = entry.chars]]
      ELSE p

\* The row of a response: what the model saw for it.
StepContext(p) ==
  [messages |-> p.messages + (IF p.summary = 0 THEN 0 ELSE 1),
   chars |-> p.chars + (IF p.summary = 0 THEN 0 ELSE p.log[p.summary].chars)]

Row(p, entry, call, timed) ==
  [entry |-> entry.id, turn |-> p.turn, kind |-> entry.kind, call |-> call, timed |-> timed,
   context |-> StepContext(p)]

\* Projection::add
add(before, entry) ==
  LET p == [before EXCEPT !.log = Append(@, Logged(entry))] IN
  CASE entry.kind = "user" ->
         LET t == [p EXCEPT !.turn = @ + 1]
         IN  count([t EXCEPT !.records = Append(@, Row(t, entry, <<0, 0>>, 0))], entry)
    [] entry.kind = "assistant" ->
         count([p EXCEPT !.calls = respond(entry), !.since = Len(p.log),
                         !.records = Append(@, Row(p, entry, <<0, 0>>, 0))], entry)
    [] entry.kind = "result" ->
         LET timed == timing(p.calls, entry.call)
             calls == untimed(p.calls, entry.call)
         IN  count([p EXCEPT !.calls = answer(calls, entry.call),
                      !.records = Append(@, Row(p, entry, answered(calls, entry.call), timed))], entry)
    [] entry.kind = "timing" -> [p EXCEPT !.calls = ended(@, entry.call, entry.place)]
    [] entry.kind = "message" -> count(p, entry)
    [] entry.kind = "compaction" -> Compacted(p, entry)
    [] entry.kind = "edit" -> Edited(p, entry)
    [] OTHER -> p

trajectory(entries, leaf) == FoldLeft(add, Projected, path(entries, leaf)).records

\* detail: the messages of the branch before a response, and which of them the
\* model saw.
context(entries, response) ==
  LET p == FoldLeft(add, Projected, Front(path(entries, response)))
      listed == {i \in DOMAIN p.log : p.log[i].was \/ i = p.summary}
  IN  {[entry |-> p.log[i].id, chars |-> p.log[i].chars,
        in_context |-> p.log[i].message \/ i = p.summary, fresh |-> i > p.since] : i \in listed}

-----------------------------------------------------------------------------
\* tree.rs.  Labels drop out of the parent chain.
RECURSIVE label_end(_, _, _)
label_end(entries, id, seen) ==
  LET labels == {i \in DOMAIN entries : entries[i].id = id /\ entries[i].kind = "label"}
  IN  IF labels = {} THEN id
      ELSE IF id \in seen THEN 0
      ELSE label_end(entries, entries[Max(labels)].parent, seen \cup {id})

\* The latest label entry about an entry says its label.
label_of(entries, id) ==
  Max({0} \cup {i \in DOMAIN entries : entries[i].kind = "label" /\ entries[i].target = id})

Children(entries, i) ==
  {j \in DOMAIN entries : entries[j].parent = entries[i].id /\ entries[i].id # 0}

Roots(entries) ==
  {i \in DOMAIN entries : \A j \in DOMAIN entries : entries[j].id # entries[i].parent}

Enter(i) == [step |-> "enter", index |-> i, id |-> 0, call |-> <<0, 0>>]

\* The newest is pushed first, so the oldest is entered first.
Entering(set) == [k \in 1..Cardinality(set) |-> Enter(Reverse(SetToSortSeq(set, <))[k])]

\* Mutant: leaving a result does not open its call again for the next branch.
Leave_answered(id, call) == <<>>

\* What is to be undone when the branches below a result are done.
Leave(id, call) ==
  IF call = <<0, 0>> THEN <<>> ELSE <<[step |-> "reopen", index |-> 0, id |-> id, call |-> call]>>

\* result_targets: one walk down every branch carries the calls its responses
\* left open; `open' has those of each response above the entry.
RECURSIVE Walk(_, _, _, _)
Walk(entries, steps, open, targets) ==
  IF steps = <<>> THEN targets
  ELSE
    LET step == Last(steps)
        rest == Front(steps)
        top == Len(open)
    IN
    CASE step.step = "close" -> Walk(entries, rest, Front(open), targets)
      [] step.step = "reopen" ->
           Walk(entries, rest,
                IF top = 0 THEN open ELSE [open EXCEPT ![top] = reopen(@, step.id, step.call)], targets)
      [] OTHER ->
           LET entry == entries[step.index]
               below == Entering(Children(entries, step.index))
               call == IF entry.kind = "result" /\ top > 0 THEN answered(open[top], entry.call) ELSE <<0, 0>>
           IN
           IF entry.kind = "assistant"
           THEN Walk(entries, (rest \o <<[Enter(0) EXCEPT !.step = "close"]>>) \o below,
                     Append(open, respond(entry)), targets)
           ELSE IF call # <<0, 0>>
           THEN Walk(entries, (rest \o Leave(entry.call, call)) \o below,
                     [open EXCEPT ![top] = answer(@, entry.call)],
                     [targets EXCEPT ![step.index] = call])
           ELSE Walk(entries, rest \o below, open, targets)

result_targets(entries) ==
  Walk(entries, [k \in 1..Cardinality(Roots(entries)) |-> Enter(SetToSortSeq(Roots(entries), <)[k])],
       <<>>, [i \in DOMAIN entries |-> <<0, 0>>])

-----------------------------------------------------------------------------
\* transcript.rs: how each call of a branch ended, by its response and place.
Ending(state, entry) ==
  CASE entry.kind = "assistant" -> [state EXCEPT !.calls = respond(entry)]
    [] entry.kind = "timing" -> [state EXCEPT !.calls = ended(@, entry.call, entry.place)]
    [] entry.kind = "result" ->
         LET timed == timing(state.calls, entry.call)
             calls == untimed(state.calls, entry.call)
         IN  [calls |-> answer(calls, entry.call),
              ended |-> state.ended \cup
                {[call |-> answered(calls, entry.call), result |-> entry.id, timed |-> timed]}]
    [] OTHER -> state

Endings(branch) == FoldLeft(Ending, [calls |-> NoCalls, ended |-> {}], branch).ended

\* The items of an entry; a call without a result never finished.
Items(entry, endings) ==
  CASE entry.kind = "user" -> <<[entry |-> entry.id, place |-> 0, result |-> 0, timed |-> 0]>>
    [] entry.kind = "assistant" ->
         [p \in DOMAIN entry.calls |->
           LET own == {e \in endings : e.call = <<entry.id, p>>}
           IN  [entry |-> entry.id, place |-> p,
                result |-> Max({0} \cup {e.result : e \in own}),
                timed |-> Max({0} \cup {e.timed : e \in own})]]
    [] OTHER -> <<>>

\* Mutant: the entry a page ends before is shown again.
PageEnd_including(branch, before) ==
  LET i == SelectInSeq(branch, LAMBDA entry : entry.id = before)
  IN  IF i = 0 THEN Len(branch) ELSE i

\* A page ends before the entry the last one began with.
PageEnd(branch, before) ==
  LET i == SelectInSeq(branch, LAMBDA entry : entry.id = before)
  IN  IF i = 0 THEN Len(branch) ELSE i - 1

transcript(entries, leaf, before, limit) ==
  LET branch == path(entries, leaf)
      end == PageEnd(branch, before)
      start == IF end > limit THEN end - limit ELSE 0
      page == SubSeq(branch, start + 1, end)
      endings == Endings(branch)
  IN  [items |-> FoldLeft(LAMBDA items, entry : items \o Items(entry, endings), <<>>, page),
       more |-> start > 0,
       start |-> IF page = <<>> THEN 0 ELSE Head(page).id]

-----------------------------------------------------------------------------
\* Mutant: a turn that ended still takes a later prompt for its own.
Awaits_ended(turn) == turn.number = 0

\* turns.rs: a turn without its prompt yet.
Awaits(turn) == turn.number = 0 /\ turn.end = 0

\* The turns of a branch with the checkpoints at their start and end.
Turned(turns, entry) ==
  LET last == Len(turns.turns)
      own == {t \in 1..last : turns.turns[t].turn = entry.turn}
  IN
  CASE entry.kind = "user" ->
         [turns EXCEPT !.prompts = @ + 1,
            !.turns = IF last # 0 /\ Awaits(turns.turns[last])
                      THEN [@ EXCEPT ![last].number = turns.prompts + 1, ![last].prompt = entry.id]
                      ELSE @]
    [] entry.kind = "start" ->
         [turns EXCEPT !.turns =
            Append(@, [turn |-> entry.turn, start |-> entry.id, end |-> 0, number |-> 0, prompt |-> 0,
                       ended |-> FALSE, failure |-> entry.error])]
    [] entry.kind = "end" /\ own # {} ->
         LET t == Max(own)
         IN  [turns EXCEPT !.turns[t] =
                [@ EXCEPT !.end = entry.id, !.ended = ~entry.error /\ ~turns.turns[t].failure,
                          !.failure = @ \/ entry.error]]
    [] OTHER -> turns

turns_of(entries, leaf) ==
  FoldLeft(Turned, [prompts |-> 0, turns |-> <<>>], path(entries, leaf)).turns

-----------------------------------------------------------------------------
\* The agent and its extension (external).  Calls of a response run one after the
\* other, each timed and answered, or all at once, timed as they end and answered
\* in order once all have ended.
Open(branch) ==
  LET responses == {i \in DOMAIN branch : branch[i].kind = "assistant"}
      last == Max({0} \cup responses)
      after == {i \in DOMAIN branch : i > last}
  IN  IF last = 0 \/ \E i \in after : branch[i].kind = "user" THEN [calls |-> <<>>, timed |-> {}, results |-> {}]
      ELSE [calls |-> branch[last].calls,
            timed |-> {branch[i].place : i \in {j \in after : branch[j].kind = "timing"}},
            results |-> {branch[i].place : i \in {j \in after : branch[j].kind = "result"}}]

\* What the agent may store next on the branch it is on.
Additions ==
  LET branch == path(agent.entries, agent.leaf)
      open == Open(branch)
      next == Cardinality(open.results) + 1
      all == open.timed = DOMAIN open.calls
      E(kind) == Entry(kind, agent.leaf)
      old == {branch[i].id : i \in DOMAIN branch}
      turn == Max({0} \cup {branch[i].turn : i \in DOMAIN branch})
  IN  {E("user")}
      \cup {[E("assistant") EXCEPT !.calls = calls] : calls \in scene.calls}
      \cup {[E("timing") EXCEPT !.call = open.calls[p], !.place = p] :
              p \in {q \in DOMAIN open.calls \ open.timed :
                       open.results \subseteq open.timed
                       /\ (open.results # {} => q = next /\ open.timed = open.results)}}
      \cup (IF next \in open.timed /\ (all \/ open.timed = 1..next)
            THEN {[E("result") EXCEPT !.call = open.calls[next], !.place = next]} ELSE {})
      \cup {[E("message") EXCEPT !.chars = 2, !.large = large] : large \in BOOLEAN}
      \cup {[E("compaction") EXCEPT !.target = target] : target \in old \cup {0}}
      \cup {[E("edit") EXCEPT !.target = target, !.chars = chars] : target \in old, chars \in {0, 2}}
      \cup {[E("label") EXCEPT !.target = target] : target \in old}
      \cup {[E("start") EXCEPT !.turn = Len(agent.entries) + 1, !.error = error] : error \in BOOLEAN}
      \cup {[E("end") EXCEPT !.turn = turn, !.error = error] :
              error \in {e \in BOOLEAN : ~\E i \in DOMAIN branch : branch[i].kind = "end" /\ branch[i].turn = turn}}

Quiet == UNCHANGED <<scene, switched, reader>>

Store ==
  /\ Len(agent.entries) < scene.length
  /\ \E entry \in Additions :
       /\ entry.kind \in scene.kinds
       /\ LET id == Len(agent.entries) + 1
          IN  agent' = [agent EXCEPT !.entries = Append(@, [entry EXCEPT !.id = id + 10 * agent.session]),
                                     !.leaf = id + 10 * agent.session]
  /\ Quiet

\* watershed-branch: the session goes on from an earlier entry.
Branch ==
  /\ scene.moves > agent.moves
  /\ \E i \in DOMAIN agent.entries :
       agent' = [agent EXCEPT !.leaf = agent.entries[i].id, !.moves = @ + 1]
  /\ Quiet

\* The session file catches up.
Flush ==
  /\ scene.reads > 0 /\ agent.stored < Len(agent.entries)
  /\ agent' = [agent EXCEPT !.stored = @ + 1]
  /\ Quiet

\* Another session is opened, by the user, which the answer tells (answer_command),
\* or by an extension's command, which nothing tells.
SwitchSession ==
  /\ scene.reads > 0 /\ agent.session = 0
  /\ agent' = [agent EXCEPT !.session = 1, !.entries = <<>>, !.leaf = 0, !.stored = 0]
  /\ switched' \in {switched, TRUE}
  /\ UNCHANGED <<scene, reader>>

-----------------------------------------------------------------------------
\* session.rs, history: History::default
Empty == [entries |-> <<>>, leaf |-> 0]

last_id(history) == IF history.entries = <<>> THEN 0 ELSE Last(history.entries).id

\* Entry::skipped: an entry too large to read keeps its id and its parent.
Parsed(entry) ==
  IF entry.large THEN [Entry("other", entry.parent) EXCEPT !.id = entry.id, !.large = TRUE] ELSE entry

\* Mutant: an entry that is too large is left out.
from_file_readable(entries) ==
  [entries |-> SelectSeq(entries, LAMBDA entry : ~entry.large), leaf |-> 0]

from_file(entries) == [entries |-> [i \in DOMAIN entries |-> Parsed(entries[i])], leaf |-> 0]

\* A read begins: a switch the session knows of clears the history, an empty
\* history is read from the file.
ReadHistory ==
  /\ reader.at = "idle" /\ reader.reads < scene.reads
  /\ LET history == IF switched THEN Empty ELSE reader.history
     IN  reader' = [reader EXCEPT !.history = history, !.reads = @ + 1, !.again = FALSE,
                                  !.at = IF last_id(history) = 0 THEN "stored" ELSE "newer"]
  /\ switched' = FALSE
  /\ UNCHANGED <<scene, agent>>

\* read_stored: the file the agent names is read, or cannot be.
read_stored ==
  /\ reader.at = "stored"
  /\ reader' \in {[reader EXCEPT !.at = "newer", !.history = from_file(SubSeq(agent.entries, 1, agent.stored))],
                  [reader EXCEPT !.at = "newer"]}
  /\ UNCHANGED <<scene, agent, switched>>

\* What get_entries answers: the entries after `since', nothing the agent does
\* not know, and no answer that is too large.
get_entries(since) ==
  LET known == {i \in DOMAIN agent.entries : agent.entries[i].id = since}
      newer == IF since = 0 THEN agent.entries ELSE SubSeq(agent.entries, Max({0} \cup known) + 1, Len(agent.entries))
      fits == \A i \in DOMAIN newer : ~newer[i].large
  IN  [ok |-> (since = 0 \/ known # {}) /\ fits, entries |-> newer, leaf |-> agent.leaf]

\* The answer continues the history; a refusal, or an answer too large, has the
\* file read again from its start, once.
Newer(reply) ==
  IF reply.ok
  THEN [reader EXCEPT !.at = "idle", !.ok = TRUE,
          !.history = [entries |-> reader.history.entries \o reply.entries, leaf |-> reply.leaf]]
  ELSE IF ~reader.again /\ last_id(reader.history) # 0
  THEN [reader EXCEPT !.at = "stored", !.again = TRUE, !.history = Empty]
  ELSE [reader EXCEPT !.at = "idle", !.ok = FALSE]

read_newer ==
  /\ reader.at = "newer"
  /\ LET reply == get_entries(last_id(reader.history)) IN
       reader' = [Newer(reply) EXCEPT !.was = IF reply.ok THEN agent ELSE @]
  /\ UNCHANGED <<scene, agent, switched>>

Init ==
  /\ scene \in Scenes
  /\ agent = [session |-> 0, entries |-> <<>>, leaf |-> 0, stored |-> 0, moves |-> 0]
  /\ switched = FALSE
  /\ reader = [at |-> "idle", history |-> Empty, reads |-> 0, again |-> FALSE, ok |-> FALSE, was |-> agent]

Next == Store \/ Branch \/ Flush \/ SwitchSession \/ ReadHistory \/ read_stored \/ read_newer

Spec == Init /\ [][Next]_vars
-----------------------------------------------------------------------------
\* The tree, the Trajectory and the chat tell the same of every tool call,
\* however the ids of a response's calls repeat and wherever its results branch:
\* a result is shown with the call it is the result of, a call with its own
\* result on the branch, and a duration is that of the call or none is shown.
CallsMatched ==
  LET entries == agent.entries
      branch == path(entries, agent.leaf)
      targets == result_targets(entries)
      ResponseOf(i) == LET up == path(entries, entries[i].id)
                       IN  Max({0} \cup {up[k].id : k \in {j \in DOMAIN up : up[j].kind = "assistant"}})
  IN  /\ \A i \in DOMAIN entries : entries[i].kind = "result" =>
           targets[i] = <<ResponseOf(i), entries[i].place>>
      /\ LET rows == trajectory(entries, agent.leaf) IN
           \A r \in DOMAIN rows : rows[r].kind = "result" =>
             \E i \in DOMAIN entries :
               /\ entries[i].id = rows[r].entry /\ rows[r].call = targets[i]
               /\ rows[r].timed \in {0, entries[i].place}
      /\ LET items == transcript(entries, agent.leaf, 0, Len(branch)).items IN
           \A k \in DOMAIN items : items[k].place # 0 =>
             LET own == {i \in DOMAIN branch : branch[i].kind = "result"
                           /\ \E j \in DOMAIN entries : entries[j].id = branch[i].id
                                                        /\ targets[j] = <<items[k].entry, items[k].place>>}
             IN  /\ items[k].result = Max({0} \cup {branch[i].id : i \in own})
                 /\ items[k].timed \in {0, items[k].place}

\* The number and the length of the messages a response's row says the model
\* saw, kept up to date through compactions and edits that take messages out and
\* put them back, are those of the messages its context detail marks as seen.
ContextAgrees ==
  \A i \in DOMAIN agent.entries : agent.entries[i].kind = "assistant" =>
    LET id == agent.entries[i].id
        seen == {part \in context(agent.entries, id) : part.in_context}
        rows == trajectory(agent.entries, id)
    IN  Last(rows).context = [messages |-> Cardinality(seen), chars |-> FoldSet(LAMBDA part, sum : sum + part.chars, 0, seen)]

\* The pages of the chat, read from the newest on, show every item of the branch
\* once and in order, each call as the whole chat shows it.
RECURSIVE Pages(_, _, _)
Pages(entries, leaf, before) ==
  LET page == transcript(entries, leaf, before, Limit)
  IN  (IF page.more THEN Pages(entries, leaf, page.start) ELSE <<>>) \o page.items

PagesCover ==
  Pages(agent.entries, agent.leaf, 0) = transcript(agent.entries, agent.leaf, 0, Len(agent.entries)).items

\* A turn is shown with the first prompt between its start and its end, and as
\* one that can be reverted only when both of its own checkpoints were taken.
TurnsTruthful ==
  LET branch == path(agent.entries, agent.leaf)
      turns == turns_of(agent.entries, agent.leaf)
      At(id) == SelectInSeq(branch, LAMBDA entry : entry.id = id)
  IN  \A t \in DOMAIN turns :
        LET turn == turns[t]
            until == IF turn.end # 0 THEN At(turn.end)
                     ELSE IF t < Len(turns) THEN At(turns[t + 1].start) ELSE Len(branch) + 1
            prompts == {i \in DOMAIN branch : branch[i].kind = "user" /\ At(turn.start) < i /\ i < until
                          /\ (t < Len(turns) => i < At(turns[t + 1].start))}
        IN  /\ turn.prompt = (IF prompts = {} THEN 0 ELSE branch[Min(prompts)].id)
            /\ turn.ended => /\ ~branch[At(turn.start)].error /\ ~branch[At(turn.end)].error
                             /\ branch[At(turn.end)].turn = turn.turn

\* A read that succeeds has every entry of the session once and in order, and the
\* agent's leaf, as they were when the agent answered, whatever the session file
\* lacked, whichever answers were too large and whichever session was open
\* before.
ReadWhole ==
  reader.ok /\ reader.at = "idle" =>
    /\ reader.history.leaf = reader.was.leaf
    /\ Len(reader.history.entries) = Len(reader.was.entries)
    /\ \A i \in DOMAIN reader.was.entries :
         reader.history.entries[i] \in {reader.was.entries[i], Parsed(reader.was.entries[i])}
=============================================================================

------------------------------ MODULE Responses ------------------------------
(***************************************************************************)
(* One request to the provider: what is awaited, how the event stream is   *)
(* decoded as its chunks arrive, the turn it stands for, and whether a     *)
(* failure is definitive or leaves open if the provider acted (runtime/    *)
(* openai_codex/transport.rs and protocol.rs, runtime/responses.rs).       *)
(*                                                                         *)
(* Bytes are tokens: "n" a newline, "r" a carriage return, "d" a data:     *)
(* prefix, "j" a JSON value. Data that is Sentinel stands for [DONE].      *)
(***************************************************************************)
EXTENDS Integers, Sequences, FiniteSets

CONSTANTS
  Tokens,
  Openings,    \* the first chunk of a stream
  Chunk,       \* the longest of the later chunks
  MaxLine,     \* MAX_RESPONSES_LINE_BYTES
  MaxEvent,    \* MAX_RESPONSES_EVENT_BYTES
  MaxEvents,   \* MAX_RESPONSES_EVENTS
  MaxWire      \* MAX_RESPONSES_WIRE_STREAM_BYTES, and MaxEvents values fit the decoded bound

VARIABLES
  at,
  cancelled,   \* the run's cancellation flag
  text,        \* what arrived so far
  decoder,
  events,      \* the decoded values, by kind, once the stream is complete
  result

vars == <<at, cancelled, text, decoder, events, result>>

Sentinel == <<"d">>

NewDecoder == [pending |-> <<>>, data |-> <<>>, wire |-> 0, values |-> 0, dispatched |-> 0, terminal |-> FALSE, failed |-> FALSE]
Broken(d) == [d EXCEPT !.failed = TRUE]

\* Mutant: a fragment may not pass the limit, also when the byte over it is a carriage return.
append_line_fragment_strict(d, bytes) ==
  LET line == d.pending \o bytes IN
  IF Len(line) > MaxLine THEN Broken(d) ELSE [d EXCEPT !.pending = line]

\* append_line_fragment: one byte more than a line may have, if it is a carriage return.
append_line_fragment(d, bytes) ==
  LET line == d.pending \o bytes IN
  IF Len(line) > MaxLine + 1 \/ (Len(line) > MaxLine /\ line[Len(line)] # "r") THEN Broken(d)
  ELSE [d EXCEPT !.pending = line]

\* dispatch_event: the sentinel, or one value; nothing may follow the sentinel.
dispatch_event(d) ==
  IF d.data = <<>> THEN d
  ELSE IF d.dispatched = MaxEvents \/ d.terminal THEN Broken(d)
  ELSE IF d.data = Sentinel THEN [d EXCEPT !.dispatched = @ + 1, !.terminal = TRUE, !.data = <<>>]
  ELSE IF d.data # <<"j">> THEN Broken(d)
  ELSE [d EXCEPT !.dispatched = @ + 1, !.values = @ + 1, !.data = <<>>]

strip_carriage_return(line) == IF line # <<>> /\ line[Len(line)] = "r" THEN SubSeq(line, 1, Len(line) - 1) ELSE line

\* Data lines of one event are joined by newlines, within append_event_data's limit.
append_event_data(d, data) ==
  LET joined == IF d.data = <<>> THEN data ELSE d.data \o <<"n">> \o data IN
  IF Len(joined) > MaxEvent THEN Broken(d) ELSE [d EXCEPT !.data = joined]

\* finish_line: an empty line ends an event, a data line adds to it, any other is ignored.
finish_line(d) ==
  LET line == strip_carriage_return(d.pending)
      next == IF Len(line) > MaxLine THEN Broken(d)
              ELSE IF line = <<>> THEN dispatch_event(d)
              ELSE IF line[1] = "d" THEN append_event_data(d, Tail(line)) ELSE d
  IN [next EXCEPT !.pending = <<>>]

RECURSIVE PushLines(_, _)
PushLines(d, bytes) ==
  LET newlines == {i \in DOMAIN bytes : bytes[i] = "n"}
      first == CHOOSE i \in newlines : \A j \in newlines : i <= j
      added == append_line_fragment(d, SubSeq(bytes, 1, first - 1))
  IN IF d.failed THEN d
     ELSE IF newlines = {} THEN append_line_fragment(d, bytes)
     ELSE PushLines(IF added.failed THEN added ELSE finish_line(added), SubSeq(bytes, first + 1, Len(bytes)))

\* SseDecoder::push.
push(d, bytes) ==
  LET wire == d.wire + Len(bytes) IN
  IF wire > MaxWire THEN Broken(d) ELSE PushLines([d EXCEPT !.wire = wire], bytes)

------------------------------------------------------------------------------
\* The kinds of the decoded values decode_responses_turn tells apart: created
\* and completed with the response's id, a function call with its own id, the
\* ends that are failures, and what lacks a field or counts more cached tokens
\* than it had.
Kinds == {<<"created", 1>>, <<"created", 2>>, <<"completed", 1>>, <<"call", 1>>, <<"call", 2>>, <<"delta", 0>>, <<"failed", 0>>, <<"malformed", 0>>}

NoTurn == [created |-> 0, completed |-> 0, calls |-> {}, end |-> "none"]

\* Mutant: a function call id that comes again is the same call.
TakeEvent_again(turn, event) ==
  IF turn.end # "none" THEN turn
  ELSE IF turn.completed # 0 \/ event[1] = "malformed" THEN [turn EXCEPT !.end = "protocol"]
  ELSE CASE event[1] = "created" -> IF turn.created = 0 THEN [turn EXCEPT !.created = event[2]] ELSE [turn EXCEPT !.end = "protocol"]
         [] event[1] = "call" -> [turn EXCEPT !.calls = @ \cup {event[2]}]
         [] event[1] = "completed" -> [turn EXCEPT !.completed = event[2]]
         [] event[1] = "failed" -> [turn EXCEPT !.end = "provider"]
         [] event[1] = "delta" -> turn

\* decode_responses_turn, one event: none may follow the completed one, a
\* second created and a repeated call are refused, a failure ends it.
TakeEvent(turn, event) ==
  IF turn.end # "none" THEN turn
  ELSE IF turn.completed # 0 \/ event[1] = "malformed" THEN [turn EXCEPT !.end = "protocol"]
  ELSE CASE event[1] = "created" -> IF turn.created = 0 THEN [turn EXCEPT !.created = event[2]] ELSE [turn EXCEPT !.end = "protocol"]
         [] event[1] = "call" -> IF event[2] \in turn.calls THEN [turn EXCEPT !.end = "protocol"] ELSE [turn EXCEPT !.calls = @ \cup {event[2]}]
         [] event[1] = "completed" -> [turn EXCEPT !.completed = event[2]]
         [] event[1] = "failed" -> [turn EXCEPT !.end = "provider"]
         [] event[1] = "delta" -> turn

RECURSIVE TakeEvents(_, _)
TakeEvents(turn, rest) == IF rest = <<>> THEN turn ELSE TakeEvents(TakeEvent(turn, Head(rest)), Tail(rest))

decode_responses_turn(values) ==
  LET turn == TakeEvents(NoTurn, values) IN
  IF turn.end # "none" THEN turn.end
  ELSE IF turn.completed = 0 \/ turn.created \notin {0, turn.completed} THEN "protocol" ELSE "turn"

------------------------------------------------------------------------------
Ended(r) == at' = "done" /\ result' = r

\* await_deadline_or_cancellation: the flag is looked at before the reply.
Interrupted == cancelled /\ Ended("cancelled") /\ UNCHANGED <<cancelled, text, decoder, events>>

\* The request is sent and its header awaited: a failure or the deadline leaves open what the provider did.
Send ==
  /\ at = "header"
  /\ \/ Interrupted
     \/ /\ ~cancelled
        /\ \/ Ended("uncertain")
           \/ Ended("definitive")                          \* a status of failure, or no event stream
           \/ at' = "stream" /\ UNCHANGED result
        /\ UNCHANGED <<cancelled, text, decoder, events>>

Chunks == UNION {[1 .. n -> Tokens] : n \in 1 .. Chunk}

\* One chunk: a stream that cannot be decoded is uncertain; the sentinel ends the reading.
Receive ==
  /\ at = "stream"
  /\ \/ Interrupted
     \/ /\ ~cancelled
        /\ \E bytes \in IF text = <<>> THEN Openings ELSE Chunks :
             /\ text' = text \o bytes
             /\ decoder' = push(decoder, bytes)
             /\ IF decoder'.failed THEN Ended("uncertain")
                ELSE at' = (IF decoder'.terminal THEN "finish" ELSE "stream") /\ UNCHANGED result
        /\ UNCHANGED <<cancelled, events>>

\* The stream ends, or fails at its read deadline.
Close ==
  /\ at = "stream" /\ ~cancelled
  /\ \/ at' = "finish" /\ UNCHANGED result
     \/ Ended("uncertain")
  /\ UNCHANGED <<cancelled, text, decoder, events>>

\* SseDecoder::finish: no line and no event may be open.
finish(d) == d.pending = <<>> /\ d.data = <<>>

\* The end of the stream, the sentinel, and the turn.
Finish ==
  /\ at = "finish"
  /\ IF ~finish(decoder) \/ ~decoder.terminal
     THEN Ended("uncertain") /\ UNCHANGED events
     ELSE \E values \in [1 .. decoder.values -> Kinds] :
            /\ events' = values
            /\ Ended(IF decode_responses_turn(values) = "turn" THEN "turn" ELSE "definitive")
  /\ UNCHANGED <<cancelled, text, decoder>>

\* The run is cancelled at any time.
Cancel == ~cancelled /\ at # "done" /\ cancelled' = TRUE /\ UNCHANGED <<at, text, decoder, events, result>>

\* Decoded values are judged also where no stream of the bounded length holds as many.
Init ==
  /\ at \in {"header", "finish"} /\ cancelled = FALSE /\ text = <<>> /\ events = <<>> /\ result = "none"
  /\ decoder = IF at = "header" THEN NewDecoder ELSE [NewDecoder EXCEPT !.terminal = TRUE, !.values = 4]

Next == Send \/ Receive \/ Close \/ Finish \/ Cancel

Spec == Init /\ [][Next]_vars

------------------------------------------------------------------------------
\* The whole text at once: its lines, and the data of the event that ends at each empty line.
Newlines == {i \in DOMAIN text : text[i] = "n"}
Before(i) == LET earlier == {j \in Newlines : j < i} IN IF earlier = {} THEN 0 ELSE CHOOSE j \in earlier : \A k \in earlier : k <= j
Line(i) == strip_carriage_return(SubSeq(text, Before(i) + 1, i - 1))
Empty == {i \in Newlines : Line(i) = <<>>}
RECURSIVE DataUpTo(_)
DataUpTo(i) ==
  IF i = 0 \/ i \in Empty THEN <<>>
  ELSE LET earlier == DataUpTo(Before(i)) IN
       IF Line(i)[1] # "d" THEN earlier ELSE IF earlier = <<>> THEN Tail(Line(i)) ELSE earlier \o <<"n">> \o Tail(Line(i))
\* The data of each event, by where the event ends.
EventsIn == LET data == [i \in Empty |-> DataUpTo(Before(i))]
            IN [i \in {j \in Empty : data[j] # <<>>} |-> data[i]]
Last == IF Newlines = {} THEN 0 ELSE CHOOSE i \in Newlines : \A j \in Newlines : j <= i

Fits(sent) ==
  /\ Len(text) <= MaxWire
  /\ \A i \in Newlines : Len(Line(i)) <= MaxLine /\ Len(DataUpTo(i)) <= MaxEvent
  /\ Cardinality(DOMAIN sent) <= MaxEvents
  /\ \A i \in DOMAIN sent : sent[i] \in {<<"j">>, Sentinel}
  /\ \A i, j \in DOMAIN sent : sent[i] = Sentinel => j <= i
  /\ Len(strip_carriage_return(SubSeq(text, Last + 1, Len(text)))) <= MaxLine

\* However the stream is cut into chunks, the decoder has seen its lines,
\* events and limits as the whole text has them: an event is counted once, a
\* line that fits is not refused because a chunk ends in it, and one too many
\* is not taken.
DecodedWhole ==
  text # <<>> =>
    LET sent == EventsIn IN
    /\ decoder.failed = ~Fits(sent)
    /\ ~decoder.failed =>
         /\ decoder.values = Cardinality({i \in DOMAIN sent : sent[i] = <<"j">>})
         /\ decoder.terminal = \E i \in DOMAIN sent : sent[i] = Sentinel

\* A turn is complete and unambiguous: its events end with the one completed
\* event, nothing failed, every call has an id of its own and both ids agree.
TurnComplete ==
  result = "turn" =>
    LET n == Len(events) IN
    /\ n > 0 /\ events[n][1] = "completed"
    /\ \A i \in 1 .. n : events[i][1] \notin {"failed", "malformed"} /\ (events[i][1] = "completed" => i = n)
    /\ \A i, j \in 1 .. n : events[i] = events[j] /\ events[i][1] = "call" => i = j
    /\ \A i \in 1 .. n : events[i][1] = "created" => events[i][2] = events[n][2]

\* A failure is called definitive only when the provider's own answer says so:
\* its status, or a stream that arrived to its sentinel. Whatever was cut off
\* stays uncertain, and is not retried as if nothing had happened.
DefinitiveIsAnswered ==
  result \in {"turn", "definitive"} => text = <<>> \/ (decoder.terminal /\ ~decoder.failed /\ decoder.data = <<>>)
=============================================================================

---------------------------- MODULE HistoryIndex ----------------------------
(***************************************************************************)
(* How a conversation's history is validated before an entry is used or    *)
(* added: an external sort of its entries by id in bounded memory, binary  *)
(* searches in the sorted index, and one look at the events of each Run    *)
(* the entries point to (history_index.rs, history_index/external_sort.rs, *)
(* records.rs, event_identifiers.rs).                                      *)
(*                                                                         *)
(* So that lifecycle validation of a Run's events needs no identifier      *)
(* strings, each identifier is replaced by a token of its namespace, found *)
(* by sorting digests; digests may collide.                                *)
(*                                                                         *)
(* The budgets of work and of scratch space, which grow with the number of *)
(* entries and end the validation with an error once used up, are left     *)
(* out.                                                                    *)
(***************************************************************************)
EXTENDS Naturals, Sequences, FiniteSets

CONSTANTS
  SortLimit,   \* index_sort_record_limit and event_pointer_sort_record_limit
  FanIn,       \* INDEX_MERGE_FAN_IN
  Histories,   \* the histories that may be on disk: sequences of entries
  Committed,   \* the number of committed events of each Run
  Entries,     \* the entries a command may add
  Streams,     \* events with their identifiers: kind -> value, none if absent
  Digests      \* functions from values to digests

VARIABLES history, stream, digest, result

vars == <<history, stream, digest, result>>

Failed == [ok |-> FALSE, value |-> <<>>]
Ok(v) == [ok |-> TRUE, value |-> v]

------------------------------------------------------------------------------
\* The sort: chunks of SortLimit records are sorted and written as runs
\* (write_sorted_record_run), and runs merged FanIn at a time.
RECURSIVE Insert(_, _)
Insert(record, run) ==
  IF run = <<>> \/ record.key < Head(run).key THEN <<record>> \o run ELSE <<Head(run)>> \o Insert(record, Tail(run))

RECURSIVE write_sorted_record_run(_)
write_sorted_record_run(chunk) == IF chunk = <<>> THEN <<>> ELSE Insert(Head(chunk), write_sorted_record_run(Tail(chunk)))

RECURSIVE SortedRuns(_)
SortedRuns(records) ==
  IF records = <<>> THEN <<>>
  ELSE LET n == IF Len(records) < SortLimit THEN Len(records) ELSE SortLimit
       IN <<write_sorted_record_run(SubSeq(records, 1, n))>> \o SortedRuns(SubSeq(records, n + 1, Len(records)))

\* Mutant: one run of a group is at its end, and the group is taken as merged.
RECURSIVE merge_record_run_group_short(_)
merge_record_run_group_short(runs) ==
  LET left == {i \in DOMAIN runs : runs[i] # <<>>}
      least == CHOOSE i \in left : \A j \in left : runs[i][1].key < runs[j][1].key \/ (runs[i][1].key = runs[j][1].key /\ i <= j)
  IN IF left # DOMAIN runs THEN <<>> ELSE <<Head(runs[least])>> \o merge_record_run_group_short([runs EXCEPT ![least] = Tail(@)])

\* merge_record_run_group: the least head, the first of equal ones.
RECURSIVE merge_record_run_group(_)
merge_record_run_group(runs) ==
  LET left == {i \in DOMAIN runs : runs[i] # <<>>}
      least == CHOOSE i \in left : \A j \in left : runs[i][1].key < runs[j][1].key \/ (runs[i][1].key = runs[j][1].key /\ i <= j)
  IN IF left = {} THEN <<>> ELSE <<Head(runs[least])>> \o merge_record_run_group([runs EXCEPT ![least] = Tail(@)])

RECURSIVE MergedGroups(_)
MergedGroups(runs) ==
  IF runs = <<>> THEN <<>>
  ELSE LET n == IF Len(runs) < FanIn THEN Len(runs) ELSE FanIn
       IN <<merge_record_run_group(SubSeq(runs, 1, n))>> \o MergedGroups(SubSeq(runs, n + 1, Len(runs)))

RECURSIVE merge_all_record_runs(_)
merge_all_record_runs(runs) ==
  IF runs = <<>> THEN <<>> ELSE IF Len(runs) = 1 THEN runs[1] ELSE merge_all_record_runs(MergedGroups(runs))

ExternalSort(records) == merge_all_record_runs(SortedRuns(records))

------------------------------------------------------------------------------
\* encode_record and encode_event_pointer_record: what the index keeps of an entry.
encode_record(entries, i) == [key |-> entries[i].id, parent |-> entries[i].parent, run |-> entries[i].run, sequence |-> entries[i].sequence, ordinal |-> i - 1]
encode_event_pointer_record(record) == [key |-> record.run, sequence |-> record.sequence]

\* find_record: a binary search, the place of the record or 0.
RECURSIVE FindIn(_, _, _, _)
FindIn(index, id, low, high) ==
  LET middle == low + (high - low) \div 2 IN
  IF low >= high THEN 0
  ELSE IF index[middle + 1].key < id THEN FindIn(index, id, middle + 1, high)
  ELSE IF index[middle + 1].key > id THEN FindIn(index, id, low, middle)
  ELSE middle + 1
find_record(index, id) == FindIn(index, id, 0, Len(index))

\* Mutant: the parent need only be there.
validate_sorted_index_any(index) ==
  /\ \A i \in 2 .. Len(index) : index[i - 1].key # index[i].key
  /\ \A i \in DOMAIN index : index[i].parent # 0 => find_record(index, index[i].parent) # 0

\* validate_sorted_index: no id twice in a row, and a parent that comes before its child.
validate_sorted_index(index) ==
  /\ \A i \in 2 .. Len(index) : index[i - 1].key # index[i].key
  /\ \A i \in DOMAIN index :
       index[i].parent # 0 =>
         LET parent == find_record(index, index[i].parent) IN parent # 0 /\ index[parent].ordinal < index[i].ordinal

\* validate_committed_event_pointer: the Run has an event of that sequence.
validate_committed_event_pointer(run, sequence) == run \in DOMAIN Committed /\ sequence \in 1 .. Committed[run]

\* validate_sorted_event_pointers: each Run is looked at once, for the largest sequence.
RECURSIVE PointersValid(_, _, _)
PointersValid(pointers, run, max) ==
  IF pointers = <<>> THEN run = 0 \/ validate_committed_event_pointer(run, max)
  ELSE LET first == Head(pointers)
           sequence == first.sequence
       IN IF run \in {0, first.key} THEN PointersValid(Tail(pointers), first.key, IF sequence > max THEN sequence ELSE max)
          ELSE validate_committed_event_pointer(run, max) /\ PointersValid(Tail(pointers), first.key, sequence)

validate_history_event_pointers(index) == PointersValid(ExternalSort([i \in DOMAIN index |-> encode_event_pointer_record(index[i])]), 0, 0)

\* ConversationHistoryIndex::build: the shape of the tree as it is read, then the index.
build(entries) ==
  LET index == ExternalSort([i \in DOMAIN entries |-> encode_record(entries, i)]) IN
  IF /\ \A i \in DOMAIN entries : (entries[i].parent = 0) = (i = 1)
     /\ \A i \in DOMAIN entries : entries[i].run \in DOMAIN Committed
     /\ validate_sorted_index(index)
     /\ validate_history_event_pointers(index)
  THEN Ok(index) ELSE Failed

------------------------------------------------------------------------------
\* Identifiers: identifier_pass and identifier_namespace.
identifier_pass(kind) == IF kind = "Event" THEN 0 ELSE IF kind \in {"Flow", "ParentFlow"} THEN 1 ELSE 2
identifier_namespace(kind) == CASE kind = "Event" -> 0 [] kind \in {"Flow", "ParentFlow"} -> 1 [] kind = "Phase" -> 4 [] kind = "Tool" -> 5

Located == {<<offset, kind>> \in (DOMAIN stream) \X {"Event", "Flow", "ParentFlow", "Phase", "Tool"} : stream[offset][kind] # 0}
Value(l) == stream[l[1]][l[2]]
Primary(l) == <<identifier_namespace(l[2]), digest[Value(l)]>>

\* Mutant: a group is told apart by its digest alone.
assign_event_identifier_group_digest(group, next) ==
  IF Cardinality(group) > 1 /\ \E l \in group : l[2] = "Event" THEN Failed ELSE Ok([l \in group |-> next])

\* assign_event_identifier_group: one token, or where digests collide one for each value.
assign_event_identifier_group(group, next) ==
  LET values == {Value(l) : l \in group}
      place(v) == Cardinality({w \in values : w < v})
  IN IF /\ \E l \in group : l[2] = "Event"
        /\ \E v \in values : Cardinality({l \in group : Value(l) = v}) > 1
     THEN Failed
     ELSE Ok([l \in group |-> next + place(Value(l))])

\* assign_event_identifier_tokens, over the passes: the groups in the order of the sorted records.
RECURSIVE AssignGroups(_, _, _)
AssignGroups(located, tokens, next) ==
  IF located = {} THEN Ok(tokens)
  ELSE LET before(a, b) ==
             \/ identifier_pass(a[2]) < identifier_pass(b[2])
             \/ identifier_pass(a[2]) = identifier_pass(b[2]) /\ (Primary(a)[1] < Primary(b)[1] \/ (Primary(a)[1] = Primary(b)[1] /\ Primary(a)[2] <= Primary(b)[2]))
           first == CHOOSE l \in located : \A m \in located : before(l, m)
           group == {l \in located : Primary(l) = Primary(first)}
           assigned == assign_event_identifier_group(group, next)
       IN IF ~assigned.ok THEN Failed
          ELSE AssignGroups(located \ group, [l \in DOMAIN tokens \cup group |-> IF l \in group THEN assigned.value[l] ELSE tokens[l]],
                            next + Cardinality({assigned.value[l] : l \in group}))

build_event_identifier_tokens == AssignGroups(Located, <<>>, 0)

------------------------------------------------------------------------------
Build ==
  /\ result.of = "none" /\ stream = <<>>
  /\ result' = [of |-> "index", is |-> build(history)]
  /\ UNCHANGED <<history, stream, digest>>

\* append_conversation_entry, while the index is there.
Append_ ==
  /\ result.of = "index" /\ result.is.ok
  /\ \E entry \in Entries :
       LET index == result.is.value
           accepted == /\ find_record(index, entry.id) = 0
                       /\ IF entry.parent = 0 THEN history = <<>> ELSE history # <<>> /\ find_record(index, entry.parent) # 0
                       /\ validate_committed_event_pointer(entry.run, entry.sequence)
       IN /\ history' = IF accepted THEN Append(history, entry) ELSE history
          /\ result' = [of |-> IF accepted THEN "appended" ELSE "refused", is |-> Ok(<<entry>>)]
  /\ UNCHANGED <<stream, digest>>

Tokens ==
  /\ result.of = "none" /\ stream # <<>>
  /\ result' = [of |-> "tokens", is |-> build_event_identifier_tokens]
  /\ UNCHANGED <<history, stream, digest>>

Init ==
  /\ result = [of |-> "none", is |-> Failed]
  /\ \/ history \in Histories /\ stream = <<>> /\ digest = <<>>
     \/ history = <<>> /\ stream \in Streams /\ digest \in Digests

Next == Build \/ Append_ \/ Tokens

Spec == Init /\ [][Next]_vars

------------------------------------------------------------------------------
\* What a history must be, read off the entries themselves.
WellFormed(entries) ==
  /\ \A i, j \in DOMAIN entries : entries[i].id = entries[j].id => i = j
  /\ \A i \in DOMAIN entries : IF i = 1 THEN entries[i].parent = 0 ELSE \E j \in 1 .. i - 1 : entries[j].id = entries[i].parent
  /\ \A i \in DOMAIN entries : entries[i].run \in DOMAIN Committed /\ entries[i].sequence <= Committed[entries[i].run]

\* The sorted, merged and searched index accepts exactly the histories that are
\* trees of distinct entries pointing to committed events, however many runs
\* the sort needed, while its budgets last; and an entry is added only if the history stays one.
IndexAgrees ==
  /\ result.of = "index" => (result.is.ok = WellFormed(history))
  /\ result.of = "appended" => WellFormed(history)
  /\ result.of = "refused" => ~WellFormed(Append(history, result.is.value[1]))

\* The tokens stand for the identifiers: two of one namespace have the same
\* token exactly when they are the same, also where their digests collide, and
\* a stream is refused exactly when an event id occurs twice.
TokensFaithful ==
  result.of = "tokens" =>
    /\ result.is.ok = \A i, j \in DOMAIN stream : stream[i].Event = stream[j].Event => i = j
    /\ result.is.ok =>
         /\ DOMAIN result.is.value = Located
         /\ \A l, m \in Located :
              (result.is.value[l] = result.is.value[m]) = (identifier_namespace(l[2]) = identifier_namespace(m[2]) /\ Value(l) = Value(m))
=============================================================================

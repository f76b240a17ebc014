------------------------------- MODULE MCStores -------------------------------
(***************************************************************************)
(* What is stored, on small instances, one component at a time: Fixture    *)
(* sessions, the session log, its segments and objects, the history index  *)
(* and its scratch directories, and Liquid's Workspace, its followers, its *)
(* Replica and its sort keys.                                              *)
(***************************************************************************)
EXTENDS FixtureSessionsProofs, Integers, Sequences

SessionsRest == pc = [p \in Procs |-> "list"] /\ Init

\* Histories with every shape of tree, the last of five entries, and streams of Events whose
\* identifiers repeat; digests that collide in different ways.
Entry(ids, runs, sequences) == [id : ids, parent : {0} \cup ids, run : runs, sequence : sequences]
Shaped(ids, shape) ==
  [i \in 1..5 |->
    [id |-> ids[i], run |-> 1 + (i % 2), sequence |-> 1,
     parent |-> CASE i = 1 -> 0 [] shape = 1 -> ids[1] [] shape = 2 -> ids[i - 1] [] OTHER -> 3]]
Histories ==
  UNION {[1..n -> Entry({1, 2, 3}, {1, 2, 3}, {1, 2})] : n \in 0..2}
  \cup [1..3 -> Entry({1, 2, 3}, {1, 2}, {1, 2})]
  \cup {Shaped(ids, shape) : ids \in [1..5 -> 1..5], shape \in 1..3}
Streams ==
  UNION {[1..n -> [Event : {1, 2, 3}, Flow : {0, 1, 2}, ParentFlow : {0, 1}, Phase : {0, 2}, Tool : {0, 1}]] : n \in 1..2}
  \cup [1..3 -> [Event : {1, 2, 3}, Flow : {1, 2, 3}, ParentFlow : {0, 2}, Phase : {0}, Tool : {1}]]

\* A Workspace with one Page, with text on it, and with a database on it.
Area == [kind |-> "CreateArea", name |-> 0]
Page == [kind |-> "CreatePage", area |-> 1, parent |-> 0, name |-> 0]
Paragraph == [kind |-> "AddTextBlock", page |-> 4, place |-> 0, text |-> <<1, 2>>]
Section == [kind |-> "SetSectionBoundary", page |-> 4, view |-> 8, boundary |-> TRUE]
Database == [kind |-> "AddDatabaseBlock", page |-> 4, place |-> 0, name |-> 0]
Field == [kind |-> "AddField", page |-> 4, block |-> 7, place |-> -1, name |-> 0, fieldKind |-> "select"]
Option == [kind |-> "AddOption", page |-> 4, block |-> 7, field |-> 10, name |-> 0]
Row == [kind |-> "AddRow", page |-> 4, block |-> 7, place |-> -1]
Writes(script, kinds, calls) == [script |-> script, kinds |-> kinds, calls |-> calls, faults |-> TRUE]
WorkspaceScenes ==
  {Writes(<<Area, Page>>, {"CreateArea", "CreatePage", "RenamePage"}, 3),
   Writes(<<Area, Page, Paragraph, Section>>,
          {"AddTextBlock", "SplitTextBlock", "JoinTextBlock", "SetTextStyle", "SetSectionBoundary",
           "EditText", "RemoveView", "AddDatabaseBlock"}, 2),
   Writes(<<Area, Page, Database, Field, Option, Row>>,
          {"AddField", "RenameField", "RemoveField", "AddOption", "AddRow", "RemoveRow", "SetCell",
           "RenameDatabase", "RemoveView"}, 2)}

\* Streams: two owners and two reads; changes from outside at any step of an owner; and an
\* owner that begins a segment for every record, five in all, under a reader.
SegmentScenes ==
  {[segment |-> 4, total |-> 6, segments |-> 3, batches |-> {<<2>>, <<2, 3>>}, records |-> 3,
    owners |-> 2, outsiders |-> 0, reads |-> 2],
   [segment |-> 4, total |-> 6, segments |-> 3, batches |-> {<<2>>, <<2, 3>>}, records |-> 3,
    owners |-> 1, outsiders |-> 1, reads |-> 1],
   [segment |-> 1, total |-> 5, segments |-> 5, batches |-> {<<1>>, <<1, 1>>}, records |-> 5,
    owners |-> 1, outsiders |-> 0, reads |-> 1]}

Followed == [r1 |-> <<1, "views">>, r2 |-> <<1, "block">>, r3 |-> <<0, "areas">>]
FollowingScenes ==
  {[readers |-> {"r1", "r2"}, writes |-> 1], [readers |-> {"r1"}, writes |-> 3], [readers |-> {"r3"}, writes |-> 1]}
------------------------------------------------------------------------------
VARIABLES
  component,   \* the one that is exercised; the others stay at rest
  kinds, client, queue, response, worker, stream, notifier, faults, sync_required, appended,
  log_active, scene, segs, durable, owned, owners, appender, foreign, reader, kind, files,
  length, synced, linked, writer, referenced, object_faults, opens, history, index_stream,
  digest, result, root, dirs, proc, mem, store, actions, next, last, work_scene, follow_state,
  subscriptions, closed, ended, seqs, loaded, posted, follow_stream, answers, follow_reader,
  gone, writes, lock, key, database, session, crashes, lost, before, after

Log == INSTANCE SessionWriter WITH
  Kinds <- {"delta", "context", "plain", "checkpoint"}, Prior <- 0, MaxEvents <- 4,
  QueueCapacity <- 1, BatchCapacity <- 2, MaxFaults <- 2, active <- log_active

Seg == INSTANCE Segments WITH
  ScanRecords <- 2, Scenes <- SegmentScenes

Object == INSTANCE Objects WITH
  Stores <- {"run", "session"}, Size <- [a |-> 1, b |-> 2, c |-> 2], MaxObjects <- 2,
  MaxBytes <- 3, Opens <- 3, Calls <- 3, MaxFaults <- 1, faults <- object_faults

Index == INSTANCE HistoryIndex WITH
  SortLimit <- 2, FanIn <- 2, Committed <- <<1, 2>>, Entries <- Entry({1, 4}, {1, 2}, {1, 2}),
  Digests <- {<<3, 2, 1>>, <<1, 1, 1>>, <<2, 1, 2>>}, stream <- index_stream

Temporary == INSTANCE Scratch WITH
  Leaves <- {"a", "b", "c"}, MaxRuns <- 2

Work == INSTANCE Workspace WITH
  Base <- 3, Heads <- 2, CompactAfter <- 3, MaxFields <- 3, Scenes <- WorkspaceScenes,
  scene <- work_scene

Follow == INSTANCE Following WITH
  Readers <- {"r1", "r2", "r3"}, Follows <- Followed, Malformed <- {"r3"},
  Scenes <- FollowingScenes, state <- follow_state, stream <- follow_stream,
  reader <- follow_reader

Device == INSTANCE Replica WITH
  Sessions <- Procs, Crashes <- 3

\* Repeated insertion between two neighbours of a list: any two keys to begin with, and None
\* at either end.
MaxKey == 6
Keys ==
  {k \in UNION {[1..n -> 0..3] : n \in 2..4} : Work!Valid(k) /\ \A i \in 2..Len(k) : k[i] < 3}

KeyInit == before \in Keys \cup {Work!None} /\ after \in Keys \cup {Work!None}

Insert ==
  /\ Len(before) < MaxKey /\ Len(after) < MaxKey
  /\ LET made == Work!between(before, after)
     IN  \/ before' = made /\ after' = after
         \/ after' = made /\ before' = before

\* The new key is one that `valid` accepts, it is after the one before, and it is before
\* the one after if the two were in order, however often a key is inserted there (between).
KeysFit ==
  LET made == Work!between(before, after)
  IN  /\ Work!Valid(made)
      /\ before # Work!None => Work!Before(before, made)
      /\ after # Work!None /\ (before = Work!None \/ Work!Before(before, after)) =>
           Work!Before(made, after)

LogRests == kinds = 0 /\ client = 0 /\ queue = 0 /\ response = 0 /\ worker = 0 /\ stream = 0 /\
             notifier = 0 /\ faults = 0 /\ sync_required = 0 /\ appended = 0 /\ log_active = 0
SegRests == scene = 0 /\ segs = 0 /\ durable = 0 /\ owned = 0 /\ owners = 0 /\ appender = 0 /\
             foreign = 0 /\ reader = 0
ObjectRests == kind = 0 /\ files = 0 /\ length = 0 /\ synced = 0 /\ linked = 0 /\ writer = 0 /\
                referenced = 0 /\ object_faults = 0 /\ opens = 0
IndexRests == history = 0 /\ index_stream = 0 /\ digest = 0 /\ result = 0
TemporaryRests == root = 0 /\ dirs = 0 /\ proc = 0
WorkRests == mem = 0 /\ store = 0 /\ actions = 0 /\ next = 0 /\ last = 0 /\ work_scene = 0
FollowRests == follow_state = 0 /\ subscriptions = 0 /\ closed = 0 /\ ended = 0 /\ seqs = 0 /\
                loaded = 0 /\ posted = 0 /\ follow_stream = 0 /\ answers = 0 /\ follow_reader = 0 /\
                gone = 0 /\ writes = 0
DeviceRests == lock = 0 /\ key = 0 /\ database = 0 /\ session = 0 /\ crashes = 0 /\ lost = 0
KeyRests == before = 0 /\ after = 0

LogVars == <<kinds, client, queue, response, worker, stream, notifier, faults, sync_required,
             appended, log_active>>
SegVars == <<scene, segs, durable, owned, owners, appender, foreign, reader>>
ObjectVars == <<kind, files, length, synced, linked, writer, referenced, object_faults, opens>>
IndexVars == <<history, index_stream, digest, result>>
TemporaryVars == <<root, dirs, proc>>
WorkVars == <<mem, store, actions, next, last, work_scene>>
FollowVars == <<follow_state, subscriptions, closed, ended, seqs, loaded, posted, follow_stream,
                answers, follow_reader, gone, writes>>
DeviceVars == <<lock, key, database, session, crashes, lost>>
KeyVars == <<before, after>>
all == <<component, vars, LogVars, SegVars, ObjectVars, IndexVars, TemporaryVars, WorkVars,
         FollowVars, DeviceVars, KeyVars>>

AllInit ==
  \/ component = "sessions" /\ Init /\ LogRests /\ SegRests /\ ObjectRests /\ IndexRests /\
        TemporaryRests /\ WorkRests /\ FollowRests /\ DeviceRests /\ KeyRests
  \/ component = "writer" /\ SessionsRest /\ Log!SessionInit /\ SegRests /\ ObjectRests /\
        IndexRests /\ TemporaryRests /\ WorkRests /\ FollowRests /\ DeviceRests /\ KeyRests
  \/ component = "segments" /\ SessionsRest /\ Seg!Init /\ LogRests /\ ObjectRests /\ IndexRests /\
        TemporaryRests /\ WorkRests /\ FollowRests /\ DeviceRests /\ KeyRests
  \/ component = "objects" /\ SessionsRest /\ Object!Init /\ LogRests /\ SegRests /\ IndexRests /\
        TemporaryRests /\ WorkRests /\ FollowRests /\ DeviceRests /\ KeyRests
  \/ component = "indexes" /\ SessionsRest /\ Index!Init /\ LogRests /\ SegRests /\ ObjectRests /\
        TemporaryRests /\ WorkRests /\ FollowRests /\ DeviceRests /\ KeyRests
  \/ component = "scratch" /\ SessionsRest /\ Temporary!Init /\ LogRests /\ SegRests /\
        ObjectRests /\ IndexRests /\ WorkRests /\ FollowRests /\ DeviceRests /\ KeyRests
  \/ component = "workspace" /\ SessionsRest /\ Work!Init /\ LogRests /\ SegRests /\ ObjectRests /\
        IndexRests /\ TemporaryRests /\ FollowRests /\ DeviceRests /\ KeyRests
  \/ component = "following" /\ SessionsRest /\ Follow!Init /\ LogRests /\ SegRests /\
        ObjectRests /\ IndexRests /\ TemporaryRests /\ WorkRests /\ DeviceRests /\ KeyRests
  \/ component = "replica" /\ SessionsRest /\ Device!Init /\ LogRests /\ SegRests /\ ObjectRests /\
        IndexRests /\ TemporaryRests /\ WorkRests /\ FollowRests /\ KeyRests
  \/ component = "keys" /\ SessionsRest /\ KeyInit /\ LogRests /\ SegRests /\ ObjectRests /\
        IndexRests /\ TemporaryRests /\ WorkRests /\ FollowRests /\ DeviceRests

AllNext ==
  \/ component = "sessions" /\ Next /\ UNCHANGED <<component, LogVars, SegVars, ObjectVars,
        IndexVars, TemporaryVars, WorkVars, FollowVars, DeviceVars, KeyVars>>
  \/ component = "writer" /\ Log!SessionNext /\ UNCHANGED <<component, vars, SegVars, ObjectVars,
        IndexVars, TemporaryVars, WorkVars, FollowVars, DeviceVars, KeyVars>>
  \/ component = "segments" /\ Seg!Next /\ UNCHANGED <<component, vars, LogVars, ObjectVars,
        IndexVars, TemporaryVars, WorkVars, FollowVars, DeviceVars, KeyVars>>
  \/ component = "objects" /\ Object!Next /\ UNCHANGED <<component, vars, LogVars, SegVars,
        IndexVars, TemporaryVars, WorkVars, FollowVars, DeviceVars, KeyVars>>
  \/ component = "indexes" /\ Index!Next /\ UNCHANGED <<component, vars, LogVars, SegVars,
        ObjectVars, TemporaryVars, WorkVars, FollowVars, DeviceVars, KeyVars>>
  \/ component = "scratch" /\ Temporary!Next /\ UNCHANGED <<component, vars, LogVars, SegVars,
        ObjectVars, IndexVars, WorkVars, FollowVars, DeviceVars, KeyVars>>
  \/ component = "workspace" /\ Work!Next /\ UNCHANGED <<component, vars, LogVars, SegVars,
        ObjectVars, IndexVars, TemporaryVars, FollowVars, DeviceVars, KeyVars>>
  \/ component = "following" /\ Follow!Next /\ UNCHANGED <<component, vars, LogVars, SegVars,
        ObjectVars, IndexVars, TemporaryVars, WorkVars, DeviceVars, KeyVars>>
  \/ component = "replica" /\ Device!Next /\ UNCHANGED <<component, vars, LogVars, SegVars,
        ObjectVars, IndexVars, TemporaryVars, WorkVars, FollowVars, KeyVars>>
  \/ component = "keys" /\ Insert /\ UNCHANGED <<component, vars, LogVars, SegVars, ObjectVars,
        IndexVars, TemporaryVars, WorkVars, FollowVars, DeviceVars>>

AllSpec == AllInit /\ [][AllNext]_all
------------------------------------------------------------------------------
\* What a session's stores say they hold is there: an appended Event is in the log in order
\* and, once the writer finished or its segment is sealed, on disk; a reader is shown the
\* records in order and pages through all of them; a referenced object is durable and counted
\* once; an index agrees with the history and the streams it was made from, whatever its
\* digests; and scratch directories are swept by a later command, never one in use.
StoredWhole ==
  /\ component = "writer" => Log!SessionLog /\ Log!SessionFinish /\ Log!SessionStays
  /\ component = "segments" => Seg!ShownInOrder /\ Seg!SealedDurable /\ Seg!AppendsTrue /\ Seg!PagedWhole
  /\ component = "objects" => Object!ReferencedDurable /\ Object!CountsTrue
  /\ component = "indexes" => Index!IndexAgrees /\ Index!TokensFaithful
  /\ component = "scratch" => Temporary!SweptLater /\ Temporary!OwnScratch

\* What Liquid shows is what it stored: memory equals the store after every write, failed and
\* rolled back or not, and lists only what exists; a follower that is told nothing more has
\* the current state, and what nobody follows is not kept; no crash while a Replica is made
\* locks the user out of it; and a key made between two others is between them.
WorkspaceTruthful ==
  /\ component = "workspace" => Work!MemoryTruthful /\ Work!ListedExist
  /\ component = "following" => Follow!FollowersCurrent /\ Follow!NothingKept
  /\ component = "replica" => Device!NeverLockedOut
  /\ component = "keys" => KeysFit

\* A write changes what was asked for, at the place asked for, and names every resource it
\* changed.  A reader of a stream that only its owners changed fails only when it found an
\* empty log or an incomplete line without an owner, when two owners gave the lease up under
\* it, when an owner cut a failed write back under it, or when an owner began two segments
\* during each of its two scans of the directory.
StepsJustified ==
  [][/\ component = "workspace" => Work!ChangeNamed /\ Work!EditAsAsked
     /\ component = "segments" => Seg!AlarmJustified]_all
==============================================================================

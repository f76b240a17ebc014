------------------------------- MODULE Segments -------------------------------
(***************************************************************************)
(* A segmented JSONL stream of flow-agent-core: the appender that owns it   *)
(* (runtime/segmented_appender.rs), the names of its segments              *)
(* (runtime/fs_guards/segmented_jsonl.rs), the reader that follows it from *)
(* another process without any lock                                        *)
(* (runtime/conversations/session_event_stream.rs) and the two readers     *)
(* that page through a stream at rest (conversation_stream/reader.rs,      *)
(* prefix_reader.rs).                                                      *)
(*                                                                         *)
(* A stream is a sequence of files, a file a sequence of bytes.  Byte 0 is *)
(* inside a record, byte n > 0 is the LF that completes record n.  The     *)
(* bytes of a write reach the file one at a time; the owner can fail or    *)
(* die between any two of them.                                            *)
(***************************************************************************)
EXTENDS Naturals, Sequences, FiniteSets

CONSTANTS
  ScanRecords,  \* MAX_CONVERSATION_SCAN_RECORDS
  Scenes        \* limits of a stream and what happens to it, see below

VARIABLES
  scene,     \* the scene that is played
  segs,      \* the segment files
  durable,   \* how many bytes of each survive a power loss
  owned,     \* the session ownership lease is held
  owners,    \* owners so far
  appender,  \* SessionLogAppender and the batch it is appending
  foreign,   \* changes made behind the owner's back
  reader     \* SessionEventReader and the read it is doing

vars == <<scene, segs, durable, owned, owners, appender, foreign, reader>>

MaxSegment == scene.segment    \* MAX_SESSION_SEGMENT_BYTES
MaxTotal == scene.total        \* SessionStreamLimits::max_total_bytes
MaxSegments == scene.segments  \* SessionStreamLimits::max_segments
Batches == scene.batches       \* the batches appended: sequences of record sizes
MaxRecords == scene.records    \* bound: records the stream may come to hold
Owners == scene.owners         \* bound: owners the stream may have, one after the other
Outsiders == scene.outsiders   \* bound: changes by something that does not own the stream
Reads == scene.reads           \* bound: reads of the follower

RECURSIVE Flat(_), Bytes(_, _)

Sum(sizes) == LET RECURSIVE S(_) S(n) == IF n = 0 THEN 0 ELSE sizes[n] + S(n - 1) IN S(Len(sizes))

\* The bytes of a batch whose first record is record n.
Bytes(sizes, n) ==
  IF sizes = <<>> THEN <<>>
  ELSE [i \in 1..Head(sizes) |-> IF i = Head(sizes) THEN n ELSE 0] \o Bytes(Tail(sizes), n + 1)

Flat(files) == IF files = <<>> THEN <<>> ELSE Head(files) \o Flat(Tail(files))

\* The records completed in some bytes.
Records(bytes) == SelectSeq(bytes, LAMBDA b : b > 0)

Written == Len(Records(Flat(segs)))

\* complete_jsonl_prefix_len
complete_jsonl_prefix_len(bytes) ==
  LET ends == {i \in DOMAIN bytes : bytes[i] > 0}
  IN  IF ends = {} THEN 0 ELSE CHOOSE i \in ends : \A j \in ends : j <= i

has_partial_line(bytes) == complete_jsonl_prefix_len(bytes) # Len(bytes)

Sizes(files) == [i \in DOMAIN files |-> Len(files[i])]
-----------------------------------------------------------------------------
(* The appender.                                                           *)

Closed == [at |-> "closed"]

\* session_stream_inventory: what it takes to open a stream for appending.
session_stream_inventory(files) ==
  /\ Len(files) <= MaxSegments
  /\ \A i \in DOMAIN files : /\ Len(files[i]) <= MaxSegment
                             /\ files[i] = <<>> => i = Len(files)
                             /\ ~has_partial_line(files[i])
  /\ Sum(Sizes(files)) <= MaxTotal

\* A process takes the lease and opens the stream.
Open ==
  /\ ~owned /\ owners < Owners
  /\ session_stream_inventory(segs)
  /\ owned' = TRUE /\ owners' = owners + 1
  /\ appender' = [at |-> "idle", current_ordinal |-> Len(segs), current_bytes |-> Len(segs[Len(segs)]),
                  total_bytes |-> Sum(Sizes(segs)), sealed |-> Sizes(SubSeq(segs, 1, Len(segs) - 1)),
                  batch |-> <<>>, committed |-> 0, put |-> 0, first |-> Written, told |-> 0,
                  known |-> foreign, verified |-> foreign]
  /\ UNCHANGED <<segs, durable, foreign, reader>>

\* append_batch
Begin(batch) ==
  /\ appender.at = "idle" /\ Written + Len(batch) <= MaxRecords
  /\ appender' = [appender EXCEPT !.at = "rotate", !.batch = batch, !.committed = 0,
                                  !.first = Written, !.told = 0]
  /\ UNCHANGED <<segs, durable, owned, owners, foreign, reader>>

\* segmented_jsonl_inventory: the segments in the directory are the ones the
\* appender made.
verify_segmented_jsonl_inventory(a) == Len(segs) = a.current_ordinal

\* Mutant: the size of the sealed segments is not verified.
verify_current_segment_open(a) ==
  /\ verify_segmented_jsonl_inventory(a)
  /\ Len(segs[a.current_ordinal]) = a.current_bytes

\* verify_current_segment: the directory holds the segments the appender made,
\* at the sizes it left them.
verify_current_segment(a) ==
  /\ verify_segmented_jsonl_inventory(a)
  /\ \A i \in 1..a.current_ordinal - 1 : Len(segs[i]) = a.sealed[i]
  /\ Len(segs[a.current_ordinal]) = a.current_bytes

\* session_stream_record_requires_rotation: refused, or whether a new segment
\* is needed.
session_stream_record_requires_rotation(a, size) ==
  IF size > MaxSegment \/ a.total_bytes + size > MaxTotal THEN "refused"
  ELSE IF a.current_bytes = 0 \/ a.current_bytes + size <= MaxSegment THEN "no"
  ELSE IF a.current_ordinal >= MaxSegments THEN "refused" ELSE "yes"

\* The append fails, and says how many events of the batch were committed.
Failed(a, told) == [a EXCEPT !.at = "failed", !.told = told]

\* rotate_before_with_checkpoint, up to the sync of the segment it seals.
Rotate ==
  /\ appender.at = "rotate"
  /\ LET needed == session_stream_record_requires_rotation(appender, appender.batch[appender.committed + 1])
     IN  appender' = IF ~verify_current_segment(appender) \/ needed = "refused"
                     THEN Failed(appender, appender.committed)
                     ELSE [appender EXCEPT !.at = IF needed = "yes" THEN "seal" ELSE "write",
                                           !.verified = foreign]
  /\ UNCHANGED <<segs, durable, owned, owners, foreign, reader>>

\* Mutant: the sealed segment is left to be synced later.
Seal_unsynced ==
  /\ appender.at = "seal"
  /\ segs' = Append(segs, <<>>) /\ durable' = Append(durable, 0)
  /\ appender' = [appender EXCEPT !.at = "write", !.sealed = Append(@, appender.current_bytes),
                                  !.current_ordinal = @ + 1, !.current_bytes = 0]
  /\ UNCHANGED <<owned, owners, foreign, reader>>

\* The rest of rotate_before_with_checkpoint: sync the segment, verify again,
\* reserve the next one, sync the directory and open it.  The sync or the
\* reservation may fail, or a later step, which leaves the next segment empty.
Seal ==
  /\ appender.at = "seal"
  /\ \/ /\ verify_current_segment(appender)
        /\ segs' = Append(segs, <<>>)
        /\ durable' = Append([durable EXCEPT ![Len(segs)] = Len(segs[Len(segs)])], 0)
        /\ \/ appender' = [appender EXCEPT !.at = "write", !.sealed = Append(@, appender.current_bytes),
                                           !.current_ordinal = @ + 1, !.current_bytes = 0,
                                           !.verified = foreign]
           \/ appender' = Failed(appender, appender.committed)
     \/ /\ appender' = Failed(appender, appender.committed)
        /\ UNCHANGED <<segs, durable>>
  /\ UNCHANGED <<owned, owners, foreign, reader>>

\* How many events of the batch, after the committed ones, fit the segment.
Fitting(a) ==
  LET fits(n) == LET bytes == Sum(SubSeq(a.batch, a.committed + 1, n))
                 IN  bytes <= MaxSegment - a.current_bytes /\ a.total_bytes + bytes <= MaxTotal
  IN  CHOOSE n \in a.committed + 1..Len(a.batch) :
        fits(n) /\ (n < Len(a.batch) => ~fits(n + 1))

\* The events written together to the current segment, and their bytes.
Native(a) == SubSeq(a.batch, a.committed + 1, Fitting(a))

NativeBytes(a) == Bytes(Native(a), a.first + a.committed + 1)

\* append_native_event_batch_with: one byte of the write.
Put ==
  /\ appender.at = "write" /\ appender.put < Len(NativeBytes(appender))
  /\ LET n == appender.current_ordinal
     IN  segs' = [segs EXCEPT ![n] = Append(@, NativeBytes(appender)[appender.put + 1])]
  /\ appender' = [appender EXCEPT !.put = @ + 1]
  /\ UNCHANGED <<durable, owned, owners, foreign, reader>>

\* The write is complete: the next part of the batch, or the batch is done.
Commit ==
  /\ appender.at = "write" /\ appender.put = Len(NativeBytes(appender))
  /\ LET done == Fitting(appender)
     IN  appender' = [appender EXCEPT
           !.current_bytes = @ + appender.put, !.total_bytes = @ + appender.put, !.put = 0,
           !.committed = done, !.told = IF done = Len(appender.batch) THEN done ELSE 0,
           !.at = IF done = Len(appender.batch) THEN "idle" ELSE "rotate"]
  /\ UNCHANGED <<segs, durable, owned, owners, foreign, reader>>

\* How many events the length of the file says were written whole.
Retained(a) ==
  Cardinality({n \in DOMAIN Native(a) :
                 a.current_bytes + Sum(SubSeq(Native(a), 1, n)) <= Len(segs[a.current_ordinal])})

\* File::set_len cuts a file, or fills it up.
set_len(bytes, n) == [i \in 1..n |-> IF i <= Len(bytes) THEN bytes[i] ELSE 0]

\* The write fails.  The incomplete suffix is cut off (cleanup_incomplete_suffix)
\* and the count of committed events is known; or that fails too, and it is not.
Fault ==
  /\ appender.at = "write" /\ appender.put < Len(NativeBytes(appender))
  /\ LET kept == Retained(appender)
         bytes == Sum(SubSeq(Native(appender), 1, kept))
         length == appender.current_bytes + bytes
     IN  \/ /\ segs' = [segs EXCEPT ![appender.current_ordinal] = set_len(@, length)]
            /\ durable' = [durable EXCEPT ![appender.current_ordinal] = length]
            /\ appender' = [Failed(appender, appender.committed + kept) EXCEPT
                              !.current_bytes = length, !.total_bytes = @ + bytes, !.put = 0]
         \/ /\ appender' = Failed(appender, IF length = Len(segs[appender.current_ordinal])
                                            THEN appender.committed + kept ELSE MaxRecords + 1)
            /\ UNCHANGED <<segs, durable>>
  /\ reader' = [reader EXCEPT !.cut = TRUE]
  /\ UNCHANGED <<owned, owners, foreign>>

\* SessionLogAppender::sync, which fails when the verification or the system does.
Sync ==
  /\ appender.at = "idle"
  /\ \/ /\ verify_current_segment(appender)
        /\ durable' = [durable EXCEPT ![Len(segs)] = Len(segs[Len(segs)])]
        /\ UNCHANGED appender
     \/ appender' = Failed(appender, appender.told) /\ UNCHANGED durable
  /\ UNCHANGED <<segs, owned, owners, foreign, reader>>

\* The owner is done, was told of a failure, or dies: the lease is free again.
Release ==
  /\ owned
  /\ owned' = FALSE /\ appender' = Closed
  /\ reader' = [reader EXCEPT !.handovers = @ + 1]
  /\ UNCHANGED <<segs, durable, owners, foreign>>

\* Something else appends a record to a segment, cuts the last byte off, or
\* makes the next segment, at any step of an owner.
Outside ==
  /\ owned /\ foreign < Outsiders /\ Written < MaxRecords
  /\ foreign' = foreign + 1
  /\ \/ \E i \in DOMAIN segs : segs' = [segs EXCEPT ![i] = Append(@, Written + 1)] /\ UNCHANGED durable
     \/ \E i \in DOMAIN segs : /\ segs[i] # <<>>
                               /\ segs' = [segs EXCEPT ![i] = SubSeq(@, 1, Len(@) - 1)]
                               /\ durable' = [durable EXCEPT ![i] = IF @ < Len(segs'[i]) THEN @ ELSE Len(segs'[i])]
     \/ segs' = Append(segs, <<>>) /\ durable' = Append(durable, 0)
  /\ UNCHANGED <<owned, owners, appender, reader>>
-----------------------------------------------------------------------------
(* SessionEventReader.                                                     *)

NotObserved == [count |-> 0, bytes |-> 0, records |-> <<>>]

\* open_conversation_run
OpenedReader ==
  [at |-> "idle", mode |-> "verified", through |-> 0, reads |-> 0, retried |-> FALSE, scans |-> 0, low |-> 1,
   files |-> 1, final |-> <<>>, observed |-> NotObserved, shown |-> <<>>, error |-> "none",
   listed |-> 1,         \* segments when the directory was first listed in this look
   handovers |-> 0,      \* owners that gave the lease up during the read
   cut |-> FALSE,        \* a failed write was cut back during the read
   abandoned |-> FALSE]  \* the first look found an unfinished log without an owner

\* A read of the events up to through begins: verified, or incremental when there is
\* something to go on from and something to look for.
Read(mode, through) ==
  /\ reader.at = "idle" /\ reader.reads < Reads
  /\ mode = "incremental" => /\ reader.observed.records # <<>>
                              /\ Len(reader.shown) >= Len(reader.observed.records)
                              /\ through > Len(reader.observed.records)
  /\ reader' = [reader EXCEPT !.at = "list", !.mode = mode, !.through = through, !.retried = FALSE,
                              !.scans = 1, !.low = Len(segs), !.listed = Len(segs), !.reads = @ + 1,
                              !.handovers = 0, !.cut = FALSE, !.abandoned = FALSE]
  /\ UNCHANGED <<segs, durable, owned, owners, appender, foreign>>

Alarm(what) == [reader EXCEPT !.at = "failed", !.error = what]

\* segmented_jsonl_files: a segment made while the directory was being read may
\* or may not be seen, so a scan can miss one and see the next, which is an
\* error (0).
Discovered == (reader.low..Len(segs)) \cup {n \in {0} : Len(segs) - reader.low >= 2}

\* The scan of the directory, through retry_event_segment_discovery: a scan
\* that failed is repeated once.
List ==
  /\ reader.at = "list" /\ reader.mode = "verified"
  /\ \E n \in Discovered :
       reader' = IF n > 0 THEN [reader EXCEPT !.at = "open", !.files = n]
                 ELSE IF reader.scans = 2 THEN Alarm("discovery")
                 ELSE [reader EXCEPT !.scans = 2, !.low = Len(segs)]
  /\ UNCHANGED <<segs, durable, owned, owners, appender, foreign>>

\* incremental_segments asks for one name after the other instead.
ListOn ==
  /\ reader.at = "list" /\ reader.mode = "incremental"
  /\ \E n \in reader.low..Len(segs) :
       reader' = IF n < reader.observed.count THEN Alarm("changed")
                 ELSE [reader EXCEPT !.at = "open", !.files = n]
  /\ UNCHANGED <<segs, durable, owned, owners, appender, foreign>>

\* Where the read of segment i starts.
Offset(i) == IF reader.mode = "incremental" /\ i = reader.observed.count THEN reader.observed.bytes ELSE 0

\* read_incremental_segment: the segment is shorter than what was read of it.
Shorter(i) == Len(segs[i]) < Offset(i)

\* open_anchored_jsonl_segment, read_incremental_segment: the final segment,
\* before any other.  An incremental read takes its bytes at once, a verified
\* one its length.
OpenFinal ==
  /\ reader.at = "open"
  /\ LET bytes == segs[reader.files]
         partial == has_partial_line(SubSeq(bytes, Offset(reader.files) + 1, Len(bytes)))
         empty == reader.mode = "verified" /\ reader.files = 1 /\ bytes = <<>>
     IN  reader' = IF Shorter(reader.files) THEN Alarm("changed")
                   ELSE [reader EXCEPT !.at = IF partial \/ empty THEN "owner" ELSE "scan",
                                       !.final = bytes]
  /\ UNCHANGED <<segs, durable, owned, owners, appender, foreign>>

Unfinished == Flat(segs) = <<>> \/ has_partial_line(Flat(segs))

session_ownership_active == owned

\* Mutant: the inactive final line is not looked at again.
Owner_once ==
  /\ reader.at = "owner"
  /\ reader' = IF session_ownership_active THEN [reader EXCEPT !.at = "scan"] ELSE Alarm("inactive")
  /\ UNCHANGED <<segs, durable, owned, owners, appender, foreign>>

\* An incomplete line, or an empty log, is only fine
\* while somebody owns the session; without an owner it is looked at once more.
Owner ==
  /\ reader.at = "owner"
  /\ reader' = IF session_ownership_active THEN [reader EXCEPT !.at = "scan"]
               ELSE IF reader.retried THEN Alarm("inactive")
               ELSE [reader EXCEPT !.at = "list", !.retried = TRUE, !.scans = 1, !.low = Len(segs),
                                   !.listed = Len(segs), !.abandoned = Unfinished]
  /\ UNCHANGED <<segs, durable, owned, owners, appender, foreign>>

\* The bytes of segment i the read goes through.
Scanned(i) ==
  LET bytes == IF i # reader.files THEN segs[i]
               ELSE IF reader.mode = "incremental" THEN reader.final
               ELSE SubSeq(segs[i], 1, Len(reader.final))
  IN  SubSeq(bytes, Offset(i) + 1, Len(bytes))

\* Mutant: a caller's cursor does not hide what it has processed.
Visited_again(records) == records

\* The events after the cursor, up to which the caller has processed them, and no
\* further than it asked for.
Visited(records) == SelectSeq(records, LAMBDA r : r > Len(reader.shown) /\ r <= reader.through)

\* The length of the first n records of some bytes.
RecordsLen(bytes, n) ==
  complete_jsonl_prefix_len(SubSeq(bytes, 1, CHOOSE i \in 0..Len(bytes) :
    /\ Len(Records(SubSeq(bytes, 1, i))) = n
    /\ \A j \in 0..i - 1 : Len(Records(SubSeq(bytes, 1, j))) < n))

\* visit_verified_record: the records seen before are still the first ones.
Kept(records) ==
  /\ Len(records) >= Len(reader.observed.records)
  /\ SubSeq(records, 1, Len(reader.observed.records)) = reader.observed.records

\* The rest of visit_verified_after_with and visit_incremental_after_with: the
\* segments one after the other, all of them or, incrementally, until the event
\* asked for (visit_incremental_records); the state advances when all succeeded.
Scan ==
  /\ reader.at = "scan"
  /\ LET incremental == reader.mode = "incremental"
         first == IF incremental THEN reader.observed.count ELSE 1
         seen == IF incremental THEN reader.observed.records ELSE <<>>
         upto(n) == seen \o Records(Flat([i \in 1..n - first + 1 |-> Scanned(first + i - 1)]))
         enough(n) == incremental /\ Len(upto(n)) >= reader.through
         last == CHOOSE n \in first..reader.files :
                   /\ n = reader.files \/ enough(n)
                   /\ \A m \in first..n - 1 : ~enough(m)
         wanted == IF enough(last) THEN reader.through ELSE Len(upto(last))
         records == SubSeq(upto(last), 1, wanted)
         rest == Records(Scanned(last))
         consumed == RecordsLen(Scanned(last), Len(rest) - (Len(upto(last)) - wanted))
         whole == \A i \in (first..last) \ {reader.files} :
                    Len(segs[i]) > 0 /\ ~Shorter(i) /\ ~has_partial_line(Scanned(i))
         ordered == \A i \in DOMAIN records : records[i] = i
         shrunk == ~incremental /\ Len(segs[reader.files]) < Len(reader.final)
     IN  reader' =
           IF shrunk \/ ~whole \/ ~ordered \/ ~Kept(records) \/ Len(records) < Len(reader.shown)
           THEN Alarm("changed")
           ELSE [reader EXCEPT !.at = "idle",
                  !.shown = @ \o Visited(SubSeq(records, Len(seen) + 1, wanted)),
                  !.observed = [count |-> last, records |-> records, bytes |-> Offset(last) + consumed]]
  /\ UNCHANGED <<segs, durable, owned, owners, appender, foreign>>
-----------------------------------------------------------------------------
(* The readers of a stream at rest.                                        *)

Start == [segment_index |-> 1, byte_offset |-> 0]

\* Mutant: the cursor is the end of the first record left out.
Quantum_past(files, cursor) ==
  LET RECURSIVE Go(_, _, _)
      Go(i, offset, records) ==
        IF i > Len(files) THEN [records |-> records, more |-> FALSE, next |-> Start]
        ELSE LET rest == SubSeq(files[i], offset + 1, Len(files[i]))
                 ends == {j \in DOMAIN rest : rest[j] > 0}
                 end == CHOOSE j \in ends : \A k \in ends : j <= k
             IN  IF ends = {} THEN Go(i + 1, 0, records)
                 ELSE IF Len(records) = ScanRecords
                 THEN [records |-> records, more |-> TRUE,
                       next |-> [segment_index |-> i, byte_offset |-> offset + end]]
                 ELSE Go(i, offset + end, Append(records, rest[end]))
  IN  Go(cursor.segment_index, cursor.byte_offset, <<>>)

\* read_jsonl_quantum_from_segments: at most ScanRecords records from the
\* cursor on, and the cursor of the first record left out.  The offset counts
\* the records already returned from its segment.
Quantum(files, cursor) ==
  LET RECURSIVE Go(_, _, _)
      Go(i, offset, records) ==
        IF i > Len(files) THEN [records |-> records, more |-> FALSE, next |-> Start]
        ELSE LET rest == SubSeq(files[i], offset + 1, Len(files[i]))
                 ends == {j \in DOMAIN rest : rest[j] > 0}
                 end == CHOOSE j \in ends : \A k \in ends : j <= k
             IN  IF ends = {} THEN Go(i + 1, 0, records)
                 ELSE IF Len(records) = ScanRecords
                 THEN [records |-> records, more |-> TRUE,
                       next |-> [segment_index |-> i, byte_offset |-> offset]]
                 ELSE Go(i, offset + end, Append(records, rest[end]))
  IN  Go(cursor.segment_index, cursor.byte_offset, <<>>)

\* read_anchored_jsonl: quantum after quantum, to the end.
RECURSIVE read_jsonl(_, _)
read_jsonl(files, cursor) ==
  LET q == Quantum(files, cursor)
  IN  q.records \o IF q.more THEN read_jsonl(files, q.next) ELSE <<>>

\* RecoveryPrefixReader::open: the lengths it records, or a refusal.
RecoveryPrefix(files) ==
  /\ Len(files) <= MaxSegments /\ Sum(Sizes(files)) <= MaxTotal
  /\ \A i \in DOMAIN files : /\ Len(files[i]) <= MaxSegment
                             /\ files[i] = <<>> => i = Len(files)
                             /\ ~has_partial_line(files[i])

\* next_line, until there is none: each segment must still have the length
\* found when the reader was opened.
RECURSIVE next_line(_, _, _, _)
next_line(files, lengths, i, offset) ==
  IF i > Len(lengths) THEN <<>>
  ELSE LET rest == SubSeq(files[i], offset + 1, Len(files[i]))
           ends == {j \in DOMAIN rest : rest[j] > 0}
           end == CHOOSE j \in ends : \A k \in ends : j <= k
       IN  IF Len(files[i]) # lengths[i] THEN <<0>>
           ELSE IF ends = {} THEN next_line(files, lengths, i + 1, 0)
           ELSE <<rest[end]>> \o next_line(files, lengths, i, offset + end)
-----------------------------------------------------------------------------
Init ==
  /\ scene \in Scenes
  /\ segs = <<<<>>>> /\ durable = <<0>>
  /\ owned = FALSE /\ owners = 0 /\ appender = Closed /\ foreign = 0
  /\ reader = OpenedReader

Append_ == Open \/ (\E batch \in Batches : Begin(batch)) \/ Rotate \/ Seal \/ Put \/ Commit \/ Fault \/ Sync

Follow ==
  \/ \E mode \in {"verified", "incremental"} : \E through \in {Len(reader.shown) + 1, MaxRecords} : Read(mode, through)
  \/ List \/ ListOn \/ OpenFinal \/ Owner \/ Scan

Next == (Append_ \/ Release \/ Outside \/ Follow) /\ UNCHANGED scene

Spec == Init /\ [][Next]_vars
-----------------------------------------------------------------------------
(* Properties.                                                             *)

\* Whatever happens to the stream meanwhile, a follower is shown every record
\* once and in order (visit_verified_after, visit_incremental_after), and none
\* that was not appended.
ShownInOrder ==
  /\ \A i \in DOMAIN reader.shown : reader.shown[i] = i
  /\ foreign = 0 => Len(reader.shown) <= Written

\* As long as only owners change the stream, a read fails for one of four
\* reasons: the log was, at one of the two looks, empty or with an incomplete
\* line and without an owner; two owners gave the lease up during the read (the one retry of
\* visit_verified_after_with is then spent); a failed write was cut back
\* under the reader; or the owner began four segments while the reader listed the
\* directory, two during each of its two scans (retry_event_segment_discovery).
AlarmJustified ==
  reader'.at = "failed" /\ reader.at # "failed" /\ foreign = 0 =>
    \/ reader'.error = "inactive" /\ (Unfinished \/ reader.abandoned)
    \/ reader'.error = "inactive" /\ reader.handovers >= 2
    \/ reader'.error = "changed" /\ reader.cut
    \/ reader'.error = "discovery" /\ Len(segs) >= reader.listed + 4

\* A power loss can shorten the last segment only: every other one was synced
\* before its successor was made (rotate_before_with_checkpoint).
SealedDurable ==
  foreign = 0 => \A i \in 1..Len(segs) - 1 : durable[i] = Len(segs[i])

\* The owner begins no write to a stream that was changed behind its back before it
\* last verified it (verify_current_segment; a change after that is found by the
\* next verification), and its own counts stay true: between batches they
\* are what the files hold and the files keep to their limits, and a batch that
\* failed says how many of its events are in the stream (BatchAppendFailure).
AppendsTrue ==
  /\ appender.at = "write" => appender.verified = appender.known
  /\ appender.at = "idle" /\ foreign = appender.known =>
       /\ session_stream_inventory(segs)
       /\ appender.current_ordinal = Len(segs)
       /\ appender.current_bytes = Len(segs[Len(segs)])
       /\ appender.total_bytes = Sum(Sizes(segs))
  /\ appender.at = "failed" /\ foreign = appender.known /\ appender.told <= MaxRecords =>
       Written = appender.first + appender.told

\* Paging through a stream at rest, by quanta (read_anchored_jsonl) or line by
\* line (RecoveryPrefixReader), gives every record once and in order.
PagedWhole ==
  RecoveryPrefix(segs) => /\ read_jsonl(segs, Start) = Records(Flat(segs))
                          /\ next_line(segs, Sizes(segs), 1, 0) = Records(Flat(segs))
=============================================================================

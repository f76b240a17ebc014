-------------------------------- MODULE Objects --------------------------------
(***************************************************************************)
(* The immutable objects of a Run or of a Fixture session (flow-agent-core): *)
(* the store of a productive Run (runtime/conversations/run_objects.rs),    *)
(* which makes each object in place, and the store of a Fixture session    *)
(* (runtime/context_persistence/objects.rs with the inventory of           *)
(* runtime/session_bundle.rs), which makes it under another name first and *)
(* checks in advance that all the objects of a plan will fit.              *)
(*                                                                         *)
(* An object is named by its digest; Size gives its length.  A file that   *)
(* exists is whole or torn.  A power loss undoes what was not synced: the  *)
(* contents of a file, or its name in the directory.                       *)
(***************************************************************************)
EXTENDS Naturals, FiniteSets, Functions

CONSTANTS
  Stores,      \* "run", "session"
  Size,        \* the objects, and how long each is
  MaxObjects,  \* MAX_SESSION_OBJECTS
  MaxBytes,    \* MAX_SESSION_OBJECT_TOTAL_BYTES
  Opens,       \* processes that open the store, one after the other
  Calls,       \* calls of each
  MaxFaults    \* failing file operations

VARIABLES
  kind,        \* which of the two stores this is
  files,       \* "absent", "torn" or "whole", by digest
  length,      \* how long each file is
  synced,      \* files whose contents survive a power loss
  linked,      \* files whose name does
  writer,      \* RunObjectWriter, SessionObjectWriter and the batch it is persisting
  referenced,  \* objects persist has returned for: a record may name them
  faults, opens

vars == <<kind, files, length, synced, linked, writer, referenced, faults, opens>>

Digests == DOMAIN Size

Total(set) == SumFunctionOnSet(Size, set)

Present == {d \in Digests : files[d] # "absent"}

Closed == [at |-> "closed"]

\* The objects that have their bytes, and what the files there take up, torn or not.
Whole(set) == {d \in set : files[d] = "whole"}
Stored == SumFunctionOnSet(length, Present)

\* ensure_session_object_count, ensure_session_object_total
Fits(count, bytes) == count <= MaxObjects /\ bytes <= MaxBytes

\* The inventory of a directory, by session_objects and by open_with_limit: every
\* object there is, and the bytes they have.
session_objects == [objects |-> Present, bytes |-> Stored]

\* RunObjectStore::open, SessionObjectWriter::open: what is in the directory is
\* known, its names are not taken to be durable.
Open ==
  /\ writer.at = "closed" /\ opens < Opens
  /\ Fits(Cardinality(session_objects.objects), session_objects.bytes)
  /\ opens' = opens + 1
  /\ writer' = [at |-> "idle", objects |-> session_objects.objects, bytes |-> session_objects.bytes,
                directory_synced |-> {}, failed |-> FALSE,
                preflight |-> session_objects.objects, preflight_bytes |-> session_objects.bytes,
                batch |-> {}, new |-> {}, calls |-> 0, promised |-> {}, began |-> FALSE, refused |-> FALSE]
  /\ UNCHANGED <<kind, files, length, synced, linked, referenced, faults>>

\* validate_all_from: the objects the inventory does not know are counted.
validate_all_from(batch, known, bytes) ==
  [fits |-> Fits(Cardinality(known \cup batch), bytes + Total(batch \ known)),
   bytes |-> bytes + Total(batch \ known)]

\* verify_existing: a digest on disk must have the bytes of its object.
verify_existing(batch) == batch \cap Present = Whole(batch)

\* preflight_all: a resumed session counts the objects of its whole plan before
\* it makes any.
preflight_all(batch) ==
  LET validated == validate_all_from(batch, writer.preflight, writer.preflight_bytes)
  IN  /\ kind = "session" /\ writer.at = "idle" /\ writer.calls < Calls /\ ~writer.began
      /\ validated.fits /\ verify_existing(batch)
      /\ writer' = [writer EXCEPT !.preflight = @ \cup batch, !.preflight_bytes = validated.bytes,
                                  !.promised = @ \cup batch, !.calls = @ + 1]
      /\ UNCHANGED <<kind, files, length, synced, linked, referenced, faults, opens>>

Admit(batch) ==
  [writer EXCEPT !.at = "existing", !.batch = batch, !.new = batch \ writer.objects,
                 !.began = TRUE, !.calls = @ + 1]

\* persist_manifest_objects, up to its first change: the batch is admitted as a
\* whole or refused as a whole.  A session that counted its plan persists
\* nothing else.
PersistSession(batch) ==
  LET validated == validate_all_from(batch, writer.objects, writer.bytes)
  IN  /\ kind = "session" /\ writer.at = "idle" /\ writer.calls < Calls
      /\ writer.promised # {} => batch \subseteq writer.promised
      /\ writer' = IF validated.fits /\ verify_existing(batch) THEN Admit(batch)
                   ELSE [writer EXCEPT !.calls = @ + 1,
                                       !.refused = ~validated.fits /\ writer.promised # {}]
      /\ UNCHANGED <<kind, files, length, synced, linked, referenced, faults, opens>>

\* RunObjectWriter::persist, up to its first change: likewise, and an object that
\* has other bytes closes the store.
PersistRun(batch) ==
  /\ kind = "run" /\ writer.at = "idle" /\ ~writer.failed /\ writer.calls < Calls
  /\ writer' = IF ~Fits(Cardinality(writer.objects \cup batch),
                        writer.bytes + Total(batch \ writer.objects))
               THEN [writer EXCEPT !.calls = @ + 1]
               ELSE IF verify_existing(batch) THEN Admit(batch)
               ELSE [writer EXCEPT !.calls = @ + 1, !.failed = TRUE]
  /\ UNCHANGED <<kind, files, length, synced, linked, referenced, faults, opens>>

\* A failing file operation; what it leaves is up to the caller.
Fault == faults < MaxFaults /\ faults' = faults + 1

Refused == writer' = [writer EXCEPT !.at = "idle", !.batch = {}, !.new = {}]

\* Mutant: an object found on disk is taken to be durable.
SyncExisting_trusted ==
  /\ kind = "run" /\ writer.at = "existing"
  /\ writer' = [writer EXCEPT !.at = "new"]
  /\ UNCHANGED <<kind, files, length, synced, linked, referenced, faults, opens>>

\* The objects of the batch that exist are read again and synced, and the
\* directory with them unless their names are known to be durable; or one of
\* those syncs fails.
SyncExisting ==
  LET old == writer.batch \ writer.new
  IN  /\ kind = "run" /\ writer.at = "existing"
      /\ \/ /\ synced' = synced \cup old
            /\ linked' = IF old \subseteq writer.directory_synced THEN linked ELSE linked \cup Present
            /\ writer' = [writer EXCEPT !.at = "new"]
            /\ UNCHANGED faults
         \/ /\ Fault /\ Refused /\ UNCHANGED <<synced, linked>>
      /\ UNCHANGED <<kind, files, length, referenced, opens>>

\* verify_and_sync_existing, for each of them.
verify_and_sync_existing ==
  /\ kind = "session" /\ writer.at = "existing"
  /\ \/ /\ synced' = synced \cup (writer.batch \ writer.new)
        /\ writer' = [writer EXCEPT !.at = "new"] /\ UNCHANGED faults
     \/ Fault /\ Refused /\ UNCHANGED synced
  /\ UNCHANGED <<kind, files, length, linked, referenced, opens>>

\* The next object that has to be made.
Candidate == CHOOSE d \in writer.new : TRUE

\* RunObjectWriter::persist: the file is created under its own name, and some of it is written.
Create ==
  /\ kind = "run" /\ writer.at = "new" /\ writer.new # {}
  /\ files' = [files EXCEPT ![Candidate] = "torn"]
  /\ \E written \in 0 .. Size[Candidate] : length' = [length EXCEPT ![Candidate] = written]
  /\ writer' = [writer EXCEPT !.at = "write"]
  /\ UNCHANGED <<kind, synced, linked, referenced, faults, opens>>

\* fail_created: the file is removed again and the store stays usable; or that,
\* or the sync after it, fails too, and the store is closed.
fail_created ==
  \/ /\ files' = [files EXCEPT ![Candidate] = "absent"] /\ length' = [length EXCEPT ![Candidate] = 0]
     /\ synced' = synced \ {Candidate} /\ linked' = linked \ {Candidate}
     /\ \E failed \in BOOLEAN :
          writer' = [writer EXCEPT !.at = "idle", !.batch = {}, !.new = {}, !.failed = failed]
  \/ /\ writer' = [writer EXCEPT !.at = "idle", !.batch = {}, !.new = {}, !.failed = TRUE]
     /\ UNCHANGED <<files, length, synced, linked>>

\* write_all and sync_all
Write ==
  /\ writer.at = "write"
  /\ \/ /\ files' = [files EXCEPT ![Candidate] = "whole"] /\ length' = [length EXCEPT ![Candidate] = Size[Candidate]]
        /\ synced' = synced \cup {Candidate}
        /\ writer' = [writer EXCEPT !.at = "directory"]
        /\ UNCHANGED <<linked, faults>>
     \/ Fault /\ fail_created
  /\ UNCHANGED <<kind, referenced, opens>>

\* sync_anchored_directory: the object is published, and counted.
Publish ==
  /\ writer.at = "directory"
  /\ \/ /\ linked' = linked \cup Present
        /\ writer' = [writer EXCEPT !.at = "new", !.new = @ \ {Candidate}, !.objects = @ \cup {Candidate},
                                    !.bytes = @ + Size[Candidate], !.directory_synced = @ \cup {Candidate}]
        /\ UNCHANGED <<files, length, synced, faults>>
     \/ Fault /\ fail_created
  /\ UNCHANGED <<kind, referenced, opens>>

\* Mutant: an object that is published is counted twice.
record_publication_again(d) ==
  [writer EXCEPT !.new = @ \ {d}, !.objects = @ \cup {d}, !.bytes = @ + Size[d],
                 !.preflight = @ \cup {d}, !.preflight_bytes = @ + Size[d]]

\* record_publication: what was not counted yet is counted in both inventories.
record_publication(d) ==
  [writer EXCEPT !.new = @ \ {d}, !.objects = @ \cup {d}, !.bytes = @ + Size[d],
                 !.preflight = @ \cup {d},
                 !.preflight_bytes = IF d \in writer.preflight THEN @ ELSE @ + Size[d]]

\* Mutant: the object is written under its own name.
Replace_inPlace ==
  /\ kind = "session" /\ writer.at = "new" /\ writer.new # {}
  /\ \/ /\ files' = [files EXCEPT ![Candidate] = "whole"] /\ length' = [length EXCEPT ![Candidate] = Size[Candidate]]
        /\ synced' = synced \cup {Candidate} /\ writer' = record_publication(Candidate)
        /\ UNCHANGED faults
     \/ Fault /\ Refused /\ files' = [files EXCEPT ![Candidate] = "torn"] /\ UNCHANGED <<length, synced>>
  /\ UNCHANGED <<kind, linked, referenced, opens>>

\* persist_validated_batch_with: the object is written and synced under a
\* temporary name, then renamed.
Replace ==
  /\ kind = "session" /\ writer.at = "new" /\ writer.new # {}
  /\ \/ /\ files' = [files EXCEPT ![Candidate] = "whole"] /\ length' = [length EXCEPT ![Candidate] = Size[Candidate]]
        /\ synced' = synced \cup {Candidate} /\ writer' = record_publication(Candidate)
        /\ UNCHANGED faults
     \/ Fault /\ Refused /\ UNCHANGED <<files, length, synced>>
  /\ UNCHANGED <<kind, linked, referenced, opens>>

\* persist returns.  The session's store syncs the directory first; the Run's
\* notes that the names of the batch are durable.
Return ==
  /\ writer.at = "new" /\ writer.new = {}
  /\ \/ /\ linked' = IF kind = "session" THEN linked \cup Present ELSE linked
        /\ referenced' = referenced \cup writer.batch
        /\ writer' = [writer EXCEPT !.at = "idle", !.batch = {},
                                    !.directory_synced = @ \cup writer.batch]
        /\ UNCHANGED faults
     \/ kind = "session" /\ Fault /\ Refused /\ UNCHANGED <<linked, referenced>>
  /\ UNCHANGED <<kind, files, length, synced, opens>>

\* The process ends.
Stop ==
  /\ writer.at # "closed"
  /\ writer' = Closed
  /\ UNCHANGED <<kind, files, length, synced, linked, referenced, faults, opens>>

\* The machine does: a name that was not synced is lost or not, and so are the
\* contents of a file that were not.
PowerLoss ==
  /\ writer' = Closed
  /\ \E lost \in SUBSET (Present \ linked) :
       /\ files' = [d \in Digests |-> IF d \in lost THEN "absent"
                                      ELSE IF d \in Present \ synced THEN "torn" ELSE files[d]]
       /\ \E torn \in {t \in [Present \ (synced \cup lost) -> 0 .. MaxBytes] : \A d \in DOMAIN t : t[d] <= Size[d]} :
            length' = [d \in Digests |-> IF d \in lost THEN 0 ELSE IF d \in DOMAIN torn THEN torn[d] ELSE length[d]]
       /\ synced' = synced \ lost /\ linked' = linked
  /\ UNCHANGED <<kind, referenced, faults, opens>>

Init ==
  /\ kind \in Stores
  /\ files = [d \in Digests |-> "absent"] /\ length = [d \in Digests |-> 0] /\ synced = {} /\ linked = {}
  /\ writer = Closed /\ referenced = {} /\ faults = 0 /\ opens = 0

Next ==
  \/ Open \/ SyncExisting \/ verify_and_sync_existing \/ Create \/ Write \/ Publish \/ Replace \/ Return \/ Stop \/ PowerLoss
  \/ \E batch \in (SUBSET Digests) \ {{}} :
       PersistRun(batch) \/ PersistSession(batch) \/ preflight_all(batch)

Spec == Init /\ [][Next]_vars
-----------------------------------------------------------------------------
\* What persist has returned for, in any process, is whole and survives a power
\* loss: its contents and its name are synced, also when the object was found
\* on disk, left there by a process that ended before it synced them.  And no
\* crash leaves a torn object in a Fixture session, where a later process would
\* find that the digest has other bytes and could never persist it.
ReferencedDurable ==
  /\ \A d \in referenced : files[d] = "whole" /\ d \in synced /\ d \in linked
  /\ kind = "session" => \A d \in Digests : files[d] # "torn"

\* Whenever a call can begin, the store that is not closed knows the files there
\* are, within the limits; and the objects of a plan that preflight_all admitted
\* are never refused for lack of room when their turn comes.
CountsTrue ==
  /\ writer.at = "idle" /\ ~writer.failed =>
       /\ writer.objects = Present /\ writer.bytes = Stored
       /\ Fits(Cardinality(writer.objects), writer.bytes)
       /\ kind = "session" => writer.preflight_bytes = Total(writer.preflight)
  /\ writer.at # "closed" => ~writer.refused
=============================================================================

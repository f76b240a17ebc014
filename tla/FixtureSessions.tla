-------------------------- MODULE FixtureSessions --------------------------
(***************************************************************************)
(* How processes share the session store of a workspace: a Fixture Run     *)
(* looks for a free session name, takes the name's ownership lease (an     *)
(* operating-system file lock), creates the files of the session one by    *)
(* one and activates it; a failed creation gives the lease up and leaves   *)
(* its files as orphans (remove_owned_anchored_file always refuses); a     *)
(* resume takes the lease of an existing session (session_reservation.rs,  *)
(* session_lock.rs, session_authority.rs, session_candidates.rs).  Any     *)
(* file operation may fail and any process may die between two steps; the  *)
(* operating system then releases its lease.  A file's identity is the     *)
(* process that created it.                                                *)
(***************************************************************************)
EXTENDS Naturals

CONSTANTS
  Procs,       \* the processes, each of which runs or resumes one session
  Nobody,      \* no process
  Candidates,  \* MAX_UNIQUE_SESSION_CANDIDATES
  MaxEvents    \* bound: events in a session's log

ASSUME NobodyAssumption == Nobody \notin Procs
ASSUME BoundsAssumption == Candidates \in Nat /\ MaxEvents \in Nat

Names == 1..Candidates

\* The files of a session: events, metadata, contexts and the lock marker.
Bundle == {"session", "log", "context"}

Leaves == Bundle \cup {"marker"}

VARIABLES
  lease,   \* per name: the process that holds the ownership lease
  file,    \* per name and leaf: the process that created the file, or Nobody
  active,  \* per name: the process that activated the session, or Nobody
  events,  \* per name: how many events its log holds
  pc,      \* per process: the next step
  name,    \* per process: the candidate it is at, or the session it resumes
  hint,    \* per process: the candidates its directory listing showed as taken
  state    \* per process: the state of its reservation

vars == <<lease, file, active, events, pc, name, hint, state>>

Hints == {"free", "probe", "occupied"}

Init ==
  /\ lease = [n \in Names |-> Nobody]
  /\ file = [n \in Names |-> [l \in Leaves |-> Nobody]]
  /\ active = [n \in Names |-> Nobody]
  /\ events = [n \in Names |-> 0]
  /\ pc \in [Procs -> {"list", "find"}]
  /\ name \in [Procs -> Names]
  /\ \A p \in Procs : pc[p] = "list" => name[p] = 1
  /\ hint = [p \in Procs |-> [n \in Names |-> "free"]]
  /\ state = [p \in Procs |-> "empty"]

Goto(p, step) == pc' = [pc EXCEPT ![p] = step]

\* Mutant: an empty file of an earlier Run counts as free.
Absent_empty(n, l) == file[n][l] = Nobody \/ events[n] = 0

\* ensure_anchored_session_file_available, ensure_anchored_bundle_leaf_available.
Absent(n, l) == file[n][l] = Nobody

Release(p) == lease' = [lease EXCEPT ![name[p]] = Nobody]

-----------------------------------------------------------------------------
(* A new Run.                                                              *)

\* session_candidate_hints_from_dirs.
List(p) ==
  /\ pc[p] = "list"
  /\ hint' = [hint EXCEPT ![p] = [n \in Names |->
                IF \E l \in Leaves \ {"session"} : ~Absent(n, l) THEN "occupied"
                ELSE IF ~Absent(n, "session") THEN "probe" ELSE "free"]]
  /\ Goto(p, "seek")
  /\ UNCHANGED <<lease, file, active, events, name, state>>

\* The next candidate, or the error that none is left.
NextCandidate(p) ==
  IF name[p] = Candidates THEN Goto(p, "failed") /\ UNCHANGED name
  ELSE Goto(p, "seek") /\ name' = [name EXCEPT ![p] = @ + 1]

\* The loop of reserve_unique_session_candidate up to the lease.
Seek(p) ==
  /\ pc[p] = "seek"
  /\ IF \/ hint[p][name[p]] = "occupied"
        \/ hint[p][name[p]] = "probe" /\ ~Absent(name[p], "session")
     THEN NextCandidate(p)
     ELSE Goto(p, "lease") /\ UNCHANGED name
  /\ UNCHANGED <<lease, file, active, events, hint, state>>

\* Mutant: a held lease does not turn anyone away.
Acquired_shared(p) == lease' = [lease EXCEPT ![name[p]] = p]

\* SessionOwnershipLease::acquire_path.
Acquired(p) == lease[name[p]] = Nobody /\ lease' = [lease EXCEPT ![name[p]] = p]

Acquire(p) ==
  /\ pc[p] = "lease"
  /\ \/ Acquired(p) /\ Goto(p, "recheck") /\ UNCHANGED name
     \/ lease[name[p]] # Nobody /\ NextCandidate(p) /\ UNCHANGED lease
  /\ UNCHANGED <<file, active, events, hint, state>>

\* ensure_anchored_session_candidate_available once the lease is held.
Recheck(p) ==
  /\ pc[p] = "recheck"
  /\ IF Absent(name[p], "session") THEN Goto(p, "plan") /\ UNCHANGED <<lease, name>>
     ELSE Release(p) /\ NextCandidate(p)
  /\ UNCHANGED <<file, active, events, hint, state>>

\* Planning and preflight; a failure drops the candidate.
Plan(p) ==
  /\ pc[p] = "plan"
  /\ \/ Goto(p, "check") /\ UNCHANGED lease
     \/ Goto(p, "failed") /\ Release(p)
  /\ UNCHANGED <<file, active, events, name, hint, state>>

\* Any step of the creation may also fail.
Fails(p) == Goto(p, "cleanup") /\ UNCHANGED file

\* ensure_session_bundle_namespace_available, before and after the events file.
Check(p) ==
  /\ pc[p] \in {"check", "check2"}
  /\ \/ /\ \A l \in Leaves \ {"session"} : Absent(name[p], l)
        /\ IF pc[p] = "check" THEN Absent(name[p], "session") /\ Goto(p, "session")
           ELSE file[name[p]]["session"] = p /\ Goto(p, "log")
        /\ UNCHANGED file
     \/ Fails(p)
  /\ UNCHANGED <<lease, active, events, name, hint, state>>

\* The exclusive creation of a leaf: reserve_new_anchored_file, create_anchored_file.
Create(p, l) ==
  /\ Absent(name[p], l)
  /\ file' = [file EXCEPT ![name[p]][l] = p]

\* materialize_session_candidate.
Materialize(p) ==
  /\ \/ pc[p] = "session" /\ Create(p, "session") /\ Goto(p, "check2")
     \/ pc[p] = "log" /\ Create(p, "log") /\ Goto(p, "context")
     \/ pc[p] = "context" /\ Create(p, "context") /\ Goto(p, "metadata")
     \/ pc[p] \in {"session", "log", "context"} /\ Fails(p)
  /\ UNCHANGED <<lease, active, events, name, hint, state>>

\* write_reserved_session_metadata up to activate_checked: only the identity of
\* the metadata file is checked here.
Metadata(p) ==
  /\ pc[p] = "metadata"
  /\ \/ file[name[p]]["log"] = p /\ Goto(p, "marker") /\ UNCHANGED file
     \/ Fails(p)
  /\ UNCHANGED <<lease, active, events, name, hint, state>>

\* activate_checked: the marker, then ensure_reserved_session_bundle_unchanged.
Activate(p) ==
  /\ \/ /\ pc[p] = "marker" /\ Create(p, "marker") /\ Goto(p, "validate")
        /\ UNCHANGED <<active, state>>
     \/ /\ pc[p] = "validate" /\ \A l \in Bundle : file[name[p]][l] = p
        /\ Goto(p, "write")
        /\ state' = [state EXCEPT ![p] = "active"]
        /\ active' = [active EXCEPT ![name[p]] = p]
        /\ UNCHANGED file
     \/ pc[p] \in {"marker", "validate"} /\ Fails(p) /\ UNCHANGED <<active, state>>
  /\ UNCHANGED <<lease, events, name, hint>>

\* The writer of a Run or of a resume.
Write(p) ==
  /\ pc[p] \in {"write", "resumed"} /\ events[name[p]] < MaxEvents
  /\ events' = [events EXCEPT ![name[p]] = @ + 1]
  /\ UNCHANGED <<lease, file, active, pc, name, hint, state>>

\* The Run ended, well or with an error: its reservation is cleaned up.
Done(p) ==
  /\ pc[p] = "write" /\ Goto(p, "cleanup")
  /\ UNCHANGED <<lease, file, active, events, name, hint, state>>

\* cleanup: of an empty reservation every file is retained as an orphan and reported;
\* the lease is released whatever failed, and the drop that follows finds it so.
Cleanup(p) ==
  /\ pc[p] = "cleanup" /\ Release(p)
  /\ Goto(p, IF state[p] = "empty" THEN "failed" ELSE "ended")
  /\ UNCHANGED <<file, active, events, name, hint, state>>

-----------------------------------------------------------------------------
(* Resuming a session.                                                     *)

\* The events file must be there; its lease is taken; the marker is opened or
\* created; the log must hold an event and the metadata must be complete.
Find(p) ==
  /\ \/ /\ pc[p] = "find" /\ UNCHANGED <<lease, file>>
        /\ Goto(p, IF Absent(name[p], "session") THEN "failed" ELSE "own")
     \/ /\ pc[p] = "own" /\ Acquired(p) /\ Goto(p, "mark") /\ UNCHANGED file
     \/ /\ pc[p] = "own" /\ lease[name[p]] # Nobody /\ Goto(p, "failed")
        /\ UNCHANGED <<lease, file>>
     \/ /\ pc[p] = "mark" /\ Goto(p, "open")
        /\ file' = [file EXCEPT ![name[p]]["marker"] = IF @ = Nobody THEN p ELSE @]
        /\ UNCHANGED lease
     \/ /\ pc[p] = "open" /\ UNCHANGED file
        /\ \/ /\ events[name[p]] > 0 /\ \A l \in Bundle : ~Absent(name[p], l)
              /\ Goto(p, "resumed") /\ UNCHANGED lease
           \/ Goto(p, "failed") /\ Release(p)
     \/ pc[p] = "resumed" /\ Goto(p, "ended") /\ Release(p) /\ UNCHANGED file
  /\ UNCHANGED <<active, events, name, hint, state>>

\* The process dies: its lease goes, its files stay.
Holding == {"recheck", "plan", "check", "session", "check2", "log", "context", "metadata",
            "marker", "validate", "write", "cleanup", "mark", "open", "resumed"}

Crash(p) ==
  /\ pc[p] \notin {"failed", "ended", "dead"}
  /\ Goto(p, "dead")
  /\ IF pc[p] \in Holding THEN Release(p) ELSE UNCHANGED lease
  /\ UNCHANGED <<file, active, events, name, hint, state>>

Next ==
  \E p \in Procs :
    \/ List(p) \/ Seek(p) \/ Acquire(p) \/ Recheck(p) \/ Plan(p) \/ Check(p)
    \/ Materialize(p) \/ Metadata(p) \/ Activate(p) \/ Write(p) \/ Done(p)
    \/ Cleanup(p) \/ Find(p) \/ Crash(p)

Spec == Init /\ [][Next]_vars

-----------------------------------------------------------------------------
(* Properties.                                                             *)

\* A session name belongs to the Run that first created a file under it.  What a
\* failed or killed Run left there is never completed, taken over or replaced by
\* another Run, one Run leaves files under one name only, and an activated session
\* consists of its own Run's three files (reserve_unique_session_candidate,
\* materialize_session_candidate, activate_checked).
SessionsKept ==
  /\ \A m, n \in Names : \A k, l \in Bundle :
       file[m][k] # Nobody /\ file[n][l] # Nobody => (m = n <=> file[m][k] = file[n][l])
  /\ \A n \in Names : active[n] # Nobody => \A l \in Bundle : file[n][l] = active[n]

\* At most one process writes to a session, be it the Run that created it or a
\* resume, and only to a session that was activated
\* (SessionOwnershipLease::acquire, acquire_anchored_session_lock).
OneWriter ==
  /\ \A p, q \in Procs : /\ p # q /\ name[p] = name[q]
                         /\ pc[p] \in {"write", "resumed"}
                         => pc[q] \notin {"write", "resumed"}
  /\ \A n \in Names : events[n] > 0 => active[n] # Nobody

=============================================================================

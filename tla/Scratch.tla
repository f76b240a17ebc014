------------------------------- MODULE Scratch -------------------------------
(***************************************************************************)
(* The private scratch directories in which a command validates a          *)
(* conversation's history: made under the lease of their root, kept by a   *)
(* lease of their own, and swept by a later command when their process     *)
(* ended without removing them (history_index/scratch.rs).                 *)
(*                                                                         *)
(* Every change to the file system is a step, and a process may end, or a  *)
(* call may fail, before any of them.                                      *)
(***************************************************************************)
EXTENDS Naturals, FiniteSets

CONSTANTS
  Procs, Nobody,
  Leaves,    \* the names of scratch directories
  MaxRuns    \* the sorted runs a command has on disk at a time

VARIABLES
  root,      \* who holds the root's lease
  dirs,      \* the directories: what is in them, and who holds their lease
  proc

vars == <<root, dirs, proc>>

NoDir == [there |-> FALSE, marker |-> "none", lease |-> FALSE, runs |-> 0, holder |-> Nobody]
Idle == [at |-> "idle", dir |-> Nobody, todo |-> {}, runs |-> 0, then |-> "idle"]

There == {d \in Leaves : dirs[d].there}
Empty(d) == dirs[d].marker = "none" /\ ~dirs[d].lease /\ dirs[d].runs = 0

\* validate_inactive_scratch: what a sweep accepts. Anything else fails every later command.
Valid(d) == Empty(d) \/ (dirs[d].marker = "whole" /\ (dirs[d].lease \/ dirs[d].runs = 0))

At(p, at) == proc' = [proc EXCEPT ![p].at = at]

\* HistoryScratchRootLease::acquire, and the first pass of cleanup_stale_scratch:
\* every directory is looked at before any is removed.
Begin(p) ==
  /\ proc[p].at = "idle" /\ root = Nobody
  /\ \A d \in There : Valid(d)
  /\ root' = p
  /\ proc' = [proc EXCEPT ![p].at = "sweep", ![p].todo = There]
  /\ UNCHANGED dirs

\* Mutant: the sweep takes every directory for a stale one.
Sweep_active(p) ==
  /\ proc[p].at = "sweep"
  /\ \E d \in proc[p].todo :
       /\ proc' = [proc EXCEPT ![p].at = "runs", ![p].dir = d, ![p].then = "sweep", ![p].todo = @ \ {d}]
       /\ dirs' = [dirs EXCEPT ![d].holder = p]
  /\ UNCHANGED root

\* The second pass: a directory whose lease is held is left alone.
Sweep(p) ==
  /\ proc[p].at = "sweep"
  /\ \E d \in proc[p].todo :
       proc' = [proc EXCEPT ![p].todo = @ \ {d},
                            ![p].at = IF dirs[d].holder # Nobody THEN "sweep" ELSE "open",
                            ![p].dir = IF dirs[d].holder # Nobody THEN Nobody ELSE d, ![p].then = "sweep"]
  /\ UNCHANGED <<root, dirs>>

\* create_in_root: the space is there, and a new private directory.
Make(p) ==
  /\ proc[p].at = "sweep" /\ proc[p].todo = {}
  /\ \E d \in Leaves \ There :
       /\ dirs' = [dirs EXCEPT ![d] = [NoDir EXCEPT !.there = TRUE]]
       /\ proc' = [proc EXCEPT ![p].at = "made", ![p].dir = d]
  /\ UNCHANGED root

\* Its marker is created, then written and synced.
Mark(p) ==
  /\ proc[p].at = "made"
  /\ dirs' = [dirs EXCEPT ![proc[p].dir].marker = "torn"]
  /\ At(p, "marking")
  /\ UNCHANGED root
Marked(p) ==
  /\ proc[p].at = "marking"
  /\ dirs' = [dirs EXCEPT ![proc[p].dir].marker = "whole"]
  /\ At(p, "marked")
  /\ UNCHANGED root

\* Its lease is created and taken, and the root's given back.
Lease(p) ==
  /\ proc[p].at = "marked"
  /\ dirs' = [dirs EXCEPT ![proc[p].dir].lease = TRUE, ![proc[p].dir].holder = p]
  /\ root' = Nobody /\ proc' = [proc EXCEPT ![p].at = "active", ![p].runs = 0, ![p].todo = {}]

\* rollback_scratch_initialization: a call failed before the lease was there.
Rollback(p) ==
  /\ proc[p].at \in {"made", "marking", "marked"}
  /\ dirs' = [dirs EXCEPT ![proc[p].dir].marker = "none"]
  /\ proc' = [proc EXCEPT ![p].at = "rmdir", ![p].then = "idle"]
  /\ UNCHANGED root

\* write_sorted_scratch_run and remove_file, as the index is built and merged.
Work(p) ==
  LET d == proc[p].dir IN
  /\ proc[p].at = "active"
  /\ \/ proc[p].runs < MaxRuns /\ proc' = [proc EXCEPT ![p].runs = @ + 1] /\ dirs' = [dirs EXCEPT ![d].runs = @ + 1]
     \/ proc[p].runs > 0 /\ dirs[d].runs > 0 /\ proc' = [proc EXCEPT ![p].runs = @ - 1] /\ dirs' = [dirs EXCEPT ![d].runs = @ - 1]
  /\ UNCHANGED root

\* cleanup: with the root's lease taken by another, the command fails and its
\* own lease ends with it; the directory is left to a later sweep.
Cleanup(p) ==
  /\ proc[p].at = "active"
  /\ dirs' = [dirs EXCEPT ![proc[p].dir].holder = Nobody]
  /\ IF root # Nobody THEN proc' = [proc EXCEPT ![p] = Idle] /\ UNCHANGED root
     ELSE root' = p /\ proc' = [proc EXCEPT ![p].at = "open", ![p].then = "idle"]

\* A removal is over: the sweep goes on, or the command returns.
Removed(p) ==
  /\ proc' = [proc EXCEPT ![p] = IF @.then = "idle" THEN Idle ELSE [@ EXCEPT !.at = "sweep", !.dir = Nobody]]
  /\ root' = IF proc[p].then = "idle" THEN Nobody ELSE root

\* remove_scratch_dir: an unfinished or half-removed directory is finished; the
\* lease of any other is taken first.
Open(p) ==
  LET d == proc[p].dir IN
  /\ proc[p].at = "open"
  /\ CASE Empty(d) -> At(p, "rmdir") /\ UNCHANGED <<root, dirs>>
       [] ~Empty(d) /\ ~dirs[d].lease -> At(p, "marker") /\ UNCHANGED <<root, dirs>>
       [] dirs[d].lease /\ dirs[d].holder # Nobody -> Removed(p) /\ UNCHANGED dirs
       [] dirs[d].lease /\ dirs[d].holder = Nobody -> At(p, "runs") /\ dirs' = [dirs EXCEPT ![d].holder = p] /\ UNCHANGED root

Runs(p) ==
  LET d == proc[p].dir IN
  /\ proc[p].at = "runs"
  /\ IF dirs[d].runs > 0 THEN dirs' = [dirs EXCEPT ![d].runs = @ - 1] /\ UNCHANGED proc
     ELSE dirs' = [dirs EXCEPT ![d].holder = Nobody] /\ At(p, "lease")
  /\ UNCHANGED root

\* Mutant: the marker goes before the lease.
RemoveLease_last(p) ==
  LET d == proc[p].dir IN
  /\ proc[p].at = "lease"
  /\ IF dirs[d].marker = "whole" THEN dirs' = [dirs EXCEPT ![d].marker = "none"] /\ UNCHANGED proc
     ELSE dirs' = [dirs EXCEPT ![d].lease = FALSE] /\ At(p, "rmdir")
  /\ UNCHANGED root

RemoveLease(p) ==
  /\ proc[p].at = "lease"
  /\ dirs' = [dirs EXCEPT ![proc[p].dir].lease = FALSE]
  /\ At(p, "marker")
  /\ UNCHANGED root

\* remove_scratch_marker, once nothing else is left.
RemoveMarker(p) ==
  /\ proc[p].at = "marker"
  /\ dirs' = [dirs EXCEPT ![proc[p].dir].marker = "none"]
  /\ At(p, "rmdir")
  /\ UNCHANGED root

\* remove_empty_scratch_dir.
RemoveDir(p) ==
  /\ proc[p].at = "rmdir" /\ Empty(proc[p].dir)
  /\ dirs' = [dirs EXCEPT ![proc[p].dir] = NoDir]
  /\ Removed(p)

\* The process ends, or a call of a removal fails: its leases end, its files stay.
Stop(p) ==
  /\ proc[p].at # "idle"
  /\ root' = IF root = p THEN Nobody ELSE root
  /\ dirs' = [d \in Leaves |-> IF dirs[d].holder = p THEN [dirs[d] EXCEPT !.holder = Nobody] ELSE dirs[d]]
  /\ proc' = [proc EXCEPT ![p] = Idle]

Init == root = Nobody /\ dirs = [d \in Leaves |-> NoDir] /\ proc = [p \in Procs |-> Idle]

Next ==
  \E p \in Procs :
    \/ Begin(p) \/ Sweep(p) \/ Make(p) \/ Mark(p) \/ Marked(p) \/ Lease(p) \/ Rollback(p) \/ Work(p)
    \/ Cleanup(p) \/ Open(p) \/ Runs(p) \/ RemoveLease(p) \/ RemoveMarker(p) \/ RemoveDir(p) \/ Stop(p)

Spec == Init /\ [][Next]_vars

------------------------------------------------------------------------------
\* The process that is making or removing a directory.
Busy(d) == \E p \in Procs : proc[p].dir = d /\ proc[p].at \notin {"idle", "active"}

\* Wherever a command ended, once the marker it made is whole, what it left
\* behind can be swept: the removal's own order never leaves a directory that
\* makes the validation of every later command fail.
SweptLater == \A d \in There : Busy(d) \/ Valid(d) \/ dirs[d].marker = "torn"

\* The same for every end of a command, with the one between the creation of
\* its marker and its writing: a partial initialization is recoverable.
ScratchRecoverable == \A d \in There : Busy(d) \/ Valid(d)

\* A sweep leaves the scratch of a running command alone: its directory, its
\* marker, its lease and its runs are as the command left them.
OwnScratch ==
  \A p \in Procs : proc[p].at = "active" =>
    dirs[proc[p].dir] = [there |-> TRUE, marker |-> "whole", lease |-> TRUE, runs |-> proc[p].runs, holder |-> p]
=============================================================================

------------------------------ MODULE Snapshots ------------------------------
(***************************************************************************)
(* What a checkpoint captures and what a revert to it changes, leaves      *)
(* alone and reports (meta-harness-core, diff/mod.rs, diff/revert.rs and   *)
(* checkpoint.rs).                                                         *)
(*                                                                         *)
(* The checkout is a folder "f" that may also be a file or a repository,   *)
(* and two entries below it.  A snapshot is Git's tree: the content of     *)
(* each file it holds and the commit of each repository.                   *)
(* Git's own commands are modelled from the way the code uses them.        *)
(***************************************************************************)
EXTENDS Naturals, FiniteSets

CONSTANTS
  Contents  \* what a file may hold

VARIABLES
  disk,     \* path -> what is there
  ignored,  \* the paths Git ignores
  tracked,  \* the files in the project's index
  within,   \* the paths below the session's working folder
  to,       \* the checkpoint
  plan,     \* the revert plan shown: the paths it names
  revert    \* the revert: where it is, and what it found before

vars == <<disk, ignored, tracked, within, to, plan, revert>>

Paths == {"f", "f/x", "f/y"}
Below(p) == IF p = "f" THEN {"f/x", "f/y"} ELSE {}
Above(p) == IF p \in Below("f") THEN {"f"} ELSE {}

File(c) == <<"file", c>>
Files == {File(c) : c \in Contents}
Absent == <<"absent", 0>>
Dir == <<"dir", 0>>
\* A nested repository at its commit, or without one yet.
Repository == <<"repository", 1>>
Unborn == <<"repository", 0>>
Repositories == {Repository, Unborn}

\* A folder is there while something is in it.
Disks ==
  {d \in [Paths -> Files \cup {Absent, Dir} \cup Repositories] :
     /\ \A p \in Below("f") : d[p] # Dir
     /\ d["f"] = Dir <=> \E p \in Below("f") : d[p] # Absent}

\* What Git ignores in a folder it ignores.
Ignores == {i \in SUBSET Paths : "f" \in i => Below("f") \subseteq i}

NoPlan == [shown |-> FALSE, files |-> {}, folders |-> {}]
NoRevert == [pc |-> "idle", before |-> [p \in Paths |-> Absent], left |-> {}]

------------------------------------------------------------------------------
(* WorkingTree::capture: the project's index, every file not ignored, and repositories that have a
   commit; those without one are left out. *)

\* Mutant: files the project marks as assumed unchanged, or tracks although ignored, are skipped.
Captured_untracked(forced, p) ==
  \/ disk[p] \in Files /\ (p \notin ignored \/ p \in forced)
  \/ disk[p] = Repository /\ p \notin ignored

Captured(forced, p) ==
  \/ disk[p] \in Files /\ (p \notin ignored \/ p \in tracked \cup forced)
  \/ disk[p] = Repository /\ p \notin ignored

Capture(forced) == [p \in Paths |-> IF Captured(forced, p) THEN disk[p] ELSE Absent]

\* WorkingTree::listed.
Changed(from, target) == {p \in Paths : from[p] # target[p]}

------------------------------------------------------------------------------
(* WorkingTree::revertable. *)

\* is_repository and holds_repository, without following links.
IsRepository(p) == disk[p] \in Repositories
HoldsRepository(p) == \E q \in {p} \cup Below(p) : IsRepository(q)

\* Mutant: only repositories a snapshot records are left alone.
RepositoryNear_recorded(p, known) == IF Below(p) \cap known # {} THEN {p} ELSE Above(p) \cap known

\* WorkingTree::repository_near: the folder above that is a repository or known to be left alone,
\* else the path itself when a repository is at or below it.  A file in a folder's place hides none.
RepositoryNear(p, known) ==
  LET above == {q \in Above(p) : q \in known \/ IsRepository(q)}
      blocked == \E q \in Above(p) : q \notin known /\ disk[q] # Dir /\ ~IsRepository(q) IN
  IF above # {} THEN above
  ELSE IF ~blocked /\ (Below(p) \cap known # {} \/ HoldsRepository(p)) THEN {p}
  ELSE {}

\* The changes to make, those kept, and the paths left alone; a folder left alone keeps its entries.
Revertable(from, target) ==
  LET changed == Changed(from, target) \cap within
      recorded == {p \in changed : from[p] = Repository \/ target[p] = Repository}
      folder == IF "f" \in changed \ recorded THEN RepositoryNear("f", recorded) ELSE {}
      known == recorded \cup folder
      kept == {p \in changed \ recorded : RepositoryNear(p, known) # {}} IN
  [changes |-> changed \ (recorded \cup kept),
   kept |-> recorded \cup kept,
   leftAlone |-> known \cup UNION {RepositoryNear(p, known) : p \in kept}]

------------------------------------------------------------------------------
(* The plan. *)

\* Mutant: ignored files that a returning file replaces go unnamed.
InTheWay_unnamed(changes, now) == [replaced |-> {}, removed |-> {}, folders |-> {}]

\* WorkingTree::in_the_way: what Git ignores where files return.
InTheWay(changes, now) ==
  LET added == {p \in changes : now[p] = Absent} IN
  [replaced |-> {p \in added : disk[p] \notin {Dir, Absent}},
   removed |-> {q \in UNION {Above(p) : p \in added} : disk[q] \notin {Dir, Absent} /\ q \notin changes},
   folders |-> {p \in added : disk[p] = Dir /\ \E q \in Below(p) : disk[q] # Absent /\ q \in ignored}]

\* Checkpoints::revert_plan.
RevertPlan ==
  /\ revert.pc = "idle" /\ ~plan.shown
  /\ LET now == Capture({})
         revertable == Revertable(now, to)
         way == InTheWay(revertable.changes, now) IN
     plan' = [shown |-> TRUE, folders |-> way.folders,
              files |-> revertable.changes \cup revertable.kept \cup way.replaced \cup way.removed]
  /\ UNCHANGED <<disk, ignored, tracked, within, to, revert>>

------------------------------------------------------------------------------
(* WorkingTree::restore. *)

\* `git restore` of the paths `ps` to the checkpoint: what is at a path it writes goes, a folder
\* with all it holds, and a file where the path's folder is; a folder left empty goes too.
Restored(ps) ==
  LET written == {p \in ps : to[p] # Absent}
      gone == (ps \ written) \cup UNION {Below(p) \cup Above(p) : p \in written}
      d == [p \in Paths |-> IF p \in written THEN to[p] ELSE IF p \in gone THEN Absent ELSE disk[p]] IN
  [d EXCEPT !["f"] = IF \E p \in Below("f") : d[p] # Absent THEN Dir ELSE IF @ = Dir THEN Absent ELSE @]

\* All of it; or Git stops on the way, or cannot delete a file and only warns.
Restore ==
  /\ revert.pc = "idle"
  /\ LET changes == Revertable(Capture({}), to).changes IN
     \/ /\ changes = {}
        /\ revert' = [pc |-> "ok", before |-> disk, left |-> {}]
        /\ UNCHANGED disk
     \/ /\ changes # {}
        /\ \E ps \in SUBSET changes :
             /\ disk' = Restored(ps)
             /\ \/ /\ changes \ ps \subseteq {p \in changes : to[p] = Absent}
                   /\ revert' = [pc |-> "verify", before |-> disk, left |-> changes]
                \/ revert' = [pc |-> "failed", before |-> disk, left |-> {}]
  /\ UNCHANGED <<ignored, tracked, within, to, plan>>

\* Mutant: the result is read without the files Git ignores by now.
Written_none(changes) == {}

\* The files written, which count even where Git ignores them by now.
Written(changes) == {p \in changes : disk[p] # Absent}

\* Git only warns, so the result is read again.
Verify ==
  /\ revert.pc = "verify"
  /\ LET left == Revertable(Capture(Written(revert.left)), to).changes IN
     revert' = [revert EXCEPT !.pc = IF left = {} THEN "ok" ELSE "not_reverted", !.left = left]
  /\ UNCHANGED <<disk, ignored, tracked, within, to, plan>>

------------------------------------------------------------------------------
\* The checkpoint of some state of the checkout.
Init ==
  /\ disk \in Disks
  /\ ignored \in Ignores
  /\ tracked \in SUBSET {p \in Paths : disk[p] \in Files}
  /\ within \in {Paths} \cup {Below(p) : p \in {q \in Paths : disk[q] = Dir}}
  /\ to = Capture({})
  /\ plan = NoPlan
  /\ revert = NoRevert

\* A turn and the user change the files, and what Git ignores.
Edit ==
  /\ revert.pc = "idle" /\ ~plan.shown
  /\ disk' \in Disks
  /\ ignored' \in Ignores
  /\ UNCHANGED <<tracked, within, to, plan, revert>>

Next == Edit \/ RevertPlan \/ Restore \/ Verify

Spec == Init /\ [][Next]_vars

------------------------------------------------------------------------------
\* A repository is or was at the path, below it or above it, or below a file that took or takes
\* the place of its folder.
NearRepository(p) ==
  LET at == {q \in Paths : IsRepository(q) \/ to[q] = Repository} IN
  \/ at \cap ({p} \cup Below(p) \cup Above(p)) # {}
  \/ \E q \in Above(p) : {to[q], disk[q]} \cap Files # {} /\ at \cap Below(q) # {}

\* A revert that reports success put every file below the working folder back as the checkpoint
\* has it, and left no other that Git does not ignore, save near repositories; one that reports
\* files not reverted names only files that really differ.
RevertTruthful ==
  /\ revert.pc = "ok" =>
       \A p \in within :
         ~NearRepository(p) =>
           /\ to[p] # Absent => disk[p] = to[p]
           /\ to[p] = Absent /\ disk[p] \in Files => p \in ignored \ tracked
  /\ revert.pc = "not_reverted" => \A p \in revert.left : disk[p] # to[p]

\* No revert touches a nested repository, recorded or not, not even by replacing a folder above
\* it, whether it ends well or not.
RepositoriesKept ==
  revert.pc # "idle" =>
    \A p \in Paths : revert.before[p] \in Repositories => disk[p] = revert.before[p]

\* What a revert changes on disk its plan named, shown for the same files: a user who reads the
\* plan knows of every file it writes or deletes, those Git ignores included.
PlanNamesAll ==
  plan.shown /\ revert.pc # "idle" =>
    \A p \in Paths :
      disk[p] # revert.before[p] /\ {disk[p], revert.before[p]} \cap Files # {} =>
        p \in plan.files \/ \E q \in plan.folders : p \in Below(q)

==============================================================================

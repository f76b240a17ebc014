------------------------------- MODULE Stashes -------------------------------
(***************************************************************************)
(* Where uncommitted work goes when a window switches branches, restores   *)
(* or discards a stash, or commits (meta-harness-core, diff/branches.rs,   *)
(* diff/stash.rs, diff/commit.rs).                                         *)
(*                                                                         *)
(* Windows are linked worktrees of one repository: each has its HEAD and   *)
(* its uncommitted edits, and all share the branches and the stash list.   *)
(* Work is a set of edits, a commit's tree the set of edits it holds.      *)
(* Each Git command is one step, may fail, and may meet what another Git   *)
(* did since the last one; only Liquid's windows hold stash.lock.          *)
(***************************************************************************)
EXTENDS Naturals, Sequences, SequencesExt, FiniteSets

CONSTANTS
  Windows,
  Branches,
  NewBranch,  \* the branch a commit or the user may create
  MaxEdits,   \* edits made in all
  Calls,      \* calls asked of Liquid
  Scenes,     \* which windows are open, and how many commands another Git runs
  DropTries   \* DROP_TRIES

VARIABLES
  head,     \* window -> its branch
  tips,     \* branch -> the edits committed on it
  work,     \* window -> its uncommitted edits
  stashes,  \* Git's stash list, newest first
  shown,    \* window -> the branch, the stash and the edits Liquid last showed
  call,     \* window -> the call in progress
  lock,     \* the windows holding stash.lock
  given,    \* edits whose loss a user confirmed
  count     \* edits, stashes and calls so far, whether NewBranch exists, what of the scene is left,
            \* whether another Git changed the stash list, and edits a wrong drop stranded

vars == <<head, tips, work, stashes, shown, call, lock, given, count>>

None == "none"
NoStash == 0
Edits == 1..MaxEdits

NoCall == [op |-> None, pc |-> "idle", to |-> None, start |-> <<None, {}>>, earlier |-> NoStash, left |-> NoStash,
           id |-> NoStash, place |-> 0, tries |-> 0, moved |-> FALSE, committed |-> FALSE,
           selected |-> {}, result |-> None]

Init ==
  /\ head \in [Windows -> Branches]
  /\ \A v, w \in Windows : v # w => head[v] # head[w]
  /\ tips = [b \in Branches \cup {NewBranch} |-> {}]
  /\ work = [w \in Windows |-> {}]
  /\ stashes = <<>>
  /\ shown = [w \in Windows |-> [branch |-> head[w], stash |-> NoStash, work |-> {}]]
  /\ call = [w \in Windows |-> NoCall]
  /\ lock = {}
  /\ given = {}
  /\ \E scene \in Scenes :
       count = [edits |-> 0, stashes |-> 0, calls |-> 0, created |-> FALSE, open |-> scene.open, external |-> scene.external,
                shifted |-> FALSE, stranded |-> {}]

------------------------------------------------------------------------------
(* The stash list. *)

\* The entries Liquid left for a branch, by their places.
StashesOf(branch) == {i \in DOMAIN stashes : stashes[i].branch = branch}

\* WorkingTree::stash_entry: the first entry for the branch checked out, or none.
StashEntry(w) ==
  LET found == StashesOf(head[w]) IN
  IF found = {} THEN NoStash ELSE stashes[CHOOSE i \in found : \A j \in found : i <= j].id

Listed(id) == \E i \in DOMAIN stashes : stashes[i].id = id
PlaceOf(id) == CHOOSE i \in DOMAIN stashes : stashes[i].id = id
Stash(id) == stashes[PlaceOf(id)]

\* An entry on top, for the branch, or the user's own.
Push(w, branch) ==
  /\ stashes' = <<[id |-> count.stashes + 1, branch |-> branch, edits |-> work[w], base |-> tips[head[w]]]>> \o stashes
  /\ count' = [count EXCEPT !.stashes = @ + 1]

------------------------------------------------------------------------------
(* The user's editor, the list Liquid shows, and another Git. *)

Edit(w) ==
  /\ count.edits < MaxEdits
  /\ work' = [work EXCEPT ![w] = @ \cup {count.edits + 1}]
  /\ count' = [count EXCEPT !.edits = @ + 1]
  /\ UNCHANGED <<head, tips, stashes, shown, call, lock, given>>

\* Checkpoints::status_with_stash and commit_plan.
Refresh(w) ==
  /\ call[w].pc = "idle"
  /\ shown' = [shown EXCEPT ![w] = [branch |-> head[w], stash |-> StashEntry(w), work |-> work[w]]]
  /\ UNCHANGED <<head, tips, work, stashes, call, lock, given, count>>

\* In a terminal: `git stash`, dropping a stash of the user's own, switching, committing.
ExternalGit(w) ==
  /\ count.external > 0
  /\ \/ /\ work[w] # {}
        /\ stashes' = <<[id |-> count.stashes + 1, branch |-> None, edits |-> work[w], base |-> tips[head[w]]]>> \o stashes
        /\ work' = [work EXCEPT ![w] = {}]
        /\ count' = [count EXCEPT !.stashes = @ + 1, !.external = @ - 1, !.shifted = TRUE]
        /\ UNCHANGED <<head, tips, given>>
     \/ /\ \E i \in DOMAIN stashes :
             /\ stashes[i].branch = None
             /\ stashes' = RemoveAt(stashes, i)
             /\ given' = given \cup stashes[i].edits
        /\ count' = [count EXCEPT !.external = @ - 1, !.shifted = TRUE]
        /\ UNCHANGED <<head, tips, work>>
     \/ /\ \E b \in Branches : (\A v \in Windows : head[v] # b) /\ head' = [head EXCEPT ![w] = b]
        /\ count' = [count EXCEPT !.external = @ - 1]
        /\ UNCHANGED <<tips, work, stashes, given>>
     \/ /\ work[w] # {}
        /\ tips' = [tips EXCEPT ![head[w]] = @ \cup work[w]]
        /\ work' = [work EXCEPT ![w] = {}]
        /\ count' = [count EXCEPT !.external = @ - 1]
        /\ UNCHANGED <<head, stashes, given>>
  /\ UNCHANGED <<shown, call, lock>>

------------------------------------------------------------------------------
(* Calls. *)

\* The call moves on.
Goto(w, pc) == call' = [call EXCEPT ![w].pc = pc]

\* The call ends with `result`, and its locks drop.
Return(w, result) ==
  /\ call' = [call EXCEPT ![w] = [NoCall EXCEPT !.op = call[w].op, !.moved = call[w].moved, !.pc = "done", !.result = result]]
  /\ lock' = lock \ {w}

Begin(w) ==
  /\ call[w].pc = "idle" /\ count.calls < Calls
  /\ \E op \in {"leave", "bring", "create", "restore", "discard", "commit", "commit_on"}, to \in Branches \cup {NewBranch} :
       /\ op \in {"leave", "bring"} => to \in Branches /\ \A v \in Windows : head[v] # to
       /\ op \notin {"leave", "bring"} => to = NewBranch
       /\ op \in {"restore", "discard"} => shown[w].stash # NoStash
       /\ \E selected \in (IF op \in {"commit", "commit_on"} THEN SUBSET shown[w].work \ {{}} ELSE {{}}) :
            call' = [call EXCEPT ![w] = [NoCall EXCEPT !.op = op, !.to = to, !.selected = selected, !.id = shown[w].stash,
                       !.pc = CASE op \in {"bring", "create"} -> "head"
                                [] op \in {"commit", "commit_on"} -> "check_commit"
                                [] OTHER -> "lock"]]
  /\ count' = [count EXCEPT !.calls = @ + 1]
  /\ UNCHANGED <<head, tips, work, stashes, shown, lock, given>>

\* Checkout::stash_alone.
StashAlone(w) ==
  /\ call[w].pc = "lock" /\ lock = {}
  /\ lock' = {w}
  /\ Goto(w, IF call[w].op = "leave" THEN "head" ELSE "check")
  /\ UNCHANGED <<head, tips, work, stashes, shown, given, count>>

\* WorkingTree::head.
ReadHead(w) ==
  /\ call[w].pc = "head"
  /\ call' = [call EXCEPT ![w].start = <<head[w], tips[head[w]]>>,
                          ![w].pc = IF call[w].op = "leave" THEN "check" ELSE "switch"]
  /\ UNCHANGED <<head, tips, work, stashes, shown, lock, given, count>>

\* Mutant: the stash found is replaced, whichever one the user saw.
CheckLeave_unseen(w) ==
  /\ call[w].pc = "check" /\ call[w].op = "leave"
  /\ IF head[w] = shown[w].branch
     THEN call' = [call EXCEPT ![w].earlier = StashEntry(w), ![w].pc = "push"] /\ UNCHANGED lock
     ELSE Return(w, "refused")
  /\ UNCHANGED <<head, tips, work, stashes, shown, given, count>>

\* The branch and its stash must be the ones the user confirmed.
CheckLeave(w) ==
  /\ call[w].pc = "check" /\ call[w].op = "leave"
  /\ IF head[w] = shown[w].branch /\ StashEntry(w) = shown[w].stash
     THEN call' = [call EXCEPT ![w].earlier = shown[w].stash, ![w].pc = "push"] /\ UNCHANGED lock
     ELSE Return(w, "refused")
  /\ UNCHANGED <<head, tips, work, stashes, shown, given, count>>

\* WorkingTree::push_stash: refused for what a stash would lose or leave behind; Git may also fail
\* before it saved the changes, or after it saved them and before it reset the files.
PushStash(w) ==
  /\ call[w].pc = "push"
  /\ \/ /\ work[w] = {}
        /\ Goto(w, "switch") /\ UNCHANGED <<work, stashes, count, lock>>
     \/ /\ work[w] # {}
        /\ Push(w, head[w])
        /\ \/ /\ work' = [work EXCEPT ![w] = {}]
              /\ call' = [call EXCEPT ![w].left = count.stashes + 1, ![w].pc = "identify"]
              /\ UNCHANGED lock
           \/ UNCHANGED work /\ Return(w, "failed")
     \/ Return(w, "refused") /\ UNCHANGED <<work, stashes, count>>
  /\ UNCHANGED <<head, tips, shown, given>>

\* The entry with this operation's mark, unless another Git took it away.
Identify(w) ==
  /\ call[w].pc = "identify"
  /\ IF Listed(call[w].left) THEN Goto(w, "switch") /\ UNCHANGED lock ELSE Return(w, "unidentified")
  /\ UNCHANGED <<head, tips, work, stashes, shown, given, count>>

\* `git switch`: it moves, it moves and a hook fails, or it refuses.
GitSwitch(w) ==
  /\ call[w].pc = "switch"
  /\ \/ /\ \A v \in Windows \ {w} : head[v] # call[w].to
        /\ call[w].to = NewBranch => ~count.created
        /\ head' = [head EXCEPT ![w] = call[w].to]
        /\ tips' = IF call[w].to = NewBranch THEN [tips EXCEPT ![NewBranch] = tips[head[w]]] ELSE tips
        /\ count' = [count EXCEPT !.created = @ \/ call[w].to = NewBranch]
        /\ \E hook \in {"ok", "hook"} :
             call' = [call EXCEPT ![w].moved = TRUE, ![w].result = hook,
                                  ![w].pc = IF hook = "ok" THEN "switched" ELSE "arrived"]
     \/ /\ call' = [call EXCEPT ![w].pc = "arrived"]
        /\ UNCHANGED <<head, tips, count>>
  /\ UNCHANGED <<work, stashes, shown, lock, given>>

\* After an error, only arrival on the requested branch counts as a switch.
Arrived(w) ==
  /\ call[w].pc = "arrived"
  /\ LET arrived == head[w] # call[w].start[1] /\ head[w] = call[w].to IN
     call' = [call EXCEPT ![w].pc = "switched", ![w].result = IF arrived THEN "hook" ELSE "refused"]
  /\ UNCHANGED <<head, tips, work, stashes, shown, lock, given, count>>

\* Mutant: the commit is made also when its branch was refused.
Switched_anyway(w) ==
  /\ call[w].pc = "switched"
  /\ LET c == call[w] IN
     CASE c.op = "commit_on" /\ c.result # "hook" -> Goto(w, "commit") /\ UNCHANGED lock
       [] c.op = "commit_on" /\ c.result = "hook" -> Return(w, "commit_branch_failed")
       [] c.result = "refused" /\ c.left # NoStash ->
            IF <<head[w], tips[head[w]]>> # c.start THEN Return(w, "moved_meanwhile")
            ELSE /\ call' = [call EXCEPT ![w].id = c.left, ![w].pc = "listed"]
                 /\ UNCHANGED lock
       [] c.result # "refused" /\ c.left # NoStash /\ c.earlier \notin {NoStash, c.left} ->
            /\ call' = [call EXCEPT ![w].id = c.earlier, ![w].pc = "place"]
            /\ UNCHANGED lock
       [] OTHER -> Return(w, c.result)
  /\ UNCHANGED <<head, tips, work, stashes, shown, given, count>>

\* What follows a switch: the commit on the new branch, the rollback of a refused one, or dropping
\* the stash the new one replaces.
Switched(w) ==
  /\ call[w].pc = "switched"
  /\ LET c == call[w] IN
     CASE c.op = "commit_on" /\ c.result = "ok" -> Goto(w, "commit") /\ UNCHANGED lock
       [] c.op = "commit_on" /\ c.result = "hook" -> Return(w, "commit_branch_failed")
       [] c.result = "refused" /\ c.left # NoStash ->
            IF <<head[w], tips[head[w]]>> # c.start THEN Return(w, "moved_meanwhile")
            ELSE /\ call' = [call EXCEPT ![w].id = c.left, ![w].pc = "listed"]
                 /\ UNCHANGED lock
       [] c.result # "refused" /\ c.left # NoStash /\ c.earlier \notin {NoStash, c.left} ->
            /\ call' = [call EXCEPT ![w].id = c.earlier, ![w].pc = "place"]
            /\ UNCHANGED lock
       [] OTHER -> Return(w, c.result)
  /\ UNCHANGED <<head, tips, work, stashes, shown, given, count>>

------------------------------------------------------------------------------
(* WorkingTree::restore_stash, discard_stash, pop, apply_stash and drop_stash. *)

\* Restoring asks for the stash of the branch checked out, discarding for any of Liquid's.
CheckStash(w) ==
  /\ call[w].pc = "check" /\ call[w].op \in {"restore", "discard"}
  /\ IF IF call[w].op = "restore" THEN StashEntry(w) = call[w].id
        ELSE \E i \in DOMAIN stashes : stashes[i].id = call[w].id /\ stashes[i].branch # None
     THEN Goto(w, IF call[w].op = "restore" THEN "listed" ELSE "place") /\ UNCHANGED lock
     ELSE Return(w, "no_stash")
  /\ UNCHANGED <<head, tips, work, stashes, shown, given, count>>

\* Pop finds the stash in the list before it applies it; its trees are read by its id.
Listing(w) ==
  /\ call[w].pc = "listed"
  /\ IF Listed(call[w].id)
     THEN /\ call' = [call EXCEPT ![w].pc = "apply_check", ![w].selected = Stash(call[w].id).edits,
                                  ![w].start = <<head[w], Stash(call[w].id).base>>]
          /\ UNCHANGED lock
     ELSE Return(w, "no_stash")
  /\ UNCHANGED <<head, tips, work, stashes, shown, given, count>>

\* Only into a checkout without changes, at the tree the changes were left on.
CheckApply(w) ==
  /\ call[w].pc = "apply_check"
  /\ \/ /\ work[w] = {} /\ tips[head[w]] = call[w].start[2]
        /\ Goto(w, "apply") /\ UNCHANGED lock
     \/ work[w] # {} /\ Return(w, "uncommitted")
     \/ tips[head[w]] # call[w].start[2] /\ Return(w, "branch_moved")
     \/ Return(w, "would_overwrite")
  /\ UNCHANGED <<head, tips, work, stashes, shown, given, count>>

\* Mutant: a stash applied only in part is dropped too.
Apply_partly(w) ==
  /\ call[w].pc = "apply"
  /\ \E applied \in SUBSET call[w].selected :
       work' = [work EXCEPT ![w] = @ \cup applied]
  /\ Goto(w, "place")
  /\ UNCHANGED <<head, tips, stashes, shown, lock, given, count>>

\* `git stash apply --index`: all of it, or an error with some of it restored.
Apply(w) ==
  /\ call[w].pc = "apply"
  /\ \/ /\ work' = [work EXCEPT ![w] = @ \cup call[w].selected]
        /\ Goto(w, "place") /\ UNCHANGED lock
     \/ \E applied \in SUBSET call[w].selected :
          /\ work' = [work EXCEPT ![w] = @ \cup applied]
          /\ Return(w, "kept")
  /\ UNCHANGED <<head, tips, stashes, shown, given, count>>

\* Git drops a stash by its place, found just before.
FindPlace(w) ==
  /\ call[w].pc = "place"
  /\ IF Listed(call[w].id)
     THEN call' = [call EXCEPT ![w].place = PlaceOf(call[w].id), ![w].pc = "drop"] /\ UNCHANGED lock
     ELSE Return(w, "no_stash")
  /\ UNCHANGED <<head, tips, work, stashes, shown, given, count>>

\* How a call ends whose stash is gone.
Outcome(c) == IF c.op \in {"leave", "bring", "create"} THEN c.result ELSE "ok"

\* Mutant: whatever was at the place counts as the stash.
Drop_blind(w) ==
  /\ call[w].pc = "drop"
  /\ IF call[w].place \in DOMAIN stashes
     THEN LET dropped == stashes[call[w].place] IN
          /\ stashes' = RemoveAt(stashes, call[w].place)
          /\ given' = IF dropped.id = shown[w].stash THEN given \cup dropped.edits ELSE given
          /\ Return(w, Outcome(call[w]))
     ELSE Return(w, "failed") /\ UNCHANGED <<stashes, given>>
  /\ UNCHANGED <<head, tips, work, shown, count>>

\* One dropped that is not the call's goes back into the list, and the drop tries again.
Drop(w) ==
  /\ call[w].pc = "drop"
  /\ IF call[w].place \in DOMAIN stashes
     THEN LET dropped == stashes[call[w].place] IN
          /\ stashes' = RemoveAt(stashes, call[w].place)
          /\ IF dropped.id = call[w].id
             THEN /\ given' = IF call[w].op \in {"leave", "discard"} /\ dropped.id = shown[w].stash
                              THEN given \cup dropped.edits ELSE given
                  /\ Return(w, Outcome(call[w]))
             ELSE /\ call' = [call EXCEPT ![w].start = <<dropped, {}>>, ![w].pc = "store"]
                  /\ UNCHANGED <<given, lock>>
     ELSE Return(w, "failed") /\ UNCHANGED <<stashes, given>>
  /\ UNCHANGED <<head, tips, work, shown, count>>

\* `git log` for its subject and `git stash store`; when one of them fails, the stash is in no list.
Store(w) ==
  /\ call[w].pc = "store"
  /\ \/ /\ stashes' = <<call[w].start[1]>> \o stashes
        /\ IF call[w].tries + 1 < DropTries
           THEN call' = [call EXCEPT ![w].tries = @ + 1, ![w].pc = "place"] /\ UNCHANGED lock
           ELSE Return(w, "kept_changing")
        /\ UNCHANGED count
     \/ /\ count' = [count EXCEPT !.stranded = @ \cup call[w].start[1].edits]
        /\ Return(w, "failed") /\ UNCHANGED stashes
  /\ UNCHANGED <<head, tips, work, shown, given>>

------------------------------------------------------------------------------
(* WorkingTree::commit. *)

\* The files must still be as they were shown; a merge or a detached HEAD refuses too.
CheckCommit(w) ==
  /\ call[w].pc = "check_commit"
  /\ \/ /\ call[w].selected \subseteq work[w]
        /\ IF call[w].op = "commit" THEN Goto(w, "commit")
           ELSE call' = [call EXCEPT ![w].start = <<head[w], tips[head[w]]>>, ![w].pc = "switch"]
        /\ UNCHANGED lock
     \/ Return(w, "refused")
  /\ UNCHANGED <<head, tips, work, stashes, shown, given, count>>

\* `git commit --only` with the user's hooks; what was already committed meanwhile is not there.
Commit(w) ==
  /\ call[w].pc = "commit"
  /\ \/ /\ tips' = [tips EXCEPT ![head[w]] = @ \cup (call[w].selected \cap work[w])]
        /\ work' = [work EXCEPT ![w] = @ \ call[w].selected]
        /\ call' = [call EXCEPT ![w] = [NoCall EXCEPT !.op = call[w].op, !.moved = call[w].moved, !.committed = TRUE,
                                                      !.pc = "done", !.result = "ok"]]
        /\ UNCHANGED lock
     \/ /\ Return(w, IF call[w].op = "commit" THEN "commit_failed" ELSE "commit_branch_failed")
        /\ UNCHANGED <<tips, work>>
  /\ UNCHANGED <<head, stashes, shown, given, count>>

Finish(w) ==
  /\ call[w].pc = "done"
  /\ call' = [call EXCEPT ![w] = NoCall]
  /\ UNCHANGED <<head, tips, work, stashes, shown, lock, given, count>>

------------------------------------------------------------------------------
Step(w) ==
  \/ StashAlone(w) \/ ReadHead(w) \/ CheckLeave(w) \/ PushStash(w) \/ Identify(w)
  \/ GitSwitch(w) \/ Arrived(w) \/ Switched(w)
  \/ CheckStash(w) \/ Listing(w) \/ CheckApply(w) \/ Apply(w)
  \/ FindPlace(w) \/ Drop(w) \/ Store(w)
  \/ CheckCommit(w) \/ Commit(w) \/ Finish(w)

Next ==
  \E w \in count.open : Edit(w) \/ Refresh(w) \/ ExternalGit(w) \/ Begin(w) \/ Step(w)

Spec == Init /\ [][Next]_vars

------------------------------------------------------------------------------
\* A stash between a drop that took the wrong one and its return to the list.
InHand == {e \in Edits : \E w \in Windows : call[w].pc = "store" /\ e \in call[w].start[1].edits}

\* Every edit whose loss no user confirmed is in a checkout, a stash or a commit: through a switch
\* that fails at any command and its rollback, a restore that stops halfway, and drops by place.
\* One stash can end in none of them, and only when another Git shifted the stash list: the one
\* dropped in place of the call's own, when Git then fails to put it back (drop_stash).  The
\* windows alone never get there, whatever fails, because stash.lock keeps them apart.
WorkKept ==
  /\ \A e \in (1..count.edits) \ given :
       \/ \E w \in Windows : e \in work[w]
       \/ \E i \in DOMAIN stashes : e \in stashes[i].edits
       \/ \E b \in Branches \cup {NewBranch} : e \in tips[b]
       \/ e \in InHand \cup count.stranded
  /\ InHand \cup count.stranded # {} => count.shifted

\* What a call says is what it did: a switch or commit reported done was made by this call, a
\* commit reported failed was not made, and a failed commit that names its new branch created it.
OutcomeTruthful ==
  \A w \in Windows :
    call[w].pc = "done" =>
      /\ call[w].op \in {"leave", "bring", "create"} /\ call[w].result = "ok" => call[w].moved
      /\ call[w].op \in {"commit", "commit_on"} => (call[w].result = "ok" <=> call[w].committed)
      /\ call[w].result = "commit_branch_failed" => call[w].moved

==============================================================================

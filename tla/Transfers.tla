------------------------------ MODULE Transfers ------------------------------
(***************************************************************************)
(* Pushing, pulling and creating pull requests (meta-harness-core,         *)
(* diff/sync.rs, diff/pulls.rs, diff/branches.rs and checkpoint/git.rs;    *)
(* liquid-bridge, api/git.rs).                                             *)
(*                                                                         *)
(* Windows share one checkout.  A branch is the set of its commits, so a   *)
(* fast-forward is inclusion.  A push holds no lock: between any two of    *)
(* its commands the user commits or switches in a terminal, others push,   *)
(* and GitHub changes its default branch.  A request to GitHub may be      *)
(* carried out after its caller gave up.                                   *)
(***************************************************************************)
EXTENDS Naturals

CONSTANTS
  Windows,
  Branches,    \* names of branches, local and on the remote
  Upstreams,   \* the configurations of upstreams to begin with
  MaxCommits,
  Scenes       \* which windows are open, how many calls they make and how many steps others take

VARIABLES
  head,        \* the branch checked out
  tips,        \* local branch -> its commits
  upstream,    \* local branch -> the branch it follows on the remote, or None
  tracking,    \* remote branch -> its commits as last fetched, or Gone
  remote,      \* remote branch -> its commits, or Gone
  default,     \* the remote's default branch, as cloned and now
  pulls,       \* open pull requests: their head, their base and the request that made them
  made,        \* requests that made a pull request
  wire,        \* requests GitHub has not carried out or refused yet
  call,        \* window -> the call in progress
  approved,    \* default-branch pushes a user confirmed
  lock,        \* the window holding the checkout alone
  count        \* commits and calls so far, and what of the scene is left

vars == <<head, tips, upstream, tracking, remote, default, pulls, made, wire, call, approved, lock, count>>

None == "none"
Gone == {0}
NoTransfer == [branch |-> None, reference |-> None, commit |-> {}]
NoCall == [op |-> None, pc |-> "idle", id |-> 0, transfer |-> NoTransfer, confirmed |-> NoTransfer, firstPush |-> FALSE,
           asDefault |-> FALSE, draft |-> NoTransfer, base |-> None, put |-> Gone, result |-> None]

Init ==
  /\ head \in Branches
  /\ tips = [b \in Branches |-> {}]
  /\ upstream \in Upstreams
  /\ remote \in [Branches -> {{}, Gone}]
  /\ tracking = remote
  /\ default \in {[known |-> b, now |-> b] : b \in {c \in Branches : remote[c] # Gone}}
  /\ pulls = {}
  /\ made = {}
  /\ wire = {}
  /\ call = [w \in Windows |-> NoCall]
  /\ approved = {}
  /\ lock = None
  /\ \E scene \in Scenes :
       count = [commits |-> 0, called |-> 0, open |-> scene.open, calls |-> scene.calls, external |-> scene.external]

------------------------------------------------------------------------------
(* Others: the user in a terminal, colleagues, GitHub. *)

CommitOn(branches) ==
  /\ count.commits < MaxCommits
  /\ count' = [count EXCEPT !.commits = @ + 1]
  /\ branches

InTerminal ==
  /\ \/ /\ CommitOn(tips' = [tips EXCEPT ![head] = @ \cup {count.commits + 1}])
        /\ UNCHANGED head
     \/ /\ count.external > 0
        /\ head' \in Branches \ {head}
        /\ count' = [count EXCEPT !.external = @ - 1]
        /\ UNCHANGED tips
  /\ UNCHANGED <<upstream, tracking, remote, default, pulls, made, wire, call, approved, lock>>

OnRemote ==
  /\ count.external > 0
  /\ \/ /\ \E b \in Branches :
             /\ remote[b] # Gone
             /\ count.commits < MaxCommits
             /\ remote' = [remote EXCEPT ![b] = @ \cup {count.commits + 1}]
        /\ count' = [count EXCEPT !.commits = @ + 1, !.external = @ - 1]
        /\ UNCHANGED <<default, pulls>>
     \/ /\ \E b \in Branches : remote[b] # Gone /\ b # default.now /\ default' = [default EXCEPT !.now = b]
        /\ count' = [count EXCEPT !.external = @ - 1]
        /\ UNCHANGED <<remote, pulls>>
     \/ /\ \E p \in pulls : pulls' = pulls \ {p}
        /\ count' = [count EXCEPT !.external = @ - 1]
        /\ UNCHANGED <<remote, default>>
  /\ UNCHANGED <<head, tips, upstream, tracking, made, wire, call, approved, lock>>

------------------------------------------------------------------------------
(* Calls. *)

Goto(w, pc) == call' = [call EXCEPT ![w].pc = pc]

Return(w, result) ==
  /\ call' = [call EXCEPT ![w].pc = "done", ![w].result = result]
  /\ lock' = IF lock = w THEN None ELSE lock

\* What a window still knows after a call: the transfer it asked about, or the plan it showed.
Finish(w) ==
  /\ call[w].pc = "done"
  /\ call' = [call EXCEPT ![w] = [NoCall EXCEPT
       !.transfer = IF call[w].result = "push_default" THEN call[w].transfer ELSE NoTransfer,
       !.draft = IF call[w].op = "plan" /\ call[w].result = "ok" THEN call[w].transfer ELSE NoTransfer,
       !.base = IF call[w].op = "plan" /\ call[w].result = "ok" THEN call[w].base ELSE None]]
  /\ UNCHANGED <<head, tips, upstream, tracking, remote, default, pulls, made, wire, approved, lock, count>>

\* A push, also one the user confirmed; a pull; a plan for a pull request, and its creation.
Begin(w) ==
  /\ call[w].pc = "idle" /\ count.calls > 0
  /\ \E op \in {"push", "confirmed", "pull", "plan", "create"} :
       /\ op = "confirmed" => call[w].transfer # NoTransfer
       /\ op = "create" => call[w].draft # NoTransfer
       /\ call' = [call EXCEPT ![w] = [NoCall EXCEPT !.op = IF op = "confirmed" THEN "push" ELSE op,
                    !.pc = IF op = "pull" THEN "alone" ELSE "destination", !.id = count.called + 1,
                    !.confirmed = IF op = "confirmed" THEN call[w].transfer ELSE NoTransfer,
                    !.draft = IF op = "create" THEN call[w].draft ELSE NoTransfer,
                    !.base = IF op = "create" THEN call[w].base ELSE None]]
       /\ approved' = IF op = "confirmed" THEN approved \cup {call[w].transfer} ELSE approved
  /\ count' = [count EXCEPT !.called = @ + 1, !.calls = @ - 1]
  /\ UNCHANGED <<head, tips, upstream, tracking, remote, default, pulls, made, wire, lock>>

\* WorkingTree::destination_of: the upstream, else the branch's own name.
DestinationOf(b) ==
  [branch |-> b, reference |-> IF upstream[b] = None THEN b ELSE upstream[b], commit |-> tips[b]]

\* check_pull_status: the upstream must be there, as last fetched.
Pullable(t) == upstream[t.branch] # None /\ tracking[t.reference] # Gone

\* WorkingTree::pushed_head: the branch is neither ahead of nor behind its upstream.
PushedHead(t) == upstream[t.branch] # None /\ tracking[t.reference] = t.commit

\* WorkingTree::status and the destination it gives.  A merge in progress, no commit or remote, and
\* a remote that fetches from another repository than it pushes to refuse the call too.
Destination(w) ==
  /\ call[w].pc = "destination"
  /\ LET t == DestinationOf(head)
         op == call[w].op IN
     \/ /\ op = "pull" => Pullable(t)
        /\ op \in {"plan", "create"} => PushedHead(t)
        /\ call' = [call EXCEPT ![w].transfer = t, ![w].firstPush = (upstream[head] = None),
                                ![w].pc = IF op \in {"push", "pull"} THEN "fetch" ELSE "github"]
        /\ UNCHANGED lock
     \/ Return(w, "refused")
  /\ UNCHANGED <<head, tips, upstream, tracking, remote, default, pulls, made, wire, approved, count>>

\* WorkingTree::fetch_remote, one at a time and into refs/remotes only.
FetchTransfer(w) ==
  /\ call[w].pc = "fetch"
  /\ \/ /\ tracking' = remote
        /\ Goto(w, "advertised") /\ UNCHANGED lock
     \/ Return(w, "fetch_failed") /\ UNCHANGED tracking
  /\ UNCHANGED <<head, tips, upstream, remote, default, pulls, made, wire, approved, count>>

------------------------------------------------------------------------------
(* Push. *)

\* What `git ls-remote` says of the destination, and whether the branch lacks commits of it.
Advertised(t) == remote[t.reference]
Behind(t) == Advertised(t) # Gone /\ ~(Advertised(t) \subseteq t.commit)

\* Mutant: any confirmation will do.
Confirmed_any(w, t) == call[w].confirmed # NoTransfer \/ t.reference # default.now

\* A default branch, as cloned or as advertised, takes exactly what was confirmed, and a stale confirmation asks again.
Confirmed(w, t) ==
  /\ t.reference \in {default.known, default.now} => call[w].confirmed = t
  /\ call[w].confirmed \in {NoTransfer, t}

\* The rest of prepare_push: counts against the advertised destination, and the confirmation.
PreparePush(w) ==
  /\ call[w].pc = "advertised" /\ call[w].op = "push"
  /\ LET t == call[w].transfer IN
     \/ Behind(t) /\ Return(w, "diverged")
     \/ ~Behind(t) /\ ~Confirmed(w, t) /\ Return(w, "push_default")
     \/ /\ ~Behind(t) /\ Confirmed(w, t)
        /\ call' = [call EXCEPT ![w].pc = "push", ![w].asDefault = (t.reference = default.now)]
        /\ UNCHANGED lock
  /\ UNCHANGED <<head, tips, upstream, tracking, remote, default, pulls, made, wire, approved, count>>

\* Mutant: the branch is pushed as it is by now.
Pushed_branch(t) == tips[t.branch]

\* The captured commit, never the branch, which may have moved.
Pushed(t) == t.commit

\* `git push` without force: the remote takes it or rejects it, or the answer is lost.
GitPush(w) ==
  /\ call[w].pc = "push"
  /\ LET t == call[w].transfer
         r == t.reference IN
     \/ /\ remote[r] = Gone \/ remote[r] \subseteq Pushed(t)
        /\ remote' = [remote EXCEPT ![r] = Pushed(t)]
        /\ tracking' = [tracking EXCEPT ![r] = Pushed(t)]
        /\ \E answer \in {"ok", "transfer_failed"} :
             call' = [call EXCEPT ![w].put = Pushed(t), ![w].result = answer,
                                  ![w].pc = IF answer = "ok" /\ call[w].firstPush THEN "track" ELSE "done"]
        /\ UNCHANGED lock
     \/ /\ remote[r] # Gone /\ ~(remote[r] \subseteq Pushed(t))
        /\ Goto(w, "refetch")
        /\ UNCHANGED <<remote, tracking, lock>>
     \/ Return(w, "transfer_failed") /\ UNCHANGED <<remote, tracking>>
  /\ UNCHANGED <<head, tips, upstream, default, pulls, made, wire, approved, count>>

\* A rejected push fetches again, to name the commits it lacks.
Refetch(w) ==
  /\ call[w].pc = "refetch"
  /\ \/ tracking' = remote /\ Return(w, "diverged")
     \/ UNCHANGED tracking /\ Return(w, "fetch_failed")
  /\ UNCHANGED <<head, tips, upstream, remote, default, pulls, made, wire, approved, count>>

\* Mutant: the branch checked out by now is the one to follow the destination.
Tracked_head(t) == head

\* Tracked is the branch captured, also when another one is checked out by now.
Tracked(t) == t.branch

TrackUpstream(w) ==
  /\ call[w].pc = "track"
  /\ \/ upstream' = [upstream EXCEPT ![Tracked(call[w].transfer)] = call[w].transfer.reference] /\ Return(w, "ok")
     \/ UNCHANGED upstream /\ Return(w, "transfer_failed")
  /\ UNCHANGED <<head, tips, tracking, remote, default, pulls, made, wire, approved, count>>

------------------------------------------------------------------------------
(* Pull. *)

\* Checkpoints::pull asks whether the checkout is free before it fetches.
CheckAlone(w) ==
  /\ call[w].pc = "alone"
  /\ IF lock = None THEN Goto(w, "destination") /\ UNCHANGED lock ELSE Return(w, "agent_running")
  /\ UNCHANGED <<head, tips, upstream, tracking, remote, default, pulls, made, wire, approved, count>>

\* The fetch must have updated the upstream it is about.
PreparePull(w) ==
  /\ call[w].pc = "advertised" /\ call[w].op = "pull"
  /\ LET there == Advertised(call[w].transfer) IN
     IF upstream[head] # None /\ tracking[upstream[head]] = there /\ there # Gone
     THEN Goto(w, "hold") /\ UNCHANGED lock
     ELSE Return(w, "refused")
  /\ UNCHANGED <<head, tips, upstream, tracking, remote, default, pulls, made, wire, approved, count>>

HoldAlone(w) ==
  /\ call[w].pc = "hold"
  /\ IF lock = None
     THEN lock' = w /\ Goto(w, "pull")
     ELSE Return(w, "agent_running")
  /\ UNCHANGED <<head, tips, upstream, tracking, remote, default, pulls, made, wire, approved, count>>

\* WorkingTree::pull reads the destination again, and refuses another one or diverged branches.
CheckPull(w) ==
  /\ call[w].pc = "pull"
  /\ LET t == DestinationOf(head)
         fetched == tracking[t.reference] IN
     IF /\ t.branch = call[w].transfer.branch /\ t.reference = call[w].transfer.reference
        /\ fetched # Gone
        /\ t.commit \subseteq fetched \/ fetched \subseteq t.commit
     THEN Goto(w, "merge") /\ UNCHANGED lock
     ELSE Return(w, "refused")
  /\ UNCHANGED <<head, tips, upstream, tracking, remote, default, pulls, made, wire, approved, count>>

\* `git merge --ff-only @{upstream}`, whatever is checked out and fetched by then.
Merge(w) ==
  /\ call[w].pc = "merge"
  /\ \/ /\ upstream[head] # None
        /\ tracking[upstream[head]] # Gone
        /\ LET fetched == tracking[upstream[head]] IN
           /\ tips[head] \subseteq fetched \/ fetched \subseteq tips[head]
           /\ tips' = [tips EXCEPT ![head] = @ \cup fetched]
        /\ Return(w, "ok")
     \/ UNCHANGED tips /\ Return(w, "transfer_failed")
  /\ UNCHANGED <<head, upstream, tracking, remote, default, pulls, made, wire, approved, count>>

------------------------------------------------------------------------------
(* Pull requests. *)

\* open_pull_request: the one from the head branch, to whatever base.
OpenFrom(b) == \E p \in pulls : p.head = b

\* The branch on GitHub is at the commit of the checkout.
OnGitHub(t) == remote[t.reference] = t.commit

\* Chosen::of: the target's default branch unless the user chose another one.
Bases(t) == Branches \ {t.reference}

\* WorkingTree::compared: GitHub lacks the base.
BaseMissing(base) == remote[base] = Gone

\* gh_login and head_repository: gh is missing or too old, has no login for the host or no access
\* to the repository, or the host is not GitHub.
GhFails(w) == Return(w, "refused")

\* WorkingTree::planned; an open pull request from the head is shown instead.
Planned(w) ==
  /\ call[w].pc = "github" /\ call[w].op = "plan"
  /\ LET t == call[w].transfer IN
     \/ /\ OnGitHub(t) /\ ~OpenFrom(t.reference)
        /\ \E base \in Bases(t) :
             call' = [call EXCEPT ![w].pc = "done", ![w].result = "ok", ![w].base = base]
        /\ UNCHANGED lock
     \/ OnGitHub(t) /\ OpenFrom(t.reference) /\ Return(w, "exists")
     \/ ~OnGitHub(t) /\ Return(w, "head_moved")
     \/ GhFails(w)
  /\ UNCHANGED <<head, tips, upstream, tracking, remote, default, pulls, made, wire, approved, count>>

\* The plan the draft was reviewed against, read again.
RecheckPullRequest(w) ==
  /\ call[w].pc = "github" /\ call[w].op = "create"
  /\ LET t == call[w].transfer
         same == OnGitHub(t) /\ t = call[w].draft /\ ~BaseMissing(call[w].base) IN
     \/ same /\ ~OpenFrom(t.reference) /\ Goto(w, "post") /\ UNCHANGED lock
     \/ same /\ OpenFrom(t.reference) /\ Return(w, "exists")
     \/ ~same /\ Return(w, "changed")
     \/ GhFails(w)
  /\ UNCHANGED <<head, tips, upstream, tracking, remote, default, pulls, made, wire, approved, count>>

\* WorkingTree::post_pull_request: gh may also not start.
Post(w) ==
  /\ call[w].pc = "post"
  /\ \/ /\ wire' = wire \cup {[id |-> call[w].id, head |-> call[w].draft.reference, base |-> call[w].base]}
        /\ Goto(w, "answer") /\ UNCHANGED lock
     \/ Return(w, "gh_missing") /\ UNCHANGED wire
  /\ UNCHANGED <<head, tips, upstream, tracking, remote, default, pulls, made, approved, count>>

\* GitHub makes the pull request, unless the same one is open or a branch is gone; it refuses for
\* reasons of its own too.  The request may also never arrive.
GitHub ==
  /\ \E r \in wire :
       /\ wire' = wire \ {r}
       /\ \/ /\ ~\E p \in pulls : p.head = r.head /\ p.base = r.base
             /\ remote[r.head] # Gone /\ remote[r.base] # Gone
             /\ pulls' = pulls \cup {r}
             /\ made' = made \cup {r.id}
          \/ UNCHANGED <<pulls, made>>
  /\ UNCHANGED <<head, tips, upstream, tracking, remote, default, call, approved, lock, count>>

Waiting(w) == \E r \in wire : r.id = call[w].id

\* Mutant: a failure without an answer is reported as one of GitHub's.
Lost_refused == "not_created"

\* What is known of a request without an answer.
Lost == "unknown"

\* The answer arrives: the pull request, or GitHub's refusal (an HTTP 4xx).  Or none does: the time
\* limit, a closing session, a connection that breaks or an unreadable answer.
Answer(w) ==
  /\ call[w].pc = "answer"
  /\ \/ ~Waiting(w) /\ Return(w, IF call[w].id \in made THEN "created" ELSE "not_created")
     \/ Return(w, Lost)
  /\ UNCHANGED <<head, tips, upstream, tracking, remote, default, pulls, made, wire, approved, count>>

------------------------------------------------------------------------------
Step(w) ==
  \/ Destination(w) \/ FetchTransfer(w)
  \/ PreparePush(w) \/ GitPush(w) \/ Refetch(w) \/ TrackUpstream(w)
  \/ CheckAlone(w) \/ PreparePull(w) \/ HoldAlone(w) \/ CheckPull(w) \/ Merge(w)
  \/ Planned(w) \/ RecheckPullRequest(w) \/ Post(w) \/ Answer(w)
  \/ Finish(w)

Next ==
  \/ InTerminal \/ OnRemote \/ GitHub
  \/ \E w \in count.open : Begin(w) \/ Step(w)

Spec == Init /\ [][Next]_vars

------------------------------------------------------------------------------
\* A branch that was the remote's default when its push was prepared takes only a commit, from a
\* branch, that a user confirmed for it; and a push reported done is on the remote, or was when
\* others went on from it: although the push holds no lock and HEAD moves under it.
PushedAsConfirmed ==
  \A w \in Windows :
    LET t == call[w].transfer IN
    /\ call[w].asDefault /\ call[w].put # Gone => [t EXCEPT !.commit = call[w].put] \in approved
    /\ call[w].op = "push" /\ call[w].result = "ok" =>
         t.commit = call[w].put /\ remote[t.reference] # Gone /\ call[w].put \subseteq remote[t.reference]

\* A branch follows on the remote what it was pushed to, not what another branch was pushed to
\* while it was checked out.
FollowsItsOwn ==
  \A b \in Branches : upstream[b] # None => upstream[b] = b \/ \E u \in Upstreams : u[b] = upstream[b]

\* What a creation reports is what became of its request: created, or not and never to be, or
\* unknown (post_pull_request; create_pull_request's time limit).
PullRequestTruthful ==
  \A w \in Windows :
    call[w].pc = "done" /\ call[w].op = "create" =>
      /\ call[w].result = "created" => call[w].id \in made
      /\ call[w].result \notin {"created", "unknown"} => call[w].id \notin made /\ ~Waiting(w)

==============================================================================

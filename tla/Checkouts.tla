------------------------------ MODULE Checkouts ------------------------------
(***************************************************************************)
(* Which agents run a turn in a Git checkout, and who may write its files  *)
(* meanwhile (meta-harness-core, checkout.rs and checkpoint.rs; the        *)
(* capture task of session.rs; liquid-bridge, api/session.rs).             *)
(*                                                                         *)
(* A host is one open session with its Checkpoints, in a process of its    *)
(* own.  Hosts share nothing but files: three lock files per worktree and  *)
(* repository, taken shared by a turn and alone by a write.  A step ends   *)
(* where the code awaits or another process can see what it did.  No tool  *)
(* of an agent's turn creates the repository itself.                       *)
(***************************************************************************)
EXTENDS Naturals, Sequences, FiniteSets

CONSTANTS
  Hosts,
  Worktrees,   \* folders; with Git, the checkouts of one repository
  Main,        \* the folder that is or becomes the main checkout
  At,          \* host -> the folder it works in
  Open,        \* the sets of hosts that may be open
  Turns,       \* how many turns the agents ask for
  Operations   \* how many operations the users ask for

ASSUME PlacesAssumption ==
  /\ Main \in Worktrees /\ At \in [Hosts -> Worktrees]
  /\ Turns \in Nat /\ Operations \in Nat

VARIABLES
  repo,        \* whether Main holds a repository
  present,     \* the folders that exist
  shared,      \* lock file -> holders of a shared lock on it
  alone,       \* lock file -> the holder of an exclusive lock on it
  closing,     \* how far Checkpoints::close is
  tree,        \* Checkpoints.tree
  slot,        \* Checkpoints.running: the turn marked as running, or 0
  captures,    \* Checkpoints.captures: who holds it
  task,        \* the capture task
  requests,    \* checkpoints the agent asked for, in order
  agent,       \* pi: whether it lives or asks to start, the turn it runs, the ends it has not sent
  op,          \* the user's call in progress
  left         \* operations and turns still to be asked for

vars == <<repo, present, shared, alone, closing, tree, slot, captures, task,
          requests, agent, op, left>>

None == "none"

\* The lock files: the folder's in temporary storage, the checkout's, the repository's.
Folder(w) == <<"folder", w>>
Checkout(w) == <<"checkout", w>>
Repository == <<"repository", Main>>
Locks == {"folder", "checkout", "repository"} \X Worktrees

Turn(h) == <<h, "turn">>
Call(h) == <<h, "op">>
Closed(h) == closing[h] # "open"
Up(h) == closing[h] # "crashed"

Idle == [pc |-> "idle", phase |-> None, turn |-> 0, tree |-> None]
NoCall == [kind |-> None, pc |-> "idle", target |-> Main]

Init ==
  /\ repo \in BOOLEAN
  /\ present = (IF repo THEN Worktrees ELSE {Main})
  /\ shared = [l \in Locks |-> {}]
  /\ alone = [l \in Locks |-> {}]
  /\ \E opened \in Open :
       closing = [h \in Hosts |-> IF h \in opened /\ At[h] \in present THEN "open" ELSE "crashed"]
  /\ tree = [h \in Hosts |-> None]
  /\ slot = [h \in Hosts |-> 0]
  /\ captures = [h \in Hosts |-> None]
  /\ task = [h \in Hosts |-> Idle]
  /\ requests = [h \in Hosts |-> <<>>]
  /\ agent = [h \in Hosts |-> [alive |-> closing[h] = "open", starting |-> FALSE, running |-> 0, owed |-> {}]]
  /\ op = [h \in Hosts |-> NoCall]
  /\ left = [operations |-> Operations, turns |-> Turns]

------------------------------------------------------------------------------
(* Locks: flock on a file opened anew, dropped with its holder. *)

TryLockShared(l, x) ==
  /\ alone[l] = {}
  /\ shared' = [shared EXCEPT ![l] = @ \cup {x}]
  /\ UNCHANGED alone

\* Mutant: an operation takes its lock although turns hold it shared.
TryLock_besideTurns(l, x) ==
  /\ alone[l] = {}
  /\ alone' = [alone EXCEPT ![l] = {x}]
  /\ UNCHANGED shared

TryLock(l, x) ==
  /\ alone[l] = {}
  /\ shared[l] = {}
  /\ alone' = [alone EXCEPT ![l] = {x}]
  /\ UNCHANGED shared

Free(l) == alone[l] = {} /\ shared[l] = {}

\* The locks without those of the holders `xs` on the files `ls`.
Drop(xs, ls) ==
  /\ shared' = [l \in Locks |-> IF l \in ls THEN shared[l] \ xs ELSE shared[l]]
  /\ alone' = [l \in Locks |-> IF l \in ls THEN alone[l] \ xs ELSE alone[l]]

\* What Checkpoints::tree answers: a project not yet opened, or last found outside Git, is
\* opened again; a failure stays.
Opened(h, found) ==
  /\ IF tree[h] \in {None, "outside"}
     THEN \/ found = "failed"
          \/ At[h] \in present /\ found = (IF repo THEN "open" ELSE "outside")
     ELSE found = tree[h]
  /\ tree' = [tree EXCEPT ![h] = found]

------------------------------------------------------------------------------
(* The agent, which asks for checkpoints around each turn. *)

\* Every turn has an id of its own; the run begins only with the answer to its start.
Ask(h) ==
  /\ agent[h].alive /\ agent[h].running = 0 /\ ~agent[h].starting /\ left.turns > 0
  /\ agent' = [agent EXCEPT ![h].starting = TRUE]
  /\ requests' = [requests EXCEPT ![h] = Append(@, [phase |-> "start", turn |-> left.turns])]
  /\ left' = [left EXCEPT !.turns = @ - 1]
  /\ UNCHANGED <<repo, present, shared, alone, closing, tree, slot, captures, task, op>>

\* The turn ends; a run that never settles keeps its end to itself, or sends it late.
Settle(h) ==
  /\ agent[h].alive /\ agent[h].running # 0
  /\ agent' = [agent EXCEPT ![h].running = 0, ![h].owed = @ \cup {agent[h].running}]
  /\ UNCHANGED <<repo, present, shared, alone, closing, tree, slot, captures, task, requests, op, left>>

SendEnd(h) ==
  /\ agent[h].alive
  /\ \E turn \in agent[h].owed :
       /\ agent' = [agent EXCEPT ![h].owed = @ \ {turn}]
       /\ requests' = [requests EXCEPT ![h] = Append(@, [phase |-> "end", turn |-> turn])]
  /\ UNCHANGED <<repo, present, shared, alone, closing, tree, slot, captures, task, op, left>>

Exit(h) ==
  /\ agent[h].alive
  /\ agent' = [agent EXCEPT ![h] = [alive |-> FALSE, starting |-> FALSE, running |-> 0, owed |-> {}]]
  /\ requests' = [requests EXCEPT ![h] = <<>>]
  /\ UNCHANGED <<repo, present, shared, alone, closing, tree, slot, captures, task, op, left>>

------------------------------------------------------------------------------
(* Checkpoints::capture, one request after another. *)

\* A start ends the mark of a run that never settled before it takes its own.
TakeStart(h) ==
  /\ task[h].pc = "idle" /\ requests[h] # <<>> /\ Head(requests[h]).phase = "start"
  /\ task' = [task EXCEPT ![h] = [Idle EXCEPT !.pc = "folder", !.phase = "start", !.turn = Head(requests[h]).turn]]
  /\ requests' = [requests EXCEPT ![h] = Tail(@)]
  /\ slot' = [slot EXCEPT ![h] = 0]
  /\ Drop({Turn(h)}, Locks)
  /\ UNCHANGED <<repo, present, closing, tree, captures, agent, op, left>>

TakeEnd(h) ==
  /\ task[h].pc = "idle" /\ requests[h] # <<>> /\ Head(requests[h]).phase = "end"
  /\ task' = [task EXCEPT ![h] = [Idle EXCEPT !.pc = "tree", !.phase = "end", !.turn = Head(requests[h]).turn]]
  /\ requests' = [requests EXCEPT ![h] = Tail(@)]
  /\ UNCHANGED <<repo, present, shared, alone, closing, tree, slot, captures, agent, op, left>>

\* The start stops without a mark: what it locked drops with it, and the turn must not run.
Fail(h) ==
  /\ task' = [task EXCEPT ![h] = Idle]
  /\ agent' = [agent EXCEPT ![h].starting = FALSE]
  /\ Drop({Turn(h)}, Locks)
  /\ UNCHANGED <<repo, present, closing, slot, captures, requests, op, left>>

\* Also in Git the folder's lock comes first, so no start overtakes an initialization.
LockFolder(h) ==
  /\ task[h].pc = "folder" /\ At[h] \in present
  /\ TryLockShared(Folder(At[h]), Turn(h))
  /\ task' = [task EXCEPT ![h].pc = "tree"]
  /\ UNCHANGED <<repo, present, closing, tree, slot, captures, requests, agent, op, left>>

OpenTree(h) ==
  /\ task[h].pc = "tree" /\ task[h].phase = "start"
  /\ \E found \in {"open", "outside"} :
       /\ Opened(h, found)
       /\ task' = [task EXCEPT ![h].pc = IF found = "open" THEN "checkout" ELSE "mark", ![h].tree = found]
  /\ UNCHANGED <<repo, present, shared, alone, closing, slot, captures, requests, agent, op, left>>

OpenTreeAtEnd(h) ==
  /\ task[h].pc = "tree" /\ task[h].phase = "end"
  /\ \E found \in {"open", "outside", "failed"} :
       /\ Opened(h, found)
       /\ task' = [task EXCEPT ![h].pc = "captures", ![h].tree = found]
  /\ UNCHANGED <<repo, present, shared, alone, closing, slot, captures, requests, agent, op, left>>

LockCheckout(h) ==
  /\ task[h].pc = "checkout"
  /\ TryLockShared(Checkout(At[h]), Turn(h))
  /\ task' = [task EXCEPT ![h].pc = "repository"]
  /\ UNCHANGED <<repo, present, closing, tree, slot, captures, requests, agent, op, left>>

\* With the repository's lock the start has its guard, and the folder's lock drops.
LockRepository(h) ==
  /\ task[h].pc = "repository" /\ alone[Repository] = {}
  /\ shared' = [l \in Locks |-> IF l = Repository THEN shared[l] \cup {Turn(h)}
                                ELSE IF l = Folder(At[h]) THEN shared[l] \ {Turn(h)}
                                ELSE shared[l]]
  /\ task' = [task EXCEPT ![h].pc = "mark"]
  /\ UNCHANGED <<repo, present, alone, closing, tree, slot, captures, requests, agent, op, left>>

\* The folder is gone, Git or a lock file fails, or the checkpoints close.
StartFails(h) ==
  /\ task[h].phase = "start"
  /\ \/ task[h].pc = "folder" /\ At[h] \notin present /\ UNCHANGED tree
     \/ task[h].pc \in {"folder", "checkout", "repository"} /\ Closed(h) /\ UNCHANGED tree
     \/ task[h].pc = "tree" /\ Opened(h, "failed")
  /\ Fail(h)

\* Mutant: a mark that arrives after the close is kept.
Mark_afterClose(h) ==
  /\ task[h].pc = "mark"
  /\ slot' = [slot EXCEPT ![h] = task[h].turn]
  /\ task' = [task EXCEPT ![h].pc = "captures"]
  /\ UNCHANGED <<repo, present, shared, alone, closing, tree, captures, requests, agent, op, left>>

Mark(h) ==
  /\ task[h].pc = "mark"
  /\ \/ /\ Closed(h)
        /\ Fail(h) /\ UNCHANGED tree
     \/ /\ ~Closed(h)
        /\ slot' = [slot EXCEPT ![h] = task[h].turn]
        /\ task' = [task EXCEPT ![h].pc = "captures"]
        /\ UNCHANGED <<repo, present, shared, alone, closing, tree, captures, requests, agent, op, left>>

BeginCheckpoint(h) ==
  /\ task[h].pc = "captures" /\ captures[h] = None
  /\ captures' = [captures EXCEPT ![h] = "capture"]
  /\ task' = [task EXCEPT ![h].pc = "checkpoint"]
  /\ UNCHANGED <<repo, present, shared, alone, closing, tree, slot, requests, agent, op, left>>

\* Mutant: the end of any turn drops the mark.
Unmark_any(h) ==
  /\ slot' = [slot EXCEPT ![h] = 0]
  /\ Drop({Turn(h)}, Locks)

\* The end drops only its own turn's mark: a later start may have replaced it.
Unmark(h) ==
  IF slot[h] = task[h].turn
  THEN /\ slot' = [slot EXCEPT ![h] = 0]
       /\ Drop({Turn(h)}, Locks)
  ELSE UNCHANGED <<slot, shared, alone>>

\* Checkpoints::guards.
Guards(h) == slot[h] = task[h].turn

\* The snapshot is taken or fails, or the close stops it; a start then tells whether the turn
\* can run, which the agent obeys.
EndCheckpoint(h) ==
  /\ \/ task[h].pc = "checkpoint"
     \/ task[h].pc = "captures" /\ Closed(h)
  /\ captures' = [captures EXCEPT ![h] = IF task[h].pc = "checkpoint" THEN None ELSE @]
  /\ task' = [task EXCEPT ![h] = Idle]
  /\ \E ok \in (IF task[h].pc = "checkpoint" /\ task[h].tree = "open" THEN BOOLEAN ELSE {FALSE}) :
       IF task[h].phase = "end"
       THEN Unmark(h) /\ UNCHANGED agent
       ELSE /\ agent' = [agent EXCEPT ![h].starting = FALSE,
                          ![h].running = IF agent[h].alive /\ (ok \/ task[h].tree = "outside" \/ Guards(h))
                                         THEN task[h].turn ELSE 0]
            /\ UNCHANGED <<slot, shared, alone>>
  /\ UNCHANGED <<repo, present, closing, tree, requests, op, left>>

------------------------------------------------------------------------------
(* What the user asks for: a revert, a Git write (switching, committing, pulling, stashing),
   removing checkpoints or a worktree, initializing Git. *)

Kinds == {"revert", "write", "remove", "worktree", "initialize"}

Begin(h) ==
  /\ op[h].pc = "idle" /\ left.operations > 0 /\ ~Closed(h)
  /\ \E kind \in Kinds, w \in Worktrees, found \in {"open", "outside"} :
       /\ kind = "worktree" \/ w = Main
       /\ Opened(h, found)
       /\ found = (IF kind = "initialize" THEN "outside" ELSE "open")
       /\ op' = [op EXCEPT ![h] = [kind |-> kind, target |-> w,
                   pc |-> IF kind \in {"remove", "worktree"} THEN "everywhere" ELSE "alone"]]
  /\ left' = [left EXCEPT !.operations = @ - 1]
  /\ UNCHANGED <<repo, present, shared, alone, closing, slot, captures, task, requests, agent>>

\* What the call holds alone, and where it stands with it.
Held(h) ==
  CASE op[h].pc = "everywhere" -> <<Repository, IF op[h].kind = "remove" THEN "working" ELSE "there">>
    [] op[h].pc = "there" -> <<Checkout(op[h].target), "working">>
    [] op[h].kind = "revert" -> <<Checkout(At[h]), "captures">>
    [] op[h].kind = "write" -> <<Checkout(At[h]), "working">>
    [] op[h].kind = "initialize" -> <<Folder(At[h]), "working">>

\* The review of a worktree is repeated under each lock.
Removable(h) ==
  op[h].pc = "there" => op[h].target \in present \ {Main, At[h]}

HoldAlone(h) ==
  /\ op[h].pc \in {"everywhere", "there", "alone"} /\ Removable(h)
  /\ TryLock(Held(h)[1], Call(h))
  /\ op' = [op EXCEPT ![h].pc = Held(h)[2]]
  /\ UNCHANGED <<repo, present, closing, tree, slot, captures, task, requests, agent, left>>

\* The call ends and its locks drop.
Return(h) ==
  /\ op' = [op EXCEPT ![h] = NoCall]
  /\ Drop({Call(h)}, Locks)

\* Mutant: only the files and the checkout are refused at once; a call for the repository waits.
Refuse_notThere(h) ==
  /\ op[h].pc \in {"everywhere", "alone"}
  /\ ~Free(Held(h)[1]) \/ ~Removable(h)
  /\ Return(h)
  /\ UNCHANGED <<repo, present, closing, tree, slot, captures, task, requests, agent, left>>

\* AgentRunning, at once when a name is locked and else after its tries; or the worktree changed.
Refuse(h) ==
  /\ op[h].pc \in {"everywhere", "there", "alone"}
  /\ ~Free(Held(h)[1]) \/ ~Removable(h)
  /\ Return(h)
  /\ UNCHANGED <<repo, present, closing, tree, slot, captures, task, requests, agent, left>>

BeginRestore(h) ==
  /\ op[h].pc = "captures" /\ captures[h] = None
  /\ captures' = [captures EXCEPT ![h] = "revert"]
  /\ op' = [op EXCEPT ![h].pc = "working"]
  /\ UNCHANGED <<repo, present, shared, alone, closing, tree, slot, task, requests, agent, left>>

StopRestore(h) ==
  /\ op[h].pc = "captures" /\ Closed(h)
  /\ Return(h)
  /\ UNCHANGED <<repo, present, closing, tree, slot, captures, task, requests, agent, left>>

\* The work ends, done or failed; a write or a removal in progress does so also after a close.
EndWork(h) ==
  /\ op[h].pc = "working"
  /\ \E done \in BOOLEAN :
       LET initialized == done /\ op[h].kind = "initialize" /\ ~repo IN
       /\ repo' = (repo \/ initialized)
       /\ present' = IF done /\ op[h].kind = "worktree" THEN present \ {op[h].target} ELSE present
       /\ tree' = IF initialized /\ ~Closed(h) THEN [tree EXCEPT ![h] = None] ELSE tree
  /\ captures' = [captures EXCEPT ![h] = IF op[h].kind = "revert" THEN None ELSE @]
  /\ Return(h)
  /\ UNCHANGED <<closing, slot, task, requests, agent, left>>

------------------------------------------------------------------------------
(* Closing, once the agent's process is gone, and the crash of a host. *)

Close(h) ==
  /\ closing[h] = "open" /\ ~agent[h].alive
  /\ closing' = [closing EXCEPT ![h] = "told"]
  /\ UNCHANGED <<repo, present, shared, alone, tree, slot, captures, task, requests, agent, op, left>>

EmptySlot(h) ==
  /\ closing[h] = "told"
  /\ closing' = [closing EXCEPT ![h] = "closed"]
  /\ slot' = [slot EXCEPT ![h] = 0]
  /\ IF slot[h] # 0 THEN Drop({Turn(h)}, Locks) ELSE UNCHANGED <<shared, alone>>
  /\ tree' = [tree EXCEPT ![h] = "failed"]
  /\ UNCHANGED <<repo, present, captures, task, requests, agent, op, left>>

\* The system drops the locks of a process that ends; its agent ends with it.
Crash(h) ==
  /\ Up(h)
  /\ closing' = [closing EXCEPT ![h] = "crashed"]
  /\ slot' = [slot EXCEPT ![h] = 0]
  /\ captures' = [captures EXCEPT ![h] = None]
  /\ task' = [task EXCEPT ![h] = Idle]
  /\ requests' = [requests EXCEPT ![h] = <<>>]
  /\ agent' = [agent EXCEPT ![h] = [alive |-> FALSE, starting |-> FALSE, running |-> 0, owed |-> {}]]
  /\ op' = [op EXCEPT ![h] = NoCall]
  /\ Drop({Turn(h), Call(h)}, Locks)
  /\ UNCHANGED <<repo, present, tree, left>>

------------------------------------------------------------------------------
CaptureStep(h) ==
  \/ TakeStart(h) \/ TakeEnd(h) \/ LockFolder(h) \/ OpenTree(h) \/ OpenTreeAtEnd(h)
  \/ LockCheckout(h) \/ LockRepository(h) \/ StartFails(h) \/ Mark(h)
  \/ BeginCheckpoint(h) \/ EndCheckpoint(h)

CallStep(h) ==
  HoldAlone(h) \/ Refuse(h) \/ BeginRestore(h) \/ StopRestore(h) \/ EndWork(h)

Next ==
  \E h \in Hosts :
    \/ Ask(h) \/ Settle(h) \/ SendEnd(h) \/ Exit(h)
    \/ CaptureStep(h)
    \/ Begin(h) \/ CallStep(h)
    \/ Close(h) \/ EmptySlot(h) \/ Crash(h)

\* Some task that can run runs: the runtime polls every ready task, and every call ends.
Fairness == WF_vars(\E h \in Hosts : CaptureStep(h) \/ CallStep(h))

Spec == Init /\ [][Next]_vars /\ Fairness

------------------------------------------------------------------------------
\* A turn runs in the folder `w`, by leave of its host.
RunsIn(h, w) == agent[h].running # 0 /\ At[h] = w

\* The files of the folder `w` are being written for a user, or the checkpoints and worktrees of
\* the whole repository; an initialization that finds one writes nothing.
Writes(h, w) ==
  /\ op[h].pc = "working"
  /\ op[h].kind \in {"remove", "worktree"} \/ At[h] = w
  /\ ~(op[h].kind = "initialize" /\ repo)

\* While an agent runs a turn, no window reverts or writes the files of its checkout, initializes
\* Git under it, or removes checkpoints or worktrees of its repository (Checkout::run, alone and
\* repository_alone): not after a late end, a failed snapshot, a close or a crash of another.
Exclusion ==
  \A h, g \in Hosts, w \in Worktrees : ~(RunsIn(h, w) /\ Writes(g, w))

\* Once a host closed or crashed and its capture task is done, no lock of it keeps others from
\* the checkout: a start that got its guard while the host closed drops it.
NothingLeftBehind ==
  \A h \in Hosts :
    closing[h] \in {"closed", "crashed"} /\ task[h].pc = "idle" =>
      \A l \in Locks : Turn(h) \notin shared[l]

\* A checkpoint the agent asked for is answered, although starts wait for locks that a removal
\* of the worktree takes in the other order, or its host ends.
CapturesEnd ==
  (\E h \in Hosts : task[h].pc # "idle") ~> (\A h \in Hosts : task[h].pc = "idle")

\* For the run: two hosts in the main worktree and one in the linked one.
Placed == [h \in Hosts |-> IF h = "c" THEN "linked" ELSE "main"]
==============================================================================

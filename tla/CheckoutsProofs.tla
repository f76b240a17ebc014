--------------------------- MODULE CheckoutsProofs ---------------------------
(***************************************************************************)
(* No window writes the files of a checkout in which an agent runs a turn, *)
(* and no host that is gone keeps others from it: for any number of hosts, *)
(* worktrees, turns and operations.                                        *)
(***************************************************************************)
EXTENDS Checkouts, TLAPS

Trees == {None, "open", "outside", "failed"}
Holders == Hosts \X {"turn", "op"}
Requests == [phase : {"start", "end"}, turn : Nat]
Tasks ==
  [pc : {"idle", "folder", "tree", "checkout", "repository", "mark", "captures", "checkpoint"},
   phase : {None, "start", "end"}, turn : Nat, tree : Trees]
Agents == [alive : BOOLEAN, starting : BOOLEAN, running : Nat, owed : SUBSET Nat]
CallRecords ==
  [kind : Kinds \cup {None}, pc : {"idle", "everywhere", "there", "alone", "captures", "working"},
   target : Worktrees]

Types ==
  /\ repo \in BOOLEAN /\ present \subseteq Worktrees
  /\ shared \in [Locks -> SUBSET Holders] /\ alone \in [Locks -> SUBSET Holders]
  /\ closing \in [Hosts -> {"open", "told", "closed", "crashed"}]
  /\ tree \in [Hosts -> Trees]
  /\ slot \in [Hosts -> Nat]
  /\ captures \in [Hosts -> {None, "capture", "revert"}]
  /\ task \in [Hosts -> Tasks]
  /\ requests \in [Hosts -> Seq(Requests)]
  /\ agent \in [Hosts -> Agents]
  /\ op \in [Hosts -> CallRecords]
  /\ left \in [operations : Nat, turns : Nat]

\* A lock is shared or held alone; what is outside Git is the main folder only.
World ==
  /\ \A l \in Locks : alone[l] # {} => shared[l] = {}
  /\ ~repo => present \subseteq {Main}
  /\ \A h \in Hosts : tree[h] = "open" => repo

\* What a call that got so far holds.
CallHolds(h) ==
  /\ op[h].pc # "idle" => op[h].kind \in Kinds
  /\ op[h].pc = "everywhere" => op[h].kind \in {"remove", "worktree"}
  /\ op[h].pc = "there" => op[h].kind = "worktree"
  /\ op[h].pc = "alone" => op[h].kind \in {"revert", "write", "initialize"}
  /\ op[h].pc = "captures" => op[h].kind = "revert"
  /\ op[h].kind \in Kinds \ {"initialize"} => repo
  /\ op[h].kind = "initialize" => At[h] = Main
  /\ op[h].kind \in {"remove", "worktree"} /\ op[h].pc \in {"there", "working"} =>
       Call(h) \in alone[Repository]
  /\ op[h].kind \in {"revert", "write"} /\ op[h].pc \in {"captures", "working"} =>
       Call(h) \in alone[Checkout(At[h])]
  /\ op[h].kind = "initialize" /\ op[h].pc = "working" => Call(h) \in alone[Folder(Main)]

\* The requests for the start and for the end of a turn that are on their way.
StartAt(h, i) == i \in 1..Len(requests[h]) /\ requests[h][i].phase = "start"
Sent(h, r) == \E i \in 1..Len(requests[h]) : requests[h][i] = r
IsEnd(h, turn) ==
  \/ turn \in agent[h].owed
  \/ task[h].phase = "end" /\ task[h].turn = turn
  \/ Sent(h, [phase |-> "end", turn |-> turn])
IsStart(h, turn) ==
  \/ task[h].phase = "start" /\ task[h].turn = turn
  \/ Sent(h, [phase |-> "start", turn |-> turn])

\* Turns have ids of their own, and an agent is asked about one start at a time, in which no
\* turn runs.
TurnIds(h) ==
  /\ task[h].pc = "idle" <=> task[h].phase = None
  /\ agent[h].running # 0 \/ agent[h].starting => agent[h].alive
  /\ ~agent[h].alive => requests[h] = <<>>
  /\ agent[h].running # 0 => agent[h].running > left.turns
  /\ \A turn \in Nat : IsEnd(h, turn) \/ IsStart(h, turn) => turn > left.turns
  /\ \A turn \in Nat : IsEnd(h, turn) => ~IsStart(h, turn) /\ agent[h].running # turn
  /\ \A turn \in Nat : IsStart(h, turn) => agent[h].running = 0 /\ (agent[h].alive => agent[h].starting)
  /\ \A i, j \in Nat : StartAt(h, i) /\ StartAt(h, j) => i = j
  /\ task[h].phase = "start" => \A i \in Nat : ~StartAt(h, i)

\* The guard of a turn: in Git the locks of its checkout and of its repository, else the one of
\* the folder.
Guarded(h) ==
  IF repo THEN Turn(h) \in shared[Checkout(At[h])] /\ Turn(h) \in shared[Repository]
  ELSE At[h] = Main /\ Turn(h) \in shared[Folder(Main)]

\* A start that got so far holds what it locked, and a marked turn its guard.
TurnHolds(h) ==
  /\ agent[h].alive => closing[h] = "open"
  /\ agent[h].running # 0 => slot[h] = agent[h].running
  /\ slot[h] # 0 => Guarded(h)
  /\ task[h].pc \in {"folder", "checkout", "repository", "mark"} => task[h].phase = "start"
  /\ task[h].phase = "start" /\ task[h].pc \notin {"captures", "checkpoint"} => slot[h] = 0
  /\ task[h].phase = "start" /\ task[h].pc \in {"captures", "checkpoint"} /\ closing[h] = "open" =>
       slot[h] = task[h].turn
  /\ task[h].phase = "start" /\ task[h].pc \in {"tree", "checkout", "repository"} =>
       Turn(h) \in shared[Folder(At[h])]
  /\ task[h].pc \in {"checkout", "repository"} => repo
  /\ task[h].pc = "repository" => Turn(h) \in shared[Checkout(At[h])]
  /\ task[h].pc = "mark" => Guarded(h)

\* Nobody else holds a lock of a turn.
NoLeftover(h) ==
  /\ closing[h] \in {"closed", "crashed"} => slot[h] = 0
  /\ \A l \in Locks :
       Turn(h) \in shared[l] =>
         slot[h] # 0 \/ (task[h].phase = "start" /\ task[h].pc \in {"tree", "checkout", "repository", "mark"})

IInv ==
  /\ Types /\ World
  /\ \A h \in Hosts : CallHolds(h) /\ TurnIds(h) /\ TurnHolds(h) /\ NoLeftover(h)

-----------------------------------------------------------------------------
(* Names of locks and of their holders. *)

LEMMA LockNames ==
  /\ Repository \in Locks
  /\ \A w \in Worktrees : Folder(w) \in Locks /\ Checkout(w) \in Locks /\ Folder(w) # Repository
                          /\ Checkout(w) # Repository
  /\ \A v, w \in Worktrees : Folder(v) # Checkout(w)
  BY PlacesAssumption, Zenon DEF Repository, Folder, Checkout, Locks

LEMMA HolderNames ==
  /\ \A h \in Hosts : Turn(h) \in Holders /\ Call(h) \in Holders
  /\ \A g, h \in Hosts : Turn(g) # Call(h) /\ (g # h => Turn(g) # Turn(h) /\ Call(g) # Call(h))
  BY Zenon DEF Turn, Call, Holders

\* A step on the locks of the host `h`: the locks stay exclusive, and those of other hosts stay.
LockStep(h) ==
  /\ shared' \in [Locks -> SUBSET Holders] /\ alone' \in [Locks -> SUBSET Holders]
  /\ \A l \in Locks : alone'[l] # {} => shared'[l] = {}
  /\ \A g \in Hosts \ {h}, l \in Locks :
       /\ Turn(g) \in shared'[l] <=> Turn(g) \in shared[l]
       /\ Call(g) \in alone'[l] <=> Call(g) \in alone[l]

\* What is said of the turn's locks and of the call's when they do not change.
TurnKept(h) == \A l \in Locks : Turn(h) \in shared'[l] <=> Turn(h) \in shared[l]
CallKept(h) == \A l \in Locks : Call(h) \in alone'[l] <=> Call(h) \in alone[l]

LEMMA NoLockStep ==
  ASSUME IInv, NEW h \in Hosts, UNCHANGED <<shared, alone>>
  PROVE  LockStep(h) /\ TurnKept(h) /\ CallKept(h)
  BY Zenon DEF IInv, Types, World, LockStep, TurnKept, CallKept

LEMMA DropStep ==
  ASSUME IInv, NEW h \in Hosts, NEW xs \in SUBSET {Turn(h), Call(h)}, Drop(xs, Locks)
  PROVE  /\ LockStep(h)
         /\ Turn(h) \in xs => \A l \in Locks : Turn(h) \notin shared'[l]
         /\ Turn(h) \notin xs => TurnKept(h)
         /\ Call(h) \notin xs => CallKept(h)
<1>1. \A l \in Locks : shared'[l] = shared[l] \ xs /\ alone'[l] = alone[l] \ xs
  BY Zenon DEF Drop
<1>2. shared' \in [Locks -> SUBSET Holders] /\ alone' \in [Locks -> SUBSET Holders]
  BY Zenon DEF IInv, Types, Drop
<1>3. \A g \in Hosts \ {h} : Turn(g) \notin xs /\ Call(g) \notin xs
  BY HolderNames, Zenon
<1> QED
  BY <1>1, <1>2, <1>3, Zenon DEF IInv, World, LockStep, TurnKept, CallKept

LEMMA SharedStep ==
  ASSUME IInv, NEW h \in Hosts, NEW l \in Locks, TryLockShared(l, Turn(h))
  PROVE  /\ LockStep(h) /\ CallKept(h)
         /\ \A k \in Locks : Turn(h) \in shared'[k] <=> k = l \/ Turn(h) \in shared[k]
<1>1. \A k \in Locks : shared'[k] = IF k = l THEN shared[k] \cup {Turn(h)} ELSE shared[k]
  BY Zenon DEF TryLockShared, IInv, Types
<1>2. shared' \in [Locks -> SUBSET Holders] /\ alone' = alone /\ alone[l] = {}
  BY HolderNames, Zenon DEF IInv, Types, TryLockShared
<1>3. \A g \in Hosts \ {h}, k \in Locks : Turn(g) \in shared'[k] <=> Turn(g) \in shared[k]
  BY <1>1, HolderNames, Zenon
<1>4. \A k \in Locks : alone[k] # {} => shared'[k] = {}
  BY <1>1, <1>2, Zenon DEF IInv, World
<1>5. alone \in [Locks -> SUBSET Holders]
  BY Zenon DEF IInv, Types
<1>6. LockStep(h)
  BY <1>2, <1>3, <1>4, <1>5, Zenon DEF LockStep
<1> QED
  BY <1>1, <1>2, <1>6, Zenon DEF CallKept

LEMMA AloneStep ==
  ASSUME IInv, NEW h \in Hosts, NEW l \in Locks, TryLock(l, Call(h))
  PROVE  /\ LockStep(h) /\ TurnKept(h)
         /\ \A k \in Locks : Call(h) \in alone'[k] <=> k = l \/ Call(h) \in alone[k]
<1>1. \A k \in Locks : alone'[k] = IF k = l THEN {Call(h)} ELSE alone[k]
  BY Zenon DEF TryLock, IInv, Types
<1>2. /\ alone' \in [Locks -> SUBSET Holders] /\ shared' = shared
      /\ alone[l] = {} /\ shared[l] = {}
  BY HolderNames, Zenon DEF IInv, Types, TryLock
<1>3. \A g \in Hosts \ {h}, k \in Locks : Call(g) \in alone'[k] <=> Call(g) \in alone[k]
  BY <1>1, <1>2, HolderNames, Zenon
<1>4. \A k \in Locks : alone'[k] # {} => shared[k] = {}
  BY <1>1, <1>2, Zenon DEF IInv, World
<1>5. shared \in [Locks -> SUBSET Holders]
  BY Zenon DEF IInv, Types
<1>6. LockStep(h)
  BY <1>2, <1>3, <1>4, <1>5, Zenon DEF LockStep
<1> QED
  BY <1>1, <1>2, <1>6, Zenon DEF TurnKept

-----------------------------------------------------------------------------
(* What keeps each part of the invariant, of the host that moves and of the others. *)

Rising == repo => repo'

\* The call of `h` stands where it stood.
LEMMA CallHoldsKept ==
  ASSUME NEW h \in Hosts, CallHolds(h), op'[h] = op[h], CallKept(h), Rising
  PROVE  CallHolds(h)'
<1>1. Checkout(At[h]) \in Locks /\ Repository \in Locks /\ Folder(Main) \in Locks
  BY LockNames, PlacesAssumption, Zenon
<1> QED
  BY <1>1, Zenon DEF CallHolds, CallKept, Rising

\* No call of `h` is in progress.
LEMMA NoCallHolds ==
  ASSUME NEW h \in Hosts, op'[h] = NoCall
  PROVE  CallHolds(h)'
  BY DEF CallHolds, NoCall, None, Kinds

LEMMA TurnIdsKept ==
  ASSUME NEW h \in Hosts, TurnIds(h), left.turns \in Nat, left'.turns \in Nat, left'.turns <= left.turns,
         agent[h].running \in Nat,
         task'[h].phase = task[h].phase, task'[h].turn = task[h].turn,
         task'[h].pc = "idle" <=> task[h].pc = "idle",
         requests'[h] = requests[h], agent'[h] = agent[h]
  PROVE  TurnIds(h)'
<1>1. \A turn \in Nat : (IsEnd(h, turn)' <=> IsEnd(h, turn)) /\ (IsStart(h, turn)' <=> IsStart(h, turn))
  BY Zenon DEF IsEnd, IsStart, Sent
<1>2. \A i \in Nat : StartAt(h, i)' <=> StartAt(h, i)
  BY Zenon DEF StartAt
<1> QED
  BY <1>1, <1>2 DEF TurnIds

\* The locks of the turn of `h` stay, and so does what tells whether it needs them.
LEMMA TurnHoldsKept ==
  ASSUME NEW h \in Hosts, TurnHolds(h), NoLeftover(h), TurnKept(h), Rising,
         ~repo /\ repo' => ~Guarded(h),
         closing'[h] = closing[h], slot'[h] = slot[h], task'[h] = task[h],
         agent'[h].alive => agent[h].alive, agent'[h].running \in {0, agent[h].running}
  PROVE  TurnHolds(h)' /\ NoLeftover(h)'
<1>1. /\ Checkout(At[h]) \in Locks /\ Repository \in Locks /\ Folder(Main) \in Locks
      /\ Folder(At[h]) \in Locks
  BY LockNames, PlacesAssumption, Zenon
<1>2. Guarded(h) => Guarded(h)'
  BY <1>1, Zenon DEF Guarded, TurnKept, Rising
<1>3. TurnHolds(h)'
  BY <1>1, <1>2, Zenon DEF TurnHolds, TurnKept, Rising
<1> QED
  BY <1>3, Zenon DEF NoLeftover, TurnKept

\* Every other host stays as it is.
OthersKept(h) ==
  \A g \in Hosts \ {h} :
    /\ closing'[g] = closing[g] /\ slot'[g] = slot[g] /\ task'[g] = task[g]
    /\ requests'[g] = requests[g] /\ agent'[g] = agent[g] /\ op'[g] = op[g]

\* A step of `h` on its own state and locks preserves the invariant when it does for `h`.
LEMMA HostStep ==
  ASSUME IInv, NEW h \in Hosts, OthersKept(h), LockStep(h), Rising,
         ~repo /\ repo' => \A g \in Hosts : ~Guarded(g),
         left'.turns <= left.turns,
         Types', World', CallHolds(h)', TurnIds(h)', TurnHolds(h)', NoLeftover(h)'
  PROVE  IInv'
<1>1. ASSUME NEW g \in Hosts \ {h}
      PROVE  CallHolds(g)' /\ TurnIds(g)' /\ TurnHolds(g)' /\ NoLeftover(g)'
  <2>1. CallHolds(g) /\ TurnIds(g) /\ TurnHolds(g) /\ NoLeftover(g)
    BY Zenon DEF IInv
  <2>2. /\ closing'[g] = closing[g] /\ slot'[g] = slot[g] /\ task'[g] = task[g]
        /\ requests'[g] = requests[g] /\ agent'[g] = agent[g] /\ op'[g] = op[g]
    BY Zenon DEF OthersKept
  <2>3. TurnKept(g) /\ CallKept(g)
    BY Zenon DEF LockStep, TurnKept, CallKept
  <2>4. left.turns \in Nat /\ left'.turns \in Nat /\ agent[g].running \in Nat
    BY Zenon DEF IInv, Types, Agents
  <2>5. CallHolds(g)'
    BY <2>1, <2>2, <2>3, CallHoldsKept, Zenon
  <2>6. TurnIds(g)'
    BY <2>1, <2>2, <2>4, TurnIdsKept, Zenon
  <2>7. TurnHolds(g)' /\ NoLeftover(g)'
    BY <2>1, <2>2, <2>3, TurnHoldsKept, Zenon
  <2> QED
    BY <2>5, <2>6, <2>7, Zenon
<1> QED
  BY <1>1, Zenon DEF IInv

\* Nobody else's files change.
LEMMA WorldKept ==
  ASSUME IInv, NEW h \in Hosts, LockStep(h), UNCHANGED <<repo, present, tree>>
  PROVE  World' /\ Rising /\ (~repo /\ repo' => \A g \in Hosts : ~Guarded(g))
  BY Zenon DEF IInv, World, LockStep, Rising

\* What a start or a call learns when it opens the project.
LEMMA OpenedTells ==
  ASSUME IInv, NEW h \in Hosts, NEW found \in {"open", "outside", "failed"}, Opened(h, found)
  PROVE  /\ tree' \in [Hosts -> Trees]
         /\ found = "open" => repo
         /\ found = "outside" => ~repo /\ At[h] = Main
         /\ \A g \in Hosts : tree'[g] = "open" => repo
<1>1. tree \in [Hosts -> Trees] /\ repo \in BOOLEAN
  BY Zenon DEF IInv, Types
<1>2. found = "open" => repo
  BY <1>1, Zenon DEF Opened, IInv, World, None
<1>3. found = "outside" => ~repo /\ At[h] = Main
  BY <1>1, Zenon DEF Opened, IInv, World, None
<1>4. tree' = [tree EXCEPT ![h] = found]
  BY Zenon DEF Opened
<1> QED
  BY <1>1, <1>2, <1>3, <1>4, Zenon DEF IInv, World, Trees

-----------------------------------------------------------------------------
(* Requests. *)

LEMMA Appended ==
  ASSUME NEW h \in Hosts, requests[h] \in Seq(Requests), NEW r \in Requests,
         requests'[h] = Append(requests[h], r)
  PROVE  /\ \A q \in Requests : Sent(h, q)' <=> q = r \/ Sent(h, q)
         /\ \A i \in Nat : StartAt(h, i)' <=> StartAt(h, i) \/ (i = Len(requests[h]) + 1 /\ r.phase = "start")
<1>1. /\ Len(requests'[h]) = Len(requests[h]) + 1 /\ Len(requests[h]) \in Nat
      /\ \A i \in 1..Len(requests[h]) : requests'[h][i] = requests[h][i]
      /\ requests'[h][Len(requests[h]) + 1] = r
  OBVIOUS
<1>2. ASSUME NEW q \in Requests PROVE Sent(h, q)' <=> q = r \/ Sent(h, q)
  BY <1>1 DEF Sent
<1>3. ASSUME NEW i \in Nat
      PROVE  StartAt(h, i)' <=> StartAt(h, i) \/ (i = Len(requests[h]) + 1 /\ r.phase = "start")
  BY <1>1 DEF StartAt
<1> QED
  BY <1>2, <1>3, Zenon

LEMMA Taken ==
  ASSUME NEW h \in Hosts, requests[h] \in Seq(Requests), requests[h] # <<>>,
         requests'[h] = Tail(requests[h])
  PROVE  /\ Head(requests[h]) \in Requests /\ Sent(h, Head(requests[h]))
         /\ requests'[h] \in Seq(Requests)
         /\ \A q \in Requests : Sent(h, q)' => Sent(h, q)
         /\ \A i \in Nat : StartAt(h, i)' => StartAt(h, i + 1) /\ i + 1 > 1
         /\ Head(requests[h]).phase = "start" => StartAt(h, 1)
<1>1. /\ Len(requests'[h]) = Len(requests[h]) - 1 /\ Len(requests[h]) \in Nat \ {0}
      /\ \A i \in 1..Len(requests'[h]) : requests'[h][i] = requests[h][i + 1]
      /\ Head(requests[h]) = requests[h][1] /\ requests[h][1] \in Requests
      /\ requests'[h] \in Seq(Requests)
  OBVIOUS
<1>2. ASSUME NEW q \in Requests, Sent(h, q)' PROVE Sent(h, q)
  BY <1>1, <1>2 DEF Sent
<1>3. ASSUME NEW i \in Nat, StartAt(h, i)' PROVE StartAt(h, i + 1) /\ i + 1 > 1
  BY <1>1, <1>3 DEF StartAt
<1>4. Sent(h, Head(requests[h])) /\ (Head(requests[h]).phase = "start" => StartAt(h, 1))
  BY <1>1 DEF Sent, StartAt
<1> QED
  BY <1>1, <1>2, <1>3, <1>4, Zenon

\* A step that brings no start and no end into being.
LEMMA TurnIdsShrink ==
  ASSUME IInv, NEW h \in Hosts, Types', left' = left,
         task'[h].pc = "idle" <=> task'[h].phase = None,
         agent'[h].running # 0 \/ agent'[h].starting => agent'[h].alive,
         ~agent'[h].alive => requests'[h] = <<>>,
         agent'[h].running \in {0, agent[h].running},
         \A turn \in Nat : IsEnd(h, turn)' => IsEnd(h, turn),
         \A turn \in Nat : IsStart(h, turn)' =>
           IsStart(h, turn) /\ (agent'[h].alive => agent[h].alive /\ agent'[h].starting = agent[h].starting),
         \A i, j \in Nat : StartAt(h, i)' /\ StartAt(h, j)' => i = j,
         task'[h].phase = "start" => \A i \in Nat : ~StartAt(h, i)'
  PROVE  TurnIds(h)'
<1>1. TurnIds(h) /\ left.turns \in Nat
  BY Zenon DEF IInv, Types
<1> QED
  BY <1>1, SMTT(60) DEF TurnIds

-----------------------------------------------------------------------------
(* The agent. *)

\* What an agent's own step leaves to be shown.
LEMMA AgentStep ==
  ASSUME IInv, NEW h \in Hosts, Types', TurnIds(h)', OthersKept(h), left'.turns <= left.turns,
         agent'[h].alive => agent[h].alive, agent'[h].running \in {0, agent[h].running},
         UNCHANGED <<repo, present, shared, alone, closing, tree, slot, task, op>>
  PROVE  IInv'
<1>1. LockStep(h) /\ TurnKept(h) /\ CallKept(h)
  BY NoLockStep, Zenon
<1>2. World' /\ Rising /\ (~repo /\ repo' => \A g \in Hosts : ~Guarded(g))
  BY <1>1, WorldKept, Zenon
<1>3. CallHolds(h) /\ TurnHolds(h) /\ NoLeftover(h)
  BY Zenon DEF IInv
<1>4. CallHolds(h)'
  BY <1>1, <1>2, <1>3, CallHoldsKept, Zenon
<1>5. TurnHolds(h)' /\ NoLeftover(h)'
  BY <1>1, <1>2, <1>3, TurnHoldsKept, Zenon
<1> QED
  BY <1>1, <1>2, <1>4, <1>5, HostStep, Zenon

\* The agent asks to start a turn, whose id no request had.
LEMMA AskPreserves == ASSUME IInv, NEW h \in Hosts, Ask(h) PROVE IInv'
<1>0. TurnIds(h) /\ left \in [operations : Nat, turns : Nat] /\ requests[h] \in Seq(Requests)
      /\ agent[h] \in Agents
  BY Zenon DEF IInv, Types
<1> DEFINE r == [phase |-> "start", turn |-> left.turns]
<1>1. /\ r \in Requests /\ left.turns \in Nat /\ left.turns > 0
      /\ agent[h].alive /\ agent[h].running = 0 /\ ~agent[h].starting
  BY <1>0, Zenon DEF Ask, Requests
<1>2. /\ requests' = [requests EXCEPT ![h] = Append(requests[h], r)]
      /\ agent' = [agent EXCEPT ![h].starting = TRUE]
      /\ left' \in [operations : Nat, turns : Nat] /\ left'.turns = left.turns - 1
      /\ UNCHANGED <<repo, present, shared, alone, closing, tree, slot, captures, task, op>>
  BY <1>0, <1>1 DEF Ask
<1>3. /\ requests'[h] = Append(requests[h], r) /\ agent'[h].starting
      /\ agent'[h].alive /\ agent'[h].running = 0 /\ agent'[h].owed = agent[h].owed
      /\ OthersKept(h)
  BY <1>1, <1>2, ZenonT(60) DEF IInv, Types, Agents, OthersKept
<1>4. Types'
  <2>1. requests' \in [Hosts -> Seq(Requests)]
    BY <1>0, <1>1, <1>2 DEF IInv, Types
  <2>2. agent' \in [Hosts -> Agents]
    BY <1>0, <1>2, Zenon DEF IInv, Types, Agents
  <2> QED
    BY <1>2, <2>1, <2>2, Zenon DEF IInv, Types
<1> HIDE DEF r
<1>5. TurnIds(h)'
  <2>1. /\ \A q \in Requests : Sent(h, q)' <=> q = r \/ Sent(h, q)
        /\ \A i \in Nat : StartAt(h, i)' <=> StartAt(h, i) \/ (i = Len(requests[h]) + 1 /\ r.phase = "start")
    BY <1>0, <1>1, <1>3, Appended, Zenon
  <2>2. ASSUME NEW turn \in Nat
        PROVE  /\ IsEnd(h, turn)' <=> IsEnd(h, turn)
               /\ IsStart(h, turn)' <=> IsStart(h, turn) \/ turn = left.turns
    <3>1. [phase |-> "end", turn |-> turn] \in Requests /\ [phase |-> "start", turn |-> turn] \in Requests
      BY Zenon DEF Requests
    <3>2. [phase |-> "end", turn |-> turn] # r /\ ([phase |-> "start", turn |-> turn] = r <=> turn = left.turns)
      BY Zenon DEF r
    <3>3. task' = task
      BY <1>2, Zenon
    <3> QED
      BY <1>3, <2>1, <3>1, <3>2, <3>3, Zenon DEF IsEnd, IsStart
  <2>3. \A i \in Nat : ~StartAt(h, i)
    <3> SUFFICES ASSUME NEW i \in Nat, StartAt(h, i) PROVE FALSE
      BY Zenon
    <3>1. requests[h][i] \in Requests /\ i \in 1..Len(requests[h]) /\ requests[h][i].phase = "start"
      BY <1>0 DEF StartAt
    <3>2. requests[h][i].turn \in Nat /\ requests[h][i] = [phase |-> "start", turn |-> requests[h][i].turn]
      BY <3>1, Zenon DEF Requests
    <3>3. IsStart(h, requests[h][i].turn)
      BY <3>1, <3>2, Zenon DEF IsStart, Sent
    <3> QED
      BY <1>0, <1>1, <3>2, <3>3, Zenon DEF TurnIds
  <2>4. \A turn \in Nat : ~IsStart(h, turn)
    BY <1>0, <1>1, Zenon DEF TurnIds
  <2>5. task[h].phase # "start"
    <3>1. task[h].turn \in Nat
      BY Zenon DEF IInv, Types, Tasks
    <3> QED
      BY <2>4, <3>1, Zenon DEF IsStart
  <2>6. task'[h] = task[h]
    BY <1>2, Zenon
  <2> QED
    BY <1>0, <1>1, <1>2, <1>3, <2>1, <2>2, <2>3, <2>4, <2>5, <2>6 DEF TurnIds
<1> QED
  BY <1>1, <1>2, <1>3, <1>4, <1>5, AgentStep

\* A turn ends.
LEMMA SettlePreserves == ASSUME IInv, NEW h \in Hosts, Settle(h) PROVE IInv'
<1>0. TurnIds(h) /\ agent[h] \in Agents /\ left.turns \in Nat
  BY Zenon DEF IInv, Types
<1>1. /\ agent' = [agent EXCEPT ![h].running = 0, ![h].owed = agent[h].owed \cup {agent[h].running}]
      /\ agent[h].alive /\ agent[h].running # 0 /\ agent[h].running \in Nat
      /\ UNCHANGED <<repo, present, shared, alone, closing, tree, slot, captures, task, requests, op, left>>
  BY <1>0, Zenon DEF Settle, Agents
<1>2. /\ agent'[h].alive /\ agent'[h].running = 0 /\ agent'[h].starting = agent[h].starting
      /\ agent'[h].owed = agent[h].owed \cup {agent[h].running} /\ OthersKept(h)
  BY <1>1, ZenonT(60) DEF IInv, Types, Agents, OthersKept
<1>3. Types'
  <2>1. agent' \in [Hosts -> Agents]
    BY <1>0, <1>1, Zenon DEF IInv, Types, Agents
  <2> QED
    BY <1>1, <2>1, Zenon DEF IInv, Types
<1>4. \A turn \in Nat :
        /\ IsEnd(h, turn)' <=> IsEnd(h, turn) \/ turn = agent[h].running
        /\ IsStart(h, turn)' <=> IsStart(h, turn)
  BY <1>1, <1>2, Zenon DEF IsEnd, IsStart, Sent
<1>5. \A i \in Nat : StartAt(h, i)' <=> StartAt(h, i)
  BY <1>1, Zenon DEF StartAt
<1>6. left'.turns = left.turns /\ left'.turns <= left.turns /\ task'[h] = task[h] /\ requests'[h] = requests[h]
  BY <1>0, <1>1
<1>7. TurnIds(h)'
  <2>1. agent[h].running \in Nat /\ agent[h].running # 0 /\ agent[h].running > left.turns
    BY <1>0, <1>1, Zenon DEF TurnIds
  <2>2. \A turn \in Nat : IsEnd(h, turn)' => ~IsStart(h, turn)' /\ turn > left.turns /\ turn # 0
    BY <1>0, <1>4, <2>1 DEF TurnIds
  <2>3. \A turn \in Nat : ~IsStart(h, turn)'
    BY <1>0, <1>4, <2>1, Zenon DEF TurnIds
  <2>4. task[h].phase = "start" => \A i \in Nat : ~StartAt(h, i)
    BY <1>0, Zenon DEF TurnIds
  <2> QED
    BY <1>0, <1>2, <1>5, <1>6, <2>2, <2>3, <2>4, Zenon DEF TurnIds
<1> QED
  BY <1>1, <1>2, <1>3, <1>6, <1>7, AgentStep, Zenon

LEMMA SendEndPreserves == ASSUME IInv, NEW h \in Hosts, SendEnd(h) PROVE IInv'
<1>0. TurnIds(h) /\ agent[h] \in Agents /\ left.turns \in Nat /\ requests[h] \in Seq(Requests)
  BY Zenon DEF IInv, Types
<1>1. PICK end \in agent[h].owed :
        /\ agent' = [agent EXCEPT ![h].owed = agent[h].owed \ {end}]
        /\ requests' = [requests EXCEPT ![h] = Append(requests[h], [phase |-> "end", turn |-> end])]
  BY Zenon DEF SendEnd
<1>2. UNCHANGED <<repo, present, shared, alone, closing, tree, slot, captures, task, op, left>> /\ agent[h].alive
  BY Zenon DEF SendEnd
<1> DEFINE r == [phase |-> "end", turn |-> end]
<1>3. end \in Nat /\ r \in Requests
  BY <1>0, Zenon DEF Agents, Requests
<1>4. /\ agent'[h].alive = agent[h].alive /\ agent'[h].running = agent[h].running
      /\ agent'[h].starting = agent[h].starting /\ agent'[h].owed = agent[h].owed \ {end}
      /\ requests'[h] = Append(requests[h], r) /\ OthersKept(h)
  BY <1>1, <1>2, Zenon DEF IInv, Types, Agents, OthersKept
<1>5. Types'
  <2>1. requests' \in [Hosts -> Seq(Requests)]
    BY <1>0, <1>1, <1>3 DEF IInv, Types
  <2>2. agent' \in [Hosts -> Agents]
    BY <1>0, <1>1, Zenon DEF IInv, Types, Agents
  <2> QED
    BY <1>2, <2>1, <2>2, Zenon DEF IInv, Types
<1> HIDE DEF r
<1>6. /\ \A q \in Requests : Sent(h, q)' <=> q = r \/ Sent(h, q)
      /\ \A i \in Nat : StartAt(h, i)' <=> StartAt(h, i) \/ (i = Len(requests[h]) + 1 /\ r.phase = "start")
  BY <1>0, <1>3, <1>4, Appended, Zenon
<1>7. ASSUME NEW turn \in Nat
      PROVE  (IsEnd(h, turn)' => IsEnd(h, turn)) /\ (IsStart(h, turn)' => IsStart(h, turn))
  <2>1. [phase |-> "end", turn |-> turn] \in Requests /\ [phase |-> "start", turn |-> turn] \in Requests
    BY Zenon DEF Requests
  <2>2. ([phase |-> "end", turn |-> turn] = r <=> turn = end) /\ [phase |-> "start", turn |-> turn] # r
    BY Zenon DEF r
  <2>3. task' = task
    BY <1>2, Zenon
  <2> QED
    BY <1>4, <1>6, <2>1, <2>2, <2>3, Zenon DEF IsEnd, IsStart
<1>8. \A i \in Nat : StartAt(h, i)' => StartAt(h, i)
  BY <1>6, Zenon DEF r
<1>9. TurnIds(h)'
  <2>1. /\ task'[h] = task[h] /\ left' = left
        /\ agent[h].running # 0 \/ agent[h].starting => agent[h].alive
        /\ task[h].pc = "idle" <=> task[h].phase = None
        /\ \A i, j \in Nat : StartAt(h, i)' /\ StartAt(h, j)' => i = j
        /\ task[h].phase = "start" => \A i \in Nat : ~StartAt(h, i)'
    BY <1>0, <1>2, <1>8, Zenon DEF TurnIds
  <2> QED
    BY <1>2, <1>4, <1>5, <1>7, <2>1, TurnIdsShrink, Zenon
<1>10. left'.turns <= left.turns
  BY <1>0, <1>2, SMTT(60)
<1> QED
  BY <1>2, <1>4, <1>5, <1>9, <1>10, AgentStep, Zenon

\* The agent's process ends.
LEMMA ExitPreserves == ASSUME IInv, NEW h \in Hosts, Exit(h) PROVE IInv'
<1>0. TurnIds(h) /\ left.turns \in Nat
  BY Zenon DEF IInv, Types
<1>1. /\ agent'[h] = [alive |-> FALSE, starting |-> FALSE, running |-> 0, owed |-> {}]
      /\ requests'[h] = <<>> /\ OthersKept(h)
      /\ UNCHANGED <<repo, present, shared, alone, closing, tree, slot, captures, task, op, left>>
  BY Zenon DEF Exit, IInv, Types, OthersKept
<1>2. Types'
  <2>1. requests' \in [Hosts -> Seq(Requests)]
    BY DEF Exit, IInv, Types
  <2>2. agent' \in [Hosts -> Agents]
    BY Zenon DEF Exit, IInv, Types, Agents
  <2> QED
    BY <1>1, <2>1, <2>2, Zenon DEF IInv, Types
<1>3. /\ \A turn \in Nat : (IsEnd(h, turn)' => IsEnd(h, turn)) /\ (IsStart(h, turn)' => IsStart(h, turn))
      /\ \A i \in Nat : ~StartAt(h, i)'
  BY <1>1, SMTT(60) DEF IsEnd, IsStart, Sent, StartAt
<1>4. TurnIds(h)'
  <2>1. task'[h] = task[h] /\ (task[h].pc = "idle" <=> task[h].phase = None)
    BY <1>0, <1>1, Zenon DEF TurnIds
  <2> QED
    BY <1>1, <1>2, <1>3, <2>1, TurnIdsShrink, SMTT(60)
<1>5. left'.turns <= left.turns
  BY <1>0, <1>1
<1> QED
  BY <1>1, <1>2, <1>4, <1>5, AgentStep

-----------------------------------------------------------------------------
(* The capture task. *)

\* What a step of the capture task leaves to be shown.
LEMMA TaskStep ==
  ASSUME IInv, NEW h \in Hosts, Types', World', OthersKept(h), LockStep(h), CallKept(h),
         UNCHANGED <<repo, op, left>>, TurnIds(h)', TurnHolds(h)', NoLeftover(h)'
  PROVE  IInv'
<1>1. Rising /\ (~repo /\ repo' => \A g \in Hosts : ~Guarded(g))
  BY Zenon DEF Rising
<1>2. left'.turns <= left.turns
  BY DEF IInv, Types
<1>3. CallHolds(h)'
  BY <1>1, CallHoldsKept, Zenon DEF IInv
<1> QED
  BY <1>1, <1>2, <1>3, HostStep, Zenon

\* A request is taken up: what is on its way stays so.
LEMMA TakeIds ==
  ASSUME IInv, NEW h \in Hosts, Types', task[h].pc = "idle", requests[h] # <<>>,
         requests'[h] = Tail(requests[h]),
         task'[h].pc # "idle", task'[h].phase = Head(requests[h]).phase, task'[h].turn = Head(requests[h]).turn,
         UNCHANGED <<agent, left>>
  PROVE  TurnIds(h)' /\ (task'[h].phase = "start" => agent[h].running = 0)
<1>0. TurnIds(h) /\ requests[h] \in Seq(Requests) /\ agent[h] \in Agents
  BY Zenon DEF IInv, Types
<1>1. /\ Head(requests[h]) \in Requests /\ Sent(h, Head(requests[h]))
      /\ \A q \in Requests : Sent(h, q)' => Sent(h, q)
      /\ \A i \in Nat : StartAt(h, i)' => StartAt(h, i + 1) /\ i + 1 > 1
      /\ Head(requests[h]).phase = "start" => StartAt(h, 1)
  BY <1>0, Taken, Zenon
<1>2. PICK r \in Requests : r = Head(requests[h])
  BY <1>1, Zenon
<1>3. r.phase \in {"start", "end"} /\ r.turn \in Nat /\ r = [phase |-> r.phase, turn |-> r.turn]
  BY Zenon DEF Requests
<1>4. task[h].phase = None
  BY <1>0, Zenon DEF TurnIds
<1>5. ASSUME NEW turn \in Nat
      PROVE  (IsEnd(h, turn)' => IsEnd(h, turn)) /\ (IsStart(h, turn)' => IsStart(h, turn))
  <2>1. [phase |-> "end", turn |-> turn] \in Requests /\ [phase |-> "start", turn |-> turn] \in Requests
    BY Zenon DEF Requests
  <2>2. r.phase = "end" /\ r.turn = turn => r = [phase |-> "end", turn |-> turn]
    BY <1>3, Zenon
  <2>3. r.phase = "start" /\ r.turn = turn => r = [phase |-> "start", turn |-> turn]
    BY <1>3, Zenon
  <2> QED
    BY <1>1, <1>2, <2>1, <2>2, <2>3, Zenon DEF IsEnd, IsStart
<1>6. \A i, j \in Nat : StartAt(h, i)' /\ StartAt(h, j)' => i = j
  <2> SUFFICES ASSUME NEW i \in Nat, NEW j \in Nat, StartAt(h, i)', StartAt(h, j)' PROVE i = j
    BY Zenon
  <2>1. StartAt(h, i + 1) /\ StartAt(h, j + 1) /\ i + 1 \in Nat /\ j + 1 \in Nat
    BY <1>1
  <2>2. i + 1 = j + 1
    BY <1>0, <2>1, Zenon DEF TurnIds
  <2> QED
    BY <2>2
<1>7. task'[h].phase = "start" => \A i \in Nat : ~StartAt(h, i)'
  <2> SUFFICES ASSUME r.phase = "start", NEW i \in Nat, StartAt(h, i)' PROVE FALSE
    BY <1>2, Zenon
  <2>1. StartAt(h, i + 1) /\ StartAt(h, 1) /\ i + 1 \in Nat /\ 1 \in Nat /\ i + 1 > 1
    BY <1>1, <1>2
  <2>2. i + 1 = 1
    BY <1>0, <2>1, Zenon DEF TurnIds
  <2> QED
    BY <2>1, <2>2
<1>8. /\ agent[h].running # 0 \/ agent[h].starting => agent[h].alive
      /\ agent[h].alive
      /\ task'[h].phase # None
  BY <1>0, <1>2, <1>3, Zenon DEF TurnIds, None
<1>9. TurnIds(h)'
  BY <1>5, <1>6, <1>7, <1>8, TurnIdsShrink, Zenon
<1>10. task'[h].phase = "start" => IsStart(h, r.turn)
  BY <1>1, <1>2, <1>3, Zenon DEF IsStart
<1> QED
  BY <1>0, <1>3, <1>9, <1>10, Zenon DEF TurnIds

\* A start ends the mark of a run that never settled, while no turn runs.
LEMMA TakeStartPreserves == ASSUME IInv, NEW h \in Hosts, TakeStart(h) PROVE IInv'
<1>0. /\ TurnIds(h) /\ requests[h] \in Seq(Requests) /\ task \in [Hosts -> Tasks]
      /\ Head(requests[h]) \in Requests /\ TurnHolds(h) /\ NoLeftover(h) /\ agent[h] \in Agents
  BY DEF IInv, Types, TakeStart
<1>1. /\ task' = [task EXCEPT ![h] = [Idle EXCEPT !.pc = "folder", !.phase = "start",
                                                 !.turn = Head(requests[h]).turn]]
      /\ task[h].pc = "idle" /\ requests[h] # <<>> /\ Head(requests[h]).phase = "start"
      /\ requests' = [requests EXCEPT ![h] = Tail(requests[h])]
      /\ slot' = [slot EXCEPT ![h] = 0] /\ Drop({Turn(h)}, Locks)
      /\ UNCHANGED <<repo, present, closing, tree, captures, agent, op, left>>
  BY Zenon DEF TakeStart
<1>2. /\ task'[h].pc = "folder" /\ task'[h].phase = "start" /\ task'[h].turn = Head(requests[h]).turn
      /\ requests'[h] = Tail(requests[h]) /\ slot'[h] = 0 /\ OthersKept(h)
  BY <1>0, <1>1, Zenon DEF Idle, IInv, Types, OthersKept
<1>3. LockStep(h) /\ CallKept(h) /\ \A l \in Locks : Turn(h) \notin shared'[l]
  BY <1>1, DropStep, HolderNames
<1>4. Types'
  <2>1. [Idle EXCEPT !.pc = "folder", !.phase = "start", !.turn = Head(requests[h]).turn] \in Tasks
    BY <1>0, Zenon DEF Idle, Tasks, Requests, Trees
  <2>2. task' \in [Hosts -> Tasks]
    BY <1>0, <1>1, <2>1, Zenon
  <2>3. requests' \in [Hosts -> Seq(Requests)] /\ slot' \in [Hosts -> Nat]
    BY <1>0, <1>1 DEF IInv, Types
  <2> QED
    BY <1>1, <1>3, <2>2, <2>3, Zenon DEF IInv, Types, LockStep
<1>5. World'
  BY <1>1, <1>3, WorldKept, Zenon
<1>6. TurnIds(h)' /\ agent[h].running = 0
  BY <1>1, <1>2, <1>4, TakeIds, Zenon
<1>7. TurnHolds(h)' /\ NoLeftover(h)'
  BY <1>0, <1>1, <1>2, <1>3, <1>6, Zenon DEF TurnHolds, NoLeftover
<1> QED
  BY <1>1, <1>2, <1>3, <1>4, <1>5, <1>6, <1>7, TaskStep, Zenon

LEMMA TakeEndPreserves == ASSUME IInv, NEW h \in Hosts, TakeEnd(h) PROVE IInv'
<1>0. /\ TurnIds(h) /\ requests[h] \in Seq(Requests) /\ task \in [Hosts -> Tasks]
      /\ Head(requests[h]) \in Requests /\ TurnHolds(h) /\ NoLeftover(h) /\ agent[h] \in Agents
  BY DEF IInv, Types, TakeEnd
<1>1. /\ task' = [task EXCEPT ![h] = [Idle EXCEPT !.pc = "tree", !.phase = "end",
                                                 !.turn = Head(requests[h]).turn]]
      /\ task[h].pc = "idle" /\ requests[h] # <<>> /\ Head(requests[h]).phase = "end"
      /\ requests' = [requests EXCEPT ![h] = Tail(requests[h])]
      /\ UNCHANGED <<repo, present, shared, alone, closing, tree, slot, captures, agent, op, left>>
  BY Zenon DEF TakeEnd
<1>2. /\ task'[h].pc = "tree" /\ task'[h].phase = "end" /\ task'[h].turn = Head(requests[h]).turn
      /\ requests'[h] = Tail(requests[h]) /\ OthersKept(h)
  BY <1>0, <1>1, Zenon DEF Idle, IInv, Types, OthersKept
<1>3. LockStep(h) /\ CallKept(h) /\ TurnKept(h)
  BY <1>1, NoLockStep, Zenon
<1>4. Types'
  <2>1. [Idle EXCEPT !.pc = "tree", !.phase = "end", !.turn = Head(requests[h]).turn] \in Tasks
    BY <1>0, Zenon DEF Idle, Tasks, Requests, Trees
  <2>2. task' \in [Hosts -> Tasks]
    BY <1>0, <1>1, <2>1, Zenon
  <2>3. requests' \in [Hosts -> Seq(Requests)]
    BY <1>0, <1>1 DEF IInv, Types
  <2> QED
    BY <1>1, <2>2, <2>3, Zenon DEF IInv, Types
<1>5. World'
  BY <1>1, <1>3, WorldKept, Zenon
<1>6. TurnIds(h)'
  BY <1>1, <1>2, <1>4, TakeIds, Zenon
<1>7. task[h].phase = None /\ slot'[h] = slot[h]
  BY <1>0, <1>1, Zenon DEF TurnIds
<1>8. TurnHolds(h)' /\ NoLeftover(h)'
  BY <1>0, <1>1, <1>2, <1>7, Zenon DEF TurnHolds, NoLeftover, Guarded
<1> QED
  BY <1>1, <1>2, <1>3, <1>4, <1>5, <1>6, <1>8, TaskStep, Zenon

\* The task goes on with the same request.
TaskMoves(h, pc) ==
  /\ task' \in [Hosts -> Tasks] /\ task'[h].pc = pc
  /\ task'[h].phase = task[h].phase /\ task'[h].turn = task[h].turn
  /\ OthersKept(h)
  /\ UNCHANGED <<repo, present, closing, requests, agent, op, left>>

LEMMA Moves ==
  ASSUME IInv, NEW h \in Hosts, NEW pc, pc # "idle", task[h].pc # "idle", TaskMoves(h, pc)
  PROVE  TurnIds(h)'
<1>1. /\ TurnIds(h) /\ left.turns \in Nat /\ left'.turns \in Nat /\ left'.turns <= left.turns
      /\ agent[h].running \in Nat
  BY DEF IInv, Types, Agents, TaskMoves
<1> QED
  BY <1>1, TurnIdsKept, Zenon DEF TaskMoves

LEMMA LockFolderPreserves == ASSUME IInv, NEW h \in Hosts, LockFolder(h) PROVE IInv'
<1>0. TurnHolds(h) /\ NoLeftover(h) /\ task \in [Hosts -> Tasks] /\ Folder(At[h]) \in Locks
  BY LockNames, PlacesAssumption, Zenon DEF IInv, Types
<1>1. TaskMoves(h, "tree") /\ task[h].pc = "folder" /\ UNCHANGED <<tree, slot, captures>>
  BY <1>0, Zenon DEF LockFolder, Tasks, TaskMoves, OthersKept
<1>2. /\ LockStep(h) /\ CallKept(h)
      /\ \A k \in Locks : Turn(h) \in shared'[k] <=> k = Folder(At[h]) \/ Turn(h) \in shared[k]
  BY <1>0, SharedStep, Zenon DEF LockFolder
<1>3. Types' /\ World'
  BY <1>1, <1>2, WorldKept, Zenon DEF IInv, Types, TaskMoves, LockStep
<1>4. TurnIds(h)'
  BY <1>1, Moves, Zenon
<1>5. task[h].phase = "start" /\ slot[h] = 0 /\ slot'[h] = 0
  BY <1>0, <1>1, Zenon DEF TurnHolds
<1>6. TurnHolds(h)' /\ NoLeftover(h)'
  BY <1>0, <1>1, <1>2, <1>5, Zenon DEF TurnHolds, NoLeftover, TaskMoves
<1> QED
  BY <1>1, <1>2, <1>3, <1>4, <1>6, TaskStep, Zenon DEF TaskMoves

\* The project is opened under the folder's lock: outside Git that lock is the turn's guard.
LEMMA OpenTreePreserves == ASSUME IInv, NEW h \in Hosts, OpenTree(h) PROVE IInv'
<1>0. /\ TurnHolds(h) /\ NoLeftover(h) /\ task \in [Hosts -> Tasks] /\ repo \in BOOLEAN
      /\ task[h].pc = "tree" /\ task[h].phase = "start"
      /\ UNCHANGED <<repo, present, shared, alone, closing, slot, captures, requests, agent, op, left>>
  BY Zenon DEF IInv, Types, OpenTree
<1>1. PICK found \in {"open", "outside"} :
        /\ Opened(h, found)
        /\ task' = [task EXCEPT ![h].pc = IF found = "open" THEN "checkout" ELSE "mark", ![h].tree = found]
  BY Zenon DEF OpenTree
<1>2. /\ tree' \in [Hosts -> Trees]
      /\ found = "open" => repo
      /\ found = "outside" => ~repo /\ At[h] = Main
      /\ \A g \in Hosts : tree'[g] = "open" => repo
  BY <1>1, OpenedTells, Zenon
<1> DEFINE pc == IF found = "open" THEN "checkout" ELSE "mark"
<1>3. TaskMoves(h, pc)
  BY <1>0, <1>1, ZenonT(60) DEF TaskMoves, OthersKept, Tasks, Trees
<1>4. LockStep(h) /\ CallKept(h) /\ TurnKept(h)
  BY <1>0, NoLockStep, Zenon
<1>5. Types' /\ World'
  <2>1. task' \in [Hosts -> Tasks]
    BY <1>3, Zenon DEF TaskMoves
  <2>2. Types'
    BY <1>0, <1>2, <2>1, Zenon DEF IInv, Types
  <2>3. World'
    BY <1>0, <1>2, Zenon DEF IInv, World
  <2> QED
    BY <2>2, <2>3, Zenon
<1>6. TurnIds(h)'
  BY <1>0, <1>3, Moves, Zenon
<1>7. /\ slot[h] = 0 /\ slot'[h] = 0 /\ Turn(h) \in shared[Folder(At[h])]
      /\ task'[h].pc = pc /\ task'[h].phase = "start"
  BY <1>0, <1>3, Zenon DEF TurnHolds, TaskMoves
<1>8. pc = "mark" => Guarded(h)'
  BY <1>0, <1>2, <1>7, Zenon DEF Guarded
<1>9. TurnHolds(h)' /\ NoLeftover(h)'
  BY <1>0, <1>2, <1>7, <1>8, Zenon DEF TurnHolds, NoLeftover
<1> QED
  BY <1>0, <1>3, <1>4, <1>5, <1>6, <1>9, TaskStep, Zenon DEF TaskMoves

LEMMA OpenTreeAtEndPreserves == ASSUME IInv, NEW h \in Hosts, OpenTreeAtEnd(h) PROVE IInv'
<1>0. /\ TurnHolds(h) /\ NoLeftover(h) /\ task \in [Hosts -> Tasks]
      /\ task[h].pc = "tree" /\ task[h].phase = "end"
      /\ UNCHANGED <<repo, present, shared, alone, closing, slot, captures, requests, agent, op, left>>
  BY Zenon DEF IInv, Types, OpenTreeAtEnd
<1>1. PICK found \in {"open", "outside", "failed"} :
        Opened(h, found) /\ task' = [task EXCEPT ![h].pc = "captures", ![h].tree = found]
  BY Zenon DEF OpenTreeAtEnd
<1>2. tree' \in [Hosts -> Trees] /\ \A g \in Hosts : tree'[g] = "open" => repo
  BY <1>1, OpenedTells, Zenon
<1>3. TaskMoves(h, "captures")
  <2>1. task' \in [Hosts -> Tasks]
    BY <1>0, <1>1, ZenonT(60) DEF Tasks, Trees
  <2>2. task'[h].pc = "captures" /\ task'[h].phase = task[h].phase /\ task'[h].turn = task[h].turn
    BY <1>0, <1>1, Zenon DEF Tasks
  <2>3. \A g \in Hosts \ {h} : task'[g] = task[g]
    BY <1>0, <1>1, Zenon
  <2> QED
    BY <1>0, <2>1, <2>2, <2>3, Zenon DEF TaskMoves, OthersKept
<1>4. LockStep(h) /\ CallKept(h) /\ TurnKept(h)
  BY <1>0, NoLockStep, Zenon
<1>5. Types' /\ World'
  <2>1. task' \in [Hosts -> Tasks]
    BY <1>3, Zenon DEF TaskMoves
  <2>2. Types'
    BY <1>0, <1>2, <2>1, Zenon DEF IInv, Types
  <2>3. World'
    BY <1>0, <1>2, Zenon DEF IInv, World
  <2> QED
    BY <2>2, <2>3, Zenon
<1>6. TurnIds(h)'
  BY <1>0, <1>3, Moves, Zenon
<1>7. task'[h].pc = "captures" /\ task'[h].phase = "end"
  BY <1>0, <1>3, Zenon DEF TaskMoves
<1>8. TurnHolds(h)' /\ NoLeftover(h)'
  BY <1>0, <1>7, Zenon DEF TurnHolds, NoLeftover, Guarded
<1> QED
  BY <1>0, <1>3, <1>4, <1>5, <1>6, <1>8, TaskStep, Zenon DEF TaskMoves

LEMMA LockCheckoutPreserves == ASSUME IInv, NEW h \in Hosts, LockCheckout(h) PROVE IInv'
<1>0. /\ TurnHolds(h) /\ NoLeftover(h) /\ task \in [Hosts -> Tasks] /\ Checkout(At[h]) \in Locks
      /\ Folder(At[h]) \in Locks
  BY LockNames, PlacesAssumption, Zenon DEF IInv, Types
<1>1. TaskMoves(h, "repository") /\ task[h].pc = "checkout" /\ UNCHANGED <<tree, slot, captures>>
  BY <1>0, Zenon DEF LockCheckout, Tasks, TaskMoves, OthersKept
<1>2. /\ LockStep(h) /\ CallKept(h)
      /\ \A k \in Locks : Turn(h) \in shared'[k] <=> k = Checkout(At[h]) \/ Turn(h) \in shared[k]
  BY <1>0, SharedStep, Zenon DEF LockCheckout
<1>3. Types' /\ World'
  BY <1>1, <1>2, WorldKept, Zenon DEF IInv, Types, TaskMoves, LockStep
<1>4. TurnIds(h)'
  BY <1>1, Moves, Zenon
<1>5. task[h].phase = "start" /\ slot[h] = 0 /\ slot'[h] = 0 /\ repo /\ Turn(h) \in shared[Folder(At[h])]
  BY <1>0, <1>1, Zenon DEF TurnHolds
<1>6. TurnHolds(h)' /\ NoLeftover(h)'
  BY <1>0, <1>1, <1>2, <1>5, Zenon DEF TurnHolds, NoLeftover, TaskMoves
<1> QED
  BY <1>1, <1>2, <1>3, <1>4, <1>6, TaskStep, Zenon DEF TaskMoves

\* With the repository's lock the start has the guard of its turn.
LEMMA LockRepositoryPreserves == ASSUME IInv, NEW h \in Hosts, LockRepository(h) PROVE IInv'
<1>0. /\ TurnHolds(h) /\ NoLeftover(h) /\ task \in [Hosts -> Tasks] /\ Checkout(At[h]) \in Locks
      /\ Folder(At[h]) \in Locks /\ Repository \in Locks
      /\ Folder(At[h]) # Repository /\ Folder(At[h]) # Checkout(At[h])
      /\ shared \in [Locks -> SUBSET Holders] /\ alone \in [Locks -> SUBSET Holders] /\ Turn(h) \in Holders
  BY LockNames, PlacesAssumption, HolderNames, Zenon DEF IInv, Types
<1>1. /\ TaskMoves(h, "mark") /\ task[h].pc = "repository" /\ UNCHANGED <<tree, slot, captures, alone>>
      /\ alone[Repository] = {}
  BY <1>0, Zenon DEF LockRepository, Tasks, TaskMoves, OthersKept
<1>2. \A l \in Locks : shared'[l] = IF l = Repository THEN shared[l] \cup {Turn(h)}
                                    ELSE IF l = Folder(At[h]) THEN shared[l] \ {Turn(h)}
                                    ELSE shared[l]
  BY Zenon DEF LockRepository
<1>3. LockStep(h)
  <2>1. shared' \in [Locks -> SUBSET Holders]
    BY <1>0, Zenon DEF LockRepository
  <2>2. \A l \in Locks : alone[l] # {} => shared'[l] = {}
    BY <1>1, <1>2, Zenon DEF IInv, World
  <2>3. \A g \in Hosts \ {h}, l \in Locks : Turn(g) \in shared'[l] <=> Turn(g) \in shared[l]
    BY <1>2, HolderNames, Zenon
  <2> QED
    BY <1>0, <1>1, <2>1, <2>2, <2>3, Zenon DEF LockStep
<1>4. CallKept(h)
  BY <1>1, Zenon DEF CallKept
<1>5. Types' /\ World'
  BY <1>1, <1>3, WorldKept, Zenon DEF IInv, Types, TaskMoves, LockStep
<1>6. TurnIds(h)'
  BY <1>1, Moves, Zenon
<1>7. /\ task[h].phase = "start" /\ slot[h] = 0 /\ slot'[h] = 0 /\ repo
      /\ Turn(h) \in shared[Folder(At[h])] /\ Turn(h) \in shared[Checkout(At[h])]
  BY <1>0, <1>1, Zenon DEF TurnHolds
<1>8. Guarded(h)'
  BY <1>0, <1>1, <1>2, <1>7, Zenon DEF Guarded, TaskMoves
<1>9. TurnHolds(h)' /\ NoLeftover(h)'
  BY <1>0, <1>1, <1>7, <1>8, Zenon DEF TurnHolds, NoLeftover, TaskMoves
<1> QED
  BY <1>1, <1>3, <1>4, <1>5, <1>6, <1>9, TaskStep, Zenon DEF TaskMoves

\* A start that stops has no mark yet, and nothing is left of it.
LEMMA FailPreserves ==
  ASSUME IInv, NEW h \in Hosts, Fail(h), task[h].phase = "start", task[h].pc \notin {"captures", "checkpoint"},
         tree' \in [Hosts -> Trees], \A g \in Hosts : tree'[g] = "open" => repo
  PROVE  IInv'
<1>0. /\ TurnHolds(h) /\ NoLeftover(h) /\ TurnIds(h) /\ task \in [Hosts -> Tasks] /\ slot[h] = 0
      /\ agent[h] \in Agents
  BY Zenon DEF IInv, Types, TurnHolds
<1>1. /\ UNCHANGED <<repo, present, closing, slot, captures, requests, op, left>>
      /\ task'[h] = Idle /\ agent'[h].starting = FALSE /\ agent'[h].alive = agent[h].alive
      /\ agent'[h].running = agent[h].running /\ agent'[h].owed = agent[h].owed /\ OthersKept(h)
  BY DEF Fail, OthersKept, IInv, Types, Agents
<1>2. LockStep(h) /\ CallKept(h) /\ \A l \in Locks : Turn(h) \notin shared'[l]
  BY DropStep, HolderNames DEF Fail
<1>3. Types'
  <2>1. Idle \in Tasks
    BY Zenon DEF Idle, Tasks, Trees
  <2>2. task' \in [Hosts -> Tasks]
    BY <1>0, <2>1, Zenon DEF Fail
  <2>3. agent' \in [Hosts -> Agents]
    BY ZenonT(60) DEF Fail, IInv, Types, Agents
  <2> QED
    BY <1>1, <1>2, <2>2, <2>3, Zenon DEF IInv, Types, LockStep
<1>4. World'
  BY <1>1, <1>2, Zenon DEF IInv, World, LockStep
<1>5. TurnIds(h)'
  <2>1. \A i \in Nat : ~StartAt(h, i)
    BY <1>0, Zenon DEF TurnIds
  <2>2. \A i \in Nat : ~StartAt(h, i)'
    BY <1>1, <2>1, Zenon DEF StartAt
  <2>3. task'[h].phase = None /\ task'[h].pc = "idle"
    BY <1>1 DEF Idle
  <2>4. \A turn \in Nat : ~IsStart(h, turn)'
    <3> SUFFICES ASSUME NEW turn \in Nat, Sent(h, [phase |-> "start", turn |-> turn]) PROVE FALSE
      BY <1>1, <2>3, Zenon DEF IsStart, Sent, None
    <3>1. PICK i \in 1..Len(requests[h]) : requests[h][i] = [phase |-> "start", turn |-> turn]
      BY Zenon DEF Sent
    <3>2. i \in Nat /\ StartAt(h, i)
      BY <3>1 DEF StartAt
    <3> QED
      BY <2>1, <3>2, Zenon
  <2>5. \A turn \in Nat : IsEnd(h, turn)' => IsEnd(h, turn)
    BY <1>1, <2>3, Zenon DEF IsEnd, Sent, None
  <2>6. /\ agent[h].running # 0 => agent[h].alive
        /\ ~agent[h].alive => requests[h] = <<>>
    BY <1>0, Zenon DEF TurnIds
  <2> QED
    BY <1>1, <1>3, <2>2, <2>3, <2>4, <2>5, <2>6, TurnIdsShrink, Zenon
<1>6. TurnHolds(h)' /\ NoLeftover(h)'
  BY <1>0, <1>1, <1>2, SMTT(60) DEF TurnHolds, NoLeftover, Idle, None
<1> QED
  BY <1>1, <1>2, <1>3, <1>4, <1>5, <1>6, TaskStep, Zenon

LEMMA StartFailsPreserves == ASSUME IInv, NEW h \in Hosts, StartFails(h) PROVE IInv'
<1>1. /\ Fail(h) /\ task[h].phase = "start" /\ task[h].pc \notin {"captures", "checkpoint"}
      /\ UNCHANGED tree \/ Opened(h, "failed")
  BY Zenon DEF StartFails
<1>2. tree' \in [Hosts -> Trees] /\ \A g \in Hosts : tree'[g] = "open" => repo
  <2>1. CASE UNCHANGED tree
    BY <2>1, Zenon DEF IInv, Types, World
  <2>2. CASE Opened(h, "failed")
    BY <2>2, OpenedTells, Zenon
  <2> QED
    BY <1>1, <2>1, <2>2, Zenon
<1> QED
  BY <1>1, <1>2, FailPreserves, Zenon

\* The turn is marked while its guard is held, and not any more once the close was told.
LEMMA MarkPreserves == ASSUME IInv, NEW h \in Hosts, Mark(h) PROVE IInv'
<1>0. /\ TurnHolds(h) /\ NoLeftover(h) /\ TurnIds(h) /\ task \in [Hosts -> Tasks] /\ slot \in [Hosts -> Nat]
      /\ task[h].pc = "mark" /\ task[h].turn \in Nat /\ agent[h] \in Agents /\ left.turns \in Nat
  BY Zenon DEF IInv, Types, Mark, Tasks
<1>1. task[h].phase = "start"
  BY <1>0, Zenon DEF TurnHolds
<1>2. CASE Fail(h) /\ UNCHANGED tree
  <2>1. tree' \in [Hosts -> Trees] /\ \A g \in Hosts : tree'[g] = "open" => repo
    BY <1>2, Zenon DEF IInv, Types, World
  <2> QED
    BY <1>0, <1>1, <1>2, <2>1, FailPreserves, Zenon
<1>3. CASE /\ ~Closed(h)
           /\ slot' = [slot EXCEPT ![h] = task[h].turn]
           /\ task' = [task EXCEPT ![h].pc = "captures"]
           /\ UNCHANGED <<repo, present, shared, alone, closing, tree, captures, requests, agent, op, left>>
  <2>1. TaskMoves(h, "captures") /\ slot' \in [Hosts -> Nat] /\ slot'[h] = task[h].turn
    BY <1>0, <1>3, Zenon DEF TaskMoves, OthersKept, Tasks
  <2>2. LockStep(h) /\ CallKept(h) /\ TurnKept(h)
    BY <1>3, NoLockStep, Zenon
  <2>3. Types' /\ World'
    BY <1>3, <2>1, <2>2, WorldKept, Zenon DEF IInv, Types, TaskMoves
  <2>4. TurnIds(h)'
    BY <1>0, <2>1, Moves, Zenon
  <2>5. task[h].turn > left.turns /\ task[h].turn # 0 /\ agent[h].running = 0
    <3>1. IsStart(h, task[h].turn)
      BY <1>1, Zenon DEF IsStart
    <3> QED
      BY <1>0, <3>1, SMTT(60) DEF TurnIds
  <2>6. task'[h].pc = "captures" /\ task'[h].phase = "start" /\ task'[h].turn = task[h].turn
    BY <1>1, <2>1, Zenon DEF TaskMoves
  <2>7. TurnHolds(h)' /\ NoLeftover(h)'
    BY <1>0, <1>3, <2>1, <2>5, <2>6, Zenon DEF TurnHolds, NoLeftover, Guarded, Closed
  <2> QED
    BY <1>3, <2>1, <2>2, <2>3, <2>4, <2>7, TaskStep, Zenon DEF TaskMoves
<1> QED
  BY <1>2, <1>3, Zenon DEF Mark

LEMMA BeginCheckpointPreserves == ASSUME IInv, NEW h \in Hosts, BeginCheckpoint(h) PROVE IInv'
<1>0. /\ TurnHolds(h) /\ NoLeftover(h) /\ task \in [Hosts -> Tasks] /\ task[h].pc = "captures"
      /\ UNCHANGED <<repo, present, shared, alone, closing, tree, slot, requests, agent, op, left>>
  BY Zenon DEF IInv, Types, BeginCheckpoint
<1>1. TaskMoves(h, "checkpoint") /\ captures' \in [Hosts -> {None, "capture", "revert"}]
  <2>1. TaskMoves(h, "checkpoint")
    BY <1>0, Zenon DEF BeginCheckpoint, TaskMoves, OthersKept, Tasks
  <2>2. captures' \in [Hosts -> {None, "capture", "revert"}]
    BY Zenon DEF BeginCheckpoint, IInv, Types
  <2> QED
    BY <2>1, <2>2, Zenon
<1>2. LockStep(h) /\ CallKept(h) /\ TurnKept(h)
  BY <1>0, NoLockStep, Zenon
<1>3. Types' /\ World'
  BY <1>0, <1>1, <1>2, WorldKept, Zenon DEF IInv, Types, TaskMoves
<1>4. TurnIds(h)'
  BY <1>0, <1>1, Moves, Zenon
<1>5. task'[h].pc = "checkpoint" /\ task'[h].phase = task[h].phase /\ task'[h].turn = task[h].turn
  BY <1>1, Zenon DEF TaskMoves
<1>6. TurnHolds(h)' /\ NoLeftover(h)'
  BY <1>0, <1>5, Zenon DEF TurnHolds, NoLeftover, Guarded
<1> QED
  BY <1>0, <1>1, <1>2, <1>3, <1>4, <1>6, TaskStep, Zenon DEF TaskMoves

\* The end of a turn drops its own mark, which is not the one of a running turn; the answer to a
\* start lets a turn run that is marked.
LEMMA EndCheckpointPreserves == ASSUME IInv, NEW h \in Hosts, EndCheckpoint(h) PROVE IInv'
<1>0. /\ TurnHolds(h) /\ NoLeftover(h) /\ TurnIds(h) /\ task \in [Hosts -> Tasks] /\ slot \in [Hosts -> Nat]
      /\ task[h] \in Tasks /\ agent[h] \in Agents /\ agent \in [Hosts -> Agents]
      /\ left.turns \in Nat
  BY Zenon DEF IInv, Types
<1>1. /\ task' = [task EXCEPT ![h] = Idle] /\ task[h].pc \in {"checkpoint", "captures"}
      /\ captures' \in [Hosts -> {None, "capture", "revert"}]
      /\ UNCHANGED <<repo, present, closing, tree, requests, op, left>>
  BY Zenon DEF EndCheckpoint, IInv, Types
<1>2. /\ task[h].phase \in {"start", "end"} /\ task[h].turn \in Nat
      /\ task'[h].pc = "idle" /\ task'[h].phase = None /\ Idle \in Tasks
  BY <1>0, <1>1, Zenon DEF TurnIds, Tasks, Idle, Trees
<1>3. task' \in [Hosts -> Tasks]
  BY <1>0, <1>1, <1>2, Zenon
<1>4. CASE task[h].phase = "end"
  <2>1. Unmark(h) /\ UNCHANGED agent
    BY <1>4, Zenon DEF EndCheckpoint
  <2>2. agent[h].running # task[h].turn
    <3>1. IsEnd(h, task[h].turn)
      BY <1>4, Zenon DEF IsEnd
    <3> QED
      BY <1>0, <1>2, <3>1, Zenon DEF TurnIds
  <2>3. TurnIds(h)' \/ ~Types'
    <3> SUFFICES ASSUME Types' PROVE TurnIds(h)'
      BY Zenon
    <3>1. \A turn \in Nat : (IsEnd(h, turn)' => IsEnd(h, turn)) /\ (IsStart(h, turn)' => IsStart(h, turn))
      BY <1>1, <1>2, <2>1, Zenon DEF IsEnd, IsStart, Sent, None
    <3>2. \A i \in Nat : StartAt(h, i)' <=> StartAt(h, i)
      BY <1>1, Zenon DEF StartAt
    <3>3. /\ agent[h].running # 0 \/ agent[h].starting => agent[h].alive
          /\ ~agent[h].alive => requests[h] = <<>>
          /\ \A i, j \in Nat : StartAt(h, i) /\ StartAt(h, j) => i = j
      BY <1>0, Zenon DEF TurnIds
    <3>4. agent' = agent /\ requests' = requests /\ left' = left
      BY <1>1, <2>1, Zenon
    <3> QED
      BY <1>2, <3>1, <3>2, <3>3, <3>4, TurnIdsShrink, Zenon DEF None
  <2>4. CASE slot[h] = task[h].turn
    <3>1. slot' = [slot EXCEPT ![h] = 0] /\ Drop({Turn(h)}, Locks)
      BY <2>1, <2>4, Zenon DEF Unmark
    <3>2. LockStep(h) /\ CallKept(h) /\ \A l \in Locks : Turn(h) \notin shared'[l]
      BY <3>1, DropStep, HolderNames, SMTT(60)
    <3>3. slot' \in [Hosts -> Nat] /\ slot'[h] = 0 /\ OthersKept(h)
      BY <1>0, <1>1, <2>1, <3>1, Zenon DEF OthersKept
    <3>4. Types' /\ World'
      BY <1>1, <1>3, <2>1, <3>2, <3>3, WorldKept, Zenon DEF IInv, Types, LockStep
    <3>5. agent[h].running = 0
      BY <1>0, <2>2, <2>4, Zenon DEF TurnHolds
    <3>6. TurnHolds(h)' /\ NoLeftover(h)'
      BY <1>0, <1>1, <1>2, <2>1, <3>2, <3>3, <3>5, Zenon DEF TurnHolds, NoLeftover, None
    <3> QED
      BY <1>1, <2>3, <3>2, <3>3, <3>4, <3>6, TaskStep, Zenon
  <2>5. CASE slot[h] # task[h].turn
    <3>1. UNCHANGED <<slot, shared, alone>>
      BY <2>1, <2>5, Zenon DEF Unmark
    <3>2. LockStep(h) /\ CallKept(h) /\ TurnKept(h)
      BY <3>1, NoLockStep, Zenon
    <3>3. OthersKept(h)
      BY <1>0, <1>1, <2>1, <3>1, Zenon DEF OthersKept
    <3>4. Types' /\ World'
      BY <1>1, <1>3, <2>1, <3>1, <3>2, WorldKept, Zenon DEF IInv, Types
    <3>5. TurnHolds(h)' /\ NoLeftover(h)'
      BY <1>0, <1>1, <1>2, <1>4, <2>1, <3>1, Zenon DEF TurnHolds, NoLeftover, Guarded, None
    <3> QED
      BY <1>1, <2>3, <3>2, <3>3, <3>4, <3>5, TaskStep, Zenon
  <2> QED
    BY <2>4, <2>5, Zenon
<1>5. CASE task[h].phase = "start"
  <2>1. UNCHANGED <<slot, shared, alone>>
    BY <1>5, Zenon DEF EndCheckpoint
  <2>2. PICK run \in {0, task[h].turn} :
          /\ run # 0 => agent[h].alive
          /\ agent' = [agent EXCEPT ![h].starting = FALSE, ![h].running = run]
    BY <1>5, Zenon DEF EndCheckpoint
  <2>3. /\ agent'[h].alive = agent[h].alive /\ agent'[h].starting = FALSE /\ agent'[h].running = run
        /\ agent'[h].owed = agent[h].owed /\ OthersKept(h)
    BY <1>0, <1>1, <2>1, <2>2, Zenon DEF Agents, OthersKept
  <2>4. LockStep(h) /\ CallKept(h) /\ TurnKept(h)
    BY <2>1, NoLockStep, Zenon
  <2>5. agent' \in [Hosts -> Agents]
    <3>1. run \in Nat
      BY <1>2, <2>2
    <3>2. [agent[h] EXCEPT !.starting = FALSE, !.running = run] \in Agents
      BY <1>0, <3>1, Zenon DEF Agents
    <3>3. agent' = [agent EXCEPT ![h] = [agent[h] EXCEPT !.starting = FALSE, !.running = run]]
      BY <2>2, Zenon
    <3> QED
      BY <1>0, <3>2, <3>3, Zenon
  <2>6. Types' /\ World'
    BY <1>1, <1>3, <2>1, <2>4, <2>5, WorldKept, Zenon DEF IInv, Types
  <2>7. /\ task[h].turn > left.turns /\ task[h].turn # 0
        /\ \A turn \in Nat : IsEnd(h, turn) => turn # task[h].turn /\ turn > left.turns
        /\ \A i \in Nat : ~StartAt(h, i)
    <3>1. IsStart(h, task[h].turn)
      BY <1>5, Zenon DEF IsStart
    <3> QED
      BY <1>0, <1>2, <1>5, <3>1, SMTT(60) DEF TurnIds
  <2>8. TurnIds(h)'
    <3>1. \A i \in Nat : ~StartAt(h, i)'
      BY <1>1, <2>7, Zenon DEF StartAt
    <3>2. \A turn \in Nat : ~IsStart(h, turn)'
      <4> SUFFICES ASSUME NEW turn \in Nat, Sent(h, [phase |-> "start", turn |-> turn]) PROVE FALSE
        BY <1>1, <1>2, Zenon DEF IsStart, Sent, None
      <4>1. PICK i \in 1..Len(requests[h]) : requests[h][i] = [phase |-> "start", turn |-> turn]
        BY Zenon DEF Sent
      <4>2. i \in Nat /\ StartAt(h, i)
        BY <4>1 DEF StartAt
      <4> QED
        BY <2>7, <4>2, Zenon
    <3>3. \A turn \in Nat : IsEnd(h, turn)' => IsEnd(h, turn)
      BY <1>1, <1>2, <2>3, Zenon DEF IsEnd, Sent, None
    <3>4. ~agent[h].alive => requests'[h] = <<>>
      BY <1>0, <1>1, Zenon DEF TurnIds
    <3>5. left' = left /\ run \in Nat /\ (run # 0 => run > left.turns) /\ run \in {0, task[h].turn}
      BY <1>1, <1>2, <2>2, <2>7
    <3>6. \A turn \in Nat : IsEnd(h, turn)' => turn > left.turns /\ turn # run
      BY <1>0, <2>7, <3>3, <3>5
    <3> QED
      BY <1>2, <2>2, <2>3, <3>1, <3>2, <3>4, <3>5, <3>6, Zenon DEF TurnIds, None
  <2>9. TurnHolds(h)' /\ NoLeftover(h)'
    BY <1>0, <1>1, <1>2, <1>5, <2>1, <2>2, <2>3, Zenon DEF TurnHolds, NoLeftover, Guarded, None
  <2> QED
    BY <1>1, <2>3, <2>4, <2>6, <2>8, <2>9, TaskStep, Zenon
<1> QED
  BY <1>2, <1>4, <1>5, Zenon

-----------------------------------------------------------------------------
(* The user's calls. *)

\* What a step of the call leaves to be shown.
LEMMA CallOnly ==
  ASSUME IInv, NEW h \in Hosts, Types', World', LockStep(h), TurnKept(h), CallHolds(h)',
         Rising, ~repo /\ repo' => \A g \in Hosts : ~Guarded(g),
         \A g \in Hosts \ {h} : op'[g] = op[g],
         left'.turns = left.turns, UNCHANGED <<closing, slot, task, requests, agent>>
  PROVE  IInv'
<1>1. /\ TurnIds(h) /\ TurnHolds(h) /\ NoLeftover(h) /\ left.turns \in Nat /\ agent[h].running \in Nat
      /\ left'.turns \in Nat /\ left'.turns <= left.turns
  BY DEF IInv, Types, Agents
<1>2. OthersKept(h)
  BY Zenon DEF OthersKept
<1>3. TurnIds(h)'
  BY <1>1, TurnIdsKept, Zenon
<1>4. TurnHolds(h)' /\ NoLeftover(h)'
  BY <1>1, TurnHoldsKept, Zenon
<1> QED
  BY <1>1, <1>2, <1>3, <1>4, HostStep, Zenon

\* Only an initialization begins outside Git, and only in the folder that can become the main
\* checkout.
LEMMA BeginPreserves == ASSUME IInv, NEW h \in Hosts, Begin(h) PROVE IInv'
<1>0. op \in [Hosts -> CallRecords] /\ left \in [operations : Nat, turns : Nat]
      /\ UNCHANGED <<repo, present, shared, alone, closing, slot, captures, task, requests, agent>>
  BY Zenon DEF IInv, Types, Begin
<1>1. PICK kind \in Kinds, w \in Worktrees, found \in {"open", "outside"} :
        /\ Opened(h, found)
        /\ found = (IF kind = "initialize" THEN "outside" ELSE "open")
        /\ op' = [op EXCEPT ![h] = [kind |-> kind, target |-> w,
                   pc |-> IF kind \in {"remove", "worktree"} THEN "everywhere" ELSE "alone"]]
  BY Zenon DEF Begin
<1>2. /\ tree' \in [Hosts -> Trees]
      /\ found = "open" => repo
      /\ found = "outside" => ~repo /\ At[h] = Main
      /\ \A g \in Hosts : tree'[g] = "open" => repo
  BY <1>1, OpenedTells, Zenon
<1>3. LockStep(h) /\ TurnKept(h)
  BY <1>0, NoLockStep, Zenon
<1> DEFINE call == [kind |-> kind, target |-> w,
                    pc |-> IF kind \in {"remove", "worktree"} THEN "everywhere" ELSE "alone"]
<1>4. /\ call \in CallRecords /\ call.kind = kind
      /\ call.pc = IF kind \in {"remove", "worktree"} THEN "everywhere" ELSE "alone"
  BY Zenon DEF CallRecords
<1>5. op' = [op EXCEPT ![h] = call]
  BY <1>1, Zenon
<1> HIDE DEF call
<1>6. op' \in [Hosts -> CallRecords] /\ op'[h] = call /\ \A g \in Hosts \ {h} : op'[g] = op[g]
  BY <1>0, <1>4, <1>5, Zenon
<1>7. left' \in [operations : Nat, turns : Nat] /\ left'.turns = left.turns
  BY <1>0 DEF Begin
<1>8. Types'
  BY <1>0, <1>2, <1>6, <1>7, Zenon DEF IInv, Types
<1>9. World' /\ Rising
  BY <1>0, <1>2, Zenon DEF IInv, World, Rising
<1>10. CallHolds(h)'
  BY <1>0, <1>1, <1>2, <1>4, <1>6, Zenon DEF CallHolds, Kinds
<1> QED
  BY <1>0, <1>3, <1>6, <1>7, <1>8, <1>9, <1>10, CallOnly, Zenon

\* A call goes on once it holds a lock alone.
LEMMA HoldAlonePreserves == ASSUME IInv, NEW h \in Hosts, HoldAlone(h) PROVE IInv'
<1>0. /\ op \in [Hosts -> CallRecords] /\ op[h] \in CallRecords /\ CallHolds(h)
      /\ op[h].pc \in {"everywhere", "there", "alone"}
      /\ Checkout(At[h]) \in Locks /\ Folder(At[h]) \in Locks /\ Repository \in Locks
      /\ Folder(Main) \in Locks /\ Checkout(op[h].target) \in Locks
  BY LockNames, PlacesAssumption, Zenon DEF IInv, Types, HoldAlone, CallRecords
<1>1. \/ /\ op[h].pc = "everywhere" /\ op[h].kind = "remove"
         /\ Held(h) = <<Repository, "working">>
      \/ /\ op[h].pc = "everywhere" /\ op[h].kind = "worktree"
         /\ Held(h) = <<Repository, "there">>
      \/ /\ op[h].pc = "there" /\ op[h].kind = "worktree"
         /\ Held(h) = <<Checkout(op[h].target), "working">>
      \/ /\ op[h].pc = "alone" /\ op[h].kind = "revert"
         /\ Held(h) = <<Checkout(At[h]), "captures">>
      \/ /\ op[h].pc = "alone" /\ op[h].kind = "write"
         /\ Held(h) = <<Checkout(At[h]), "working">>
      \/ /\ op[h].pc = "alone" /\ op[h].kind = "initialize" /\ At[h] = Main
         /\ Held(h) = <<Folder(At[h]), "working">>
  BY <1>0, Zenon DEF Held, CallHolds
<1>2. PICK l \in Locks, pc \in {"working", "there", "captures"} : Held(h) = <<l, pc>>
  BY <1>0, <1>1, Zenon
<1>3. /\ TryLock(l, Call(h)) /\ op' = [op EXCEPT ![h].pc = pc]
      /\ UNCHANGED <<repo, present, closing, tree, slot, captures, task, requests, agent, left>>
  BY <1>2 DEF HoldAlone
<1>4. /\ LockStep(h) /\ TurnKept(h)
      /\ \A k \in Locks : Call(h) \in alone'[k] <=> k = l \/ Call(h) \in alone[k]
  BY <1>3, AloneStep, Zenon
<1>5. /\ op' \in [Hosts -> CallRecords] /\ op'[h].kind = op[h].kind /\ op'[h].pc = pc
      /\ \A g \in Hosts \ {h} : op'[g] = op[g]
  BY <1>0, <1>3, Zenon DEF CallRecords
<1>6. Types' /\ World' /\ Rising
  BY <1>3, <1>4, <1>5, WorldKept, Zenon DEF IInv, Types, LockStep
<1>7. CallHolds(h)'
  BY <1>0, <1>1, <1>2, <1>3, <1>4, <1>5 DEF CallHolds
<1> QED
  BY <1>3, <1>4, <1>5, <1>6, <1>7, CallOnly, Zenon

\* A call returns: its locks drop, and no other's.
LEMMA ReturnPreserves ==
  ASSUME IInv, NEW h \in Hosts, Return(h), World', Rising, repo' \in BOOLEAN, present' \subseteq Worktrees,
         ~repo /\ repo' => \A g \in Hosts : ~Guarded(g),
         tree' \in [Hosts -> Trees], captures' \in [Hosts -> {None, "capture", "revert"}],
         UNCHANGED <<closing, slot, task, requests, agent, left>>
  PROVE  IInv'
<1>1. LockStep(h) /\ TurnKept(h)
  BY DropStep, HolderNames, SMTT(60) DEF Return
<1>2. NoCall \in CallRecords
  BY PlacesAssumption, Zenon DEF NoCall, CallRecords
<1>3. op' \in [Hosts -> CallRecords] /\ op'[h] = NoCall /\ \A g \in Hosts \ {h} : op'[g] = op[g]
  BY <1>2, Zenon DEF Return, IInv, Types
<1>4. Types'
  BY <1>1, <1>3, Zenon DEF IInv, Types, LockStep
<1>5. CallHolds(h)'
  BY <1>3, NoCallHolds, Zenon
<1>6. left'.turns = left.turns
  BY Zenon
<1> QED
  BY <1>1, <1>3, <1>4, <1>5, <1>6, CallOnly, Zenon

LEMMA GivenUpPreserves == ASSUME IInv, NEW h \in Hosts, Refuse(h) \/ StopRestore(h) PROVE IInv'
<1>1. /\ Return(h)
      /\ UNCHANGED <<repo, present, closing, tree, slot, captures, task, requests, agent, left>>
  BY Zenon DEF Refuse, StopRestore
<1>2. LockStep(h)
  BY <1>1, DropStep, HolderNames, Zenon DEF Return
<1>3. World' /\ Rising /\ (~repo /\ repo' => \A g \in Hosts : ~Guarded(g))
  BY <1>1, <1>2, WorldKept, Zenon
<1>4. repo' \in BOOLEAN /\ present' \subseteq Worktrees /\ tree' \in [Hosts -> Trees]
      /\ captures' \in [Hosts -> {None, "capture", "revert"}]
  BY <1>1, Zenon DEF IInv, Types
<1> QED
  BY <1>1, <1>3, <1>4, ReturnPreserves, Zenon

LEMMA BeginRestorePreserves == ASSUME IInv, NEW h \in Hosts, BeginRestore(h) PROVE IInv'
<1>0. /\ op \in [Hosts -> CallRecords] /\ CallHolds(h) /\ op[h].pc = "captures"
      /\ UNCHANGED <<repo, present, shared, alone, closing, tree, slot, task, requests, agent, left>>
  BY Zenon DEF IInv, Types, BeginRestore
<1>1. LockStep(h) /\ TurnKept(h)
  BY <1>0, NoLockStep, Zenon
<1>2. /\ op' \in [Hosts -> CallRecords] /\ op'[h].pc = "working" /\ op'[h].kind = op[h].kind
      /\ \A g \in Hosts \ {h} : op'[g] = op[g]
  BY <1>0, Zenon DEF BeginRestore, CallRecords
<1>3. captures' \in [Hosts -> {None, "capture", "revert"}]
  BY Zenon DEF BeginRestore, IInv, Types
<1>4. Types' /\ World' /\ Rising
  BY <1>0, <1>1, <1>2, <1>3, WorldKept, Zenon DEF IInv, Types
<1>5. CallHolds(h)'
  BY <1>0, <1>2, Zenon DEF CallHolds
<1> QED
  BY <1>0, <1>1, <1>2, <1>4, <1>5, CallOnly, Zenon

\* A folder gets its repository only while no turn runs in it.
LEMMA EndWorkPreserves == ASSUME IInv, NEW h \in Hosts, EndWork(h) PROVE IInv'
<1>0. /\ CallHolds(h) /\ op[h].pc = "working" /\ Return(h) /\ tree \in [Hosts -> Trees] /\ repo \in BOOLEAN
      /\ present \subseteq Worktrees /\ Folder(Main) \in Locks
      /\ UNCHANGED <<closing, slot, task, requests, agent, left>>
  BY LockNames, PlacesAssumption, Zenon DEF IInv, Types, EndWork
<1>1. PICK done \in BOOLEAN :
        /\ repo' = (repo \/ (done /\ op[h].kind = "initialize" /\ ~repo))
        /\ present' = IF done /\ op[h].kind = "worktree" THEN present \ {op[h].target} ELSE present
        /\ tree' = IF done /\ op[h].kind = "initialize" /\ ~repo /\ ~Closed(h)
                   THEN [tree EXCEPT ![h] = None] ELSE tree
  BY Zenon DEF EndWork
<1>2. repo' \in BOOLEAN /\ Rising /\ present' \subseteq present /\ present' \subseteq Worktrees
  BY <1>0, <1>1, Zenon DEF Rising
<1>3. tree' \in [Hosts -> Trees] /\ \A g \in Hosts : tree'[g] = "open" => repo'
  <2>1. \A g \in Hosts : tree[g] = "open" => repo
    BY Zenon DEF IInv, World
  <2> QED
    BY <1>0, <1>1, <2>1, Zenon DEF Trees, None
<1>4. captures' \in [Hosts -> {None, "capture", "revert"}]
  BY Zenon DEF EndWork, IInv, Types
<1>5. LockStep(h)
  BY <1>0, DropStep, HolderNames, Zenon DEF Return
<1>6. World'
  BY <1>2, <1>3, <1>5, Zenon DEF IInv, World, LockStep, Rising
<1>7. ~repo /\ repo' => \A g \in Hosts : ~Guarded(g)
  <2> SUFFICES ASSUME ~repo, op[h].kind = "initialize", NEW g \in Hosts, Guarded(g) PROVE FALSE
    BY <1>0, <1>1, Zenon
  <2>1. alone[Folder(Main)] # {}
    BY <1>0, Zenon DEF CallHolds
  <2>2. shared[Folder(Main)] = {}
    BY <1>0, <2>1, Zenon DEF IInv, World
  <2> QED
    BY <2>2, Zenon DEF Guarded
<1> QED
  BY <1>0, <1>2, <1>3, <1>4, <1>6, <1>7, ReturnPreserves, Zenon

-----------------------------------------------------------------------------
(* Closing and crashing. *)

LEMMA ClosePreserves == ASSUME IInv, NEW h \in Hosts, Close(h) PROVE IInv'
<1>0. /\ TurnIds(h) /\ TurnHolds(h) /\ NoLeftover(h) /\ closing[h] = "open" /\ ~agent[h].alive
      /\ closing' \in [Hosts -> {"open", "told", "closed", "crashed"}] /\ closing'[h] = "told"
      /\ UNCHANGED <<repo, present, shared, alone, tree, slot, captures, task, requests, agent, op, left>>
      /\ left.turns \in Nat /\ agent[h].running \in Nat
  BY Zenon DEF IInv, Types, Agents, Close
<1>1. LockStep(h) /\ CallKept(h) /\ TurnKept(h)
  BY <1>0, NoLockStep, Zenon
<1>2. OthersKept(h)
  BY Zenon DEF Close, OthersKept, IInv, Types
<1>3. Types' /\ World'
  BY <1>0, <1>1, WorldKept, Zenon DEF IInv, Types
<1>4. TurnIds(h)'
  <2>1. left'.turns \in Nat /\ left'.turns <= left.turns
    BY <1>0, SMTT(60)
  <2> QED
    BY <1>0, <2>1, TurnIdsKept, Zenon
<1>5. TurnHolds(h)' /\ NoLeftover(h)'
  BY <1>0, Zenon DEF TurnHolds, NoLeftover, Guarded
<1> QED
  BY <1>0, <1>1, <1>2, <1>3, <1>4, <1>5, TaskStep, Zenon

\* The close empties the slot; a start in progress keeps its locks until it finds out.
LEMMA EmptySlotPreserves == ASSUME IInv, NEW h \in Hosts, EmptySlot(h) PROVE IInv'
<1>0. /\ TurnIds(h) /\ TurnHolds(h) /\ NoLeftover(h) /\ closing[h] = "told"
      /\ closing' \in [Hosts -> {"open", "told", "closed", "crashed"}] /\ closing'[h] = "closed"
      /\ slot' \in [Hosts -> Nat] /\ slot'[h] = 0
      /\ UNCHANGED <<repo, present, captures, task, requests, agent, op, left>>
      /\ left.turns \in Nat /\ agent[h].running \in Nat
  BY Zenon DEF IInv, Types, Agents, EmptySlot
<1>1. tree' \in [Hosts -> Trees] /\ \A g \in Hosts : tree'[g] = "open" => repo
  BY Zenon DEF EmptySlot, IInv, Types, World, Trees
<1>2. OthersKept(h)
  BY Zenon DEF EmptySlot, OthersKept, IInv, Types
<1>3. /\ LockStep(h) /\ CallKept(h)
      /\ slot[h] # 0 => \A l \in Locks : Turn(h) \notin shared'[l]
      /\ slot[h] = 0 => TurnKept(h)
  <2>1. CASE slot[h] # 0
    <3>1. Drop({Turn(h)}, Locks)
      BY <2>1, Zenon DEF EmptySlot
    <3> QED
      BY <2>1, <3>1, DropStep, HolderNames, SMTT(60)
  <2>2. CASE slot[h] = 0
    <3>1. UNCHANGED <<shared, alone>>
      BY <2>2, Zenon DEF EmptySlot
    <3> QED
      BY <2>2, <3>1, NoLockStep, Zenon
  <2> QED
    BY <2>1, <2>2, Zenon
<1>4. Types'
  BY <1>0, <1>1, <1>3, Zenon DEF IInv, Types, LockStep
<1>5. World'
  BY <1>0, <1>1, <1>3, Zenon DEF IInv, World, LockStep
<1>6. TurnIds(h)'
  <2>1. left'.turns \in Nat /\ left'.turns <= left.turns
    BY <1>0, SMTT(60)
  <2> QED
    BY <1>0, <2>1, TurnIdsKept, Zenon
<1>7. agent[h].running = 0 /\ ~agent[h].alive
  BY <1>0, Zenon DEF TurnIds, TurnHolds
<1>8. TurnHolds(h)'
  <2>1. /\ Checkout(At[h]) \in Locks /\ Repository \in Locks /\ Folder(Main) \in Locks
        /\ Folder(At[h]) \in Locks
    BY LockNames, PlacesAssumption, Zenon
  <2>2. task[h].pc \in {"folder", "checkout", "repository", "mark"} => task[h].phase = "start"
    BY <1>0, Zenon DEF TurnHolds
  <2>3. task[h].phase = "start" /\ task[h].pc \notin {"captures", "checkpoint"} => slot[h] = 0
    BY <1>0, Zenon DEF TurnHolds
  <2>4. slot[h] = 0 => (Guarded(h) => Guarded(h)')
    BY <1>0, <1>3, <2>1, Zenon DEF Guarded, TurnKept
  <2> QED
    BY <1>0, <1>3, <1>7, <2>1, <2>2, <2>3, <2>4, Zenon DEF TurnHolds, TurnKept
<1>9. NoLeftover(h)'
  BY <1>0, <1>3, Zenon DEF NoLeftover, TurnKept
<1> QED
  BY <1>0, <1>2, <1>3, <1>4, <1>5, <1>6, <1>8, <1>9, TaskStep, Zenon

\* A process that ends leaves nothing.
LEMMA CrashPreserves == ASSUME IInv, NEW h \in Hosts, Crash(h) PROVE IInv'
<1>0. /\ closing'[h] = "crashed" /\ slot'[h] = 0 /\ task'[h] = Idle /\ requests'[h] = <<>> /\ op'[h] = NoCall
      /\ agent'[h] = [alive |-> FALSE, starting |-> FALSE, running |-> 0, owed |-> {}]
      /\ UNCHANGED <<repo, present, tree, left>> /\ OthersKept(h)
  BY Zenon DEF Crash, IInv, Types, OthersKept
<1>1. LockStep(h) /\ \A l \in Locks : Turn(h) \notin shared'[l]
  BY DropStep, Zenon DEF Crash
<1>2. Types'
  <2>1. Idle \in Tasks /\ NoCall \in CallRecords
        /\ [alive |-> FALSE, starting |-> FALSE, running |-> 0, owed |-> {}] \in Agents
        /\ <<>> \in Seq(Requests)
    BY PlacesAssumption, SMTT(60) DEF Idle, Tasks, Trees, NoCall, CallRecords, Agents
  <2>2. /\ task' \in [Hosts -> Tasks] /\ op' \in [Hosts -> CallRecords] /\ agent' \in [Hosts -> Agents]
        /\ requests' \in [Hosts -> Seq(Requests)]
    BY <2>1, Zenon DEF Crash, IInv, Types
  <2>3. /\ closing' \in [Hosts -> {"open", "told", "closed", "crashed"}]
        /\ slot' \in [Hosts -> Nat] /\ captures' \in [Hosts -> {None, "capture", "revert"}]
    BY Zenon DEF Crash, IInv, Types
  <2> QED
    BY <1>0, <1>1, <2>2, <2>3, Zenon DEF IInv, Types, LockStep
<1>3. World' /\ Rising /\ (~repo /\ repo' => \A g \in Hosts : ~Guarded(g))
  BY <1>0, <1>1, WorldKept, Zenon
<1>4. CallHolds(h)'
  BY <1>0, NoCallHolds, Zenon
<1>5. TurnIds(h)'
  <2>1. \A turn \in Nat : ~IsEnd(h, turn)' /\ ~IsStart(h, turn)'
    BY <1>0, SMTT(60) DEF IsEnd, IsStart, Sent, Idle, None
  <2>2. \A i \in Nat : ~StartAt(h, i)'
    BY <1>0, SMTT(60) DEF StartAt
  <2> QED
    BY <1>0, <2>1, <2>2, SMTT(60) DEF TurnIds, Idle, None
<1>6. TurnHolds(h)' /\ NoLeftover(h)'
  BY <1>0, <1>1, SMTT(60) DEF TurnHolds, NoLeftover, Idle, None
<1>7. left'.turns <= left.turns
  BY <1>0, SMTT(60) DEF IInv, Types
<1> QED
  BY <1>0, <1>1, <1>2, <1>3, <1>4, <1>5, <1>6, <1>7, HostStep, Zenon

-----------------------------------------------------------------------------
\* The inductive invariant holds throughout.
THEOREM Invariance == Spec => []IInv
<1>1. Init => IInv
  <2> SUFFICES ASSUME Init PROVE IInv
    BY Zenon
  <2> USE DEF Init
  <2>1. Types
    <3>1. Idle \in Tasks /\ NoCall \in CallRecords /\ <<>> \in Seq(Requests)
      BY PlacesAssumption, SMTT(60) DEF Idle, Tasks, Trees, NoCall, CallRecords
    <3>2. agent \in [Hosts -> Agents]
      BY Zenon DEF Agents
    <3>3. closing \in [Hosts -> {"open", "told", "closed", "crashed"}]
      BY Zenon
    <3>4. repo \in BOOLEAN /\ present \subseteq Worktrees
      BY PlacesAssumption, Zenon
    <3>5. left \in [operations : Nat, turns : Nat]
      BY PlacesAssumption, Zenon
    <3> QED
      BY <3>1, <3>2, <3>3, <3>4, <3>5, Zenon DEF Types, Trees
  <2>2. World
    BY Zenon DEF World, None
  <2>3. ASSUME NEW h \in Hosts PROVE CallHolds(h) /\ TurnIds(h) /\ TurnHolds(h) /\ NoLeftover(h)
    <3>1. /\ op[h] = NoCall /\ task[h] = Idle /\ requests[h] = <<>> /\ slot[h] = 0
          /\ agent[h].running = 0 /\ ~agent[h].starting /\ agent[h].owed = {}
          /\ agent[h].alive = (closing[h] = "open") /\ \A l \in Locks : shared[l] = {}
      BY Zenon
    <3>2. CallHolds(h)
      BY <3>1, Zenon DEF CallHolds, NoCall, Kinds, None
    <3>3. \A turn \in Nat : ~IsEnd(h, turn) /\ ~IsStart(h, turn)
      BY <3>1, SMTT(60) DEF IsEnd, IsStart, Sent, Idle, None
    <3>4. \A i \in Nat : ~StartAt(h, i)
      BY <3>1, SMTT(60) DEF StartAt
    <3>5. TurnIds(h)
      BY <3>1, <3>3, <3>4, Zenon DEF TurnIds, Idle, None
    <3>6. TurnHolds(h) /\ NoLeftover(h)
      BY <3>1, Zenon DEF TurnHolds, NoLeftover, Idle, None
    <3> QED
      BY <3>2, <3>5, <3>6, Zenon
  <2> QED
    BY <2>1, <2>2, <2>3, Zenon DEF IInv
<1>2. IInv /\ [Next]_vars => IInv'
  <2> SUFFICES ASSUME IInv, [Next]_vars PROVE IInv'
    BY Zenon
  <2>1. CASE UNCHANGED vars
    <3>1. Types' /\ World'
      BY <2>1, Zenon DEF vars, IInv, Types, World
    <3>2. ASSUME NEW h \in Hosts PROVE CallHolds(h)' /\ TurnHolds(h)' /\ NoLeftover(h)'
      BY <2>1, Zenon DEF vars, IInv, CallHolds, TurnHolds, NoLeftover, Guarded
    <3>3. ASSUME NEW h \in Hosts PROVE TurnIds(h)'
      <4>1. \A turn \in Nat : (IsEnd(h, turn)' <=> IsEnd(h, turn)) /\ (IsStart(h, turn)' <=> IsStart(h, turn))
        BY <2>1, Zenon DEF vars, IsEnd, IsStart, Sent
      <4>2. \A i \in Nat : StartAt(h, i)' <=> StartAt(h, i)
        BY <2>1, Zenon DEF vars, StartAt
      <4>3. TurnIds(h) /\ UNCHANGED <<task, requests, agent, left>>
        BY <2>1, Zenon DEF vars, IInv
      <4> QED
        BY <4>1, <4>2, <4>3, Zenon DEF TurnIds
    <3> QED
      BY <3>1, <3>2, <3>3, Zenon DEF IInv
  <2>2. ASSUME NEW h \in Hosts, CaptureStep(h) PROVE IInv'
    BY <2>2, TakeStartPreserves, TakeEndPreserves, LockFolderPreserves, OpenTreePreserves,
       OpenTreeAtEndPreserves, LockCheckoutPreserves, LockRepositoryPreserves, StartFailsPreserves,
       MarkPreserves, BeginCheckpointPreserves, EndCheckpointPreserves, Zenon DEF CaptureStep
  <2>3. ASSUME NEW h \in Hosts, CallStep(h) PROVE IInv'
    BY <2>3, HoldAlonePreserves, GivenUpPreserves, BeginRestorePreserves, EndWorkPreserves, Zenon DEF CallStep
  <2> QED
    BY <2>1, <2>2, <2>3, AskPreserves, SettlePreserves, SendEndPreserves, ExitPreserves, BeginPreserves,
       ClosePreserves, EmptySlotPreserves, CrashPreserves, Zenon DEF Next
<1> QED
  BY <1>1, <1>2, PTL DEF Spec

\* No window writes the files of a checkout, its repository or its checkpoints while an agent
\* runs a turn there: the turn's guard and the write's lock exclude each other, and the guard
\* outlives late ends, failed snapshots, closes and crashes of others, and the creation of the
\* repository (Checkout::run, alone and repository_alone).
THEOREM ExclusionTheorem == Spec => []Exclusion
<1>1. IInv => Exclusion
  <2> SUFFICES ASSUME IInv, NEW h \in Hosts, NEW g \in Hosts, NEW w \in Worktrees, RunsIn(h, w), Writes(g, w)
               PROVE  FALSE
    BY Zenon DEF Exclusion
  <2>1. TurnHolds(h) /\ CallHolds(g) /\ op[g] \in CallRecords
    BY Zenon DEF IInv, Types
  <2>2. Guarded(h) /\ At[h] = w
    BY <2>1, Zenon DEF TurnHolds, RunsIn
  <2>3. Checkout(At[h]) \in Locks /\ Repository \in Locks /\ Folder(Main) \in Locks
    BY LockNames, PlacesAssumption, Zenon
  <2>4. \A l \in Locks : alone[l] # {} => shared[l] = {}
    BY Zenon DEF IInv, World
  <2>5. CASE op[g].kind \in {"remove", "worktree"}
    BY <2>1, <2>2, <2>3, <2>4, <2>5, Zenon DEF CallHolds, Writes, Guarded, Kinds
  <2>6. CASE op[g].kind \in {"revert", "write"}
    BY <2>1, <2>2, <2>3, <2>4, <2>6, Zenon DEF CallHolds, Writes, Guarded, Kinds
  <2>7. CASE op[g].kind = "initialize"
    BY <2>1, <2>2, <2>3, <2>4, <2>7, Zenon DEF CallHolds, Writes, Guarded
  <2>8. op[g].kind # None
    BY <2>1, Zenon DEF Writes, CallHolds, Kinds, None
  <2> QED
    BY <2>1, <2>5, <2>6, <2>7, <2>8, Zenon DEF CallRecords, Kinds
<1> QED
  BY <1>1, Invariance, PTL

\* A host that closed or crashed keeps no lock of a turn once its capture task is done, also when
\* the start had its guard only after the close was told.
THEOREM LeftBehindTheorem == Spec => []NothingLeftBehind
<1>1. IInv => NothingLeftBehind
  BY Zenon DEF IInv, NoLeftover, TurnIds, NothingLeftBehind, None
<1> QED
  BY <1>1, Invariance, PTL
=============================================================================

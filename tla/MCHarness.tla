------------------------------ MODULE MCHarness -------------------------------
(***************************************************************************)
(* The desktop's work on a repository and its view of an agent on small    *)
(* instances, one component at a time: stashes on a branch switch, pushes, *)
(* pulls and pull requests, reverts, stored sessions, the events of an     *)
(* agent, and the allowances of two sessions.                              *)
(***************************************************************************)
EXTENDS Naturals, Sequences

Windows == {"v", "w"}

\* Branches are interchangeable: one choice of the windows' branches stands for all.
CheckedOut == [v |-> "b1", w |-> "b2"]
StashScenes == {[open |-> {"v", "w"}, external |-> 0], [open |-> {"w"}, external |-> 2]}
TransferScenes == {[open |-> {"w"}, calls |-> 3, external |-> 1], [open |-> {"v", "w"}, calls |-> 2, external |-> 0]}
Upstreams == {[main |-> "main", topic |-> "none"], [main |-> "main", topic |-> "main"]}

\* Stored sessions: repeated tool call ids, compactions and edits, turns, and a file that is read while it is written.
HistoryScene(kinds, calls, length, moves, reads) ==
  [kinds |-> kinds, calls |-> calls, length |-> length, moves |-> moves, reads |-> reads]
HistoryScenes ==
  {HistoryScene({"assistant", "timing", "result"}, {<<1, 1>>, <<1, 2, 1>>}, 5, 1, 0),
   HistoryScene({"user", "assistant", "compaction", "edit"}, {<<>>}, 5, 0, 0),
   HistoryScene({"user", "start", "end", "label"}, {<<>>}, 5, 1, 0),
   HistoryScene({"message"}, {<<>>}, 3, 0, 2)}
------------------------------------------------------------------------------
VARIABLES
  component,   \* the one that is exercised; the others stay at rest
  head, tips, work, stashes, shown, call, lock, given, count, transfer_head, transfer_tips,
  upstream, tracking, remote, default, pulls, made, wire, transfer_call, approved,
  transfer_lock, transfer_count, disk, ignored, tracked, within, to, plan, revert, scene, agent,
  switched, reader, adapter, pi, events_shown, misled, reused, shared, owner, sup, timers,
  ended, stopper, input, output, events, screen, agent_pi

Stash == INSTANCE Stashes WITH
  Branches <- {"b1", "b2", "b3"}, NewBranch <- "new", MaxEdits <- 2, Calls <- 2, DropTries <- 2,
  Scenes <- StashScenes

Transfer == INSTANCE Transfers WITH
  Branches <- {"main", "topic"}, MaxCommits <- 2, Scenes <- TransferScenes,
  head <- transfer_head, tips <- transfer_tips, call <- transfer_call, lock <- transfer_lock,
  count <- transfer_count

Snapshot == INSTANCE Snapshots WITH
  Contents <- {1, 2}

History == INSTANCE SessionHistory WITH
  CallIds <- {1, 2}, Limit <- 2, Scenes <- HistoryScenes

Events == INSTANCE AgentEvents WITH
  Indexes <- {0, 1}, CallIds <- {1, 2}, MaxItems <- 4, MaxTurns <- 2, MaxText <- 1,
  MaxResponses <- 2, shown <- events_shown

Agent == INSTANCE AgentSession WITH
  Approvals <- {"a1", "a2"}, Questions <- {}, Sessions <- {"s1", "s2"}, Commands <- 0,
  Turns <- 2, EventBuffer <- 1, WriteBuffer <- 1, OutputBuffer <- 1, pi <- agent_pi

StashRests == head = 0 /\ tips = 0 /\ work = 0 /\ stashes = 0 /\ shown = 0 /\ call = 0 /\ lock = 0 /\
               given = 0 /\ count = 0
TransferRests == transfer_head = 0 /\ transfer_tips = 0 /\ upstream = 0 /\ tracking = 0 /\ remote = 0 /\
                  default = 0 /\ pulls = 0 /\ made = 0 /\ wire = 0 /\ transfer_call = 0 /\ approved = 0 /\
                  transfer_lock = 0 /\ transfer_count = 0
SnapshotRests == disk = 0 /\ ignored = 0 /\ tracked = 0 /\ within = 0 /\ to = 0 /\ plan = 0 /\
                  revert = 0
HistoryRests == scene = 0 /\ agent = 0 /\ switched = 0 /\ reader = 0
EventsRests == adapter = 0 /\ pi = 0 /\ events_shown = 0 /\ misled = 0 /\ reused = 0
AgentRests == shared = 0 /\ owner = 0 /\ sup = 0 /\ timers = 0 /\ ended = 0 /\ stopper = 0 /\
               input = 0 /\ output = 0 /\ events = 0 /\ screen = 0 /\ agent_pi = 0

StashVars == <<head, tips, work, stashes, shown, call, lock, given, count>>
TransferVars == <<transfer_head, transfer_tips, upstream, tracking, remote, default, pulls,
                  made, wire, transfer_call, approved, transfer_lock, transfer_count>>
SnapshotVars == <<disk, ignored, tracked, within, to, plan, revert>>
HistoryVars == <<scene, agent, switched, reader>>
EventsVars == <<adapter, pi, events_shown, misled, reused>>
AgentVars == <<shared, owner, sup, timers, ended, stopper, input, output, events, screen,
               agent_pi>>
all == <<component, StashVars, TransferVars, SnapshotVars, HistoryVars, EventsVars, AgentVars>>

AllInit ==
  \/ component = "stashes" /\ Stash!Init /\ head = CheckedOut /\ TransferRests /\ SnapshotRests /\
        HistoryRests /\ EventsRests /\ AgentRests
  \/ component = "transfers" /\ Transfer!Init /\ StashRests /\ SnapshotRests /\ HistoryRests /\
        EventsRests /\ AgentRests
  \/ component = "snapshots" /\ Snapshot!Init /\ StashRests /\ TransferRests /\ HistoryRests /\
        EventsRests /\ AgentRests
  \/ component = "history" /\ History!Init /\ StashRests /\ TransferRests /\ SnapshotRests /\
        EventsRests /\ AgentRests
  \/ component = "events" /\ Events!Init /\ StashRests /\ TransferRests /\ SnapshotRests /\
        HistoryRests /\ AgentRests
  \/ component = "allowances" /\ Agent!Init /\ StashRests /\ TransferRests /\ SnapshotRests /\
        HistoryRests /\ EventsRests

AllNext ==
  \/ component = "stashes" /\ Stash!Next /\ UNCHANGED <<component, TransferVars, SnapshotVars,
        HistoryVars, EventsVars, AgentVars>>
  \/ component = "transfers" /\ Transfer!Next /\ UNCHANGED <<component, StashVars, SnapshotVars,
        HistoryVars, EventsVars, AgentVars>>
  \/ component = "snapshots" /\ Snapshot!Next /\ UNCHANGED <<component, StashVars, TransferVars,
        HistoryVars, EventsVars, AgentVars>>
  \/ component = "history" /\ History!Next /\ UNCHANGED <<component, StashVars, TransferVars,
        SnapshotVars, EventsVars, AgentVars>>
  \/ component = "events" /\ Events!Next /\ UNCHANGED <<component, StashVars, TransferVars,
        SnapshotVars, HistoryVars, AgentVars>>
  \/ component = "allowances" /\ Agent!Next /\ UNCHANGED <<component, StashVars, TransferVars,
        SnapshotVars, HistoryVars, EventsVars>>

AllSpec == AllInit /\ [][AllNext]_all
------------------------------------------------------------------------------
\* No uncommitted work is lost by switching branches, restoring or discarding a stash, whatever
\* another window does and whichever command fails, except one stash: the one that another
\* Git shifted into the place being dropped and that Git then fails to put back (stash.rs).
\* A revert touches no repository below the checkout (snapshot restore).
NothingLost ==
  /\ component = "stashes" => Stash!WorkKept
  /\ component = "snapshots" => Snapshot!RepositoriesKept

\* What Liquid reports of a switch, a revert and a pull request is what happened, and a
\* revert changes only what its plan named.
ReportsTruthful ==
  /\ component = "stashes" => Stash!OutcomeTruthful
  /\ component = "snapshots" => Snapshot!RevertTruthful /\ Snapshot!PlanNamesAll
  /\ component = "transfers" => Transfer!PullRequestTruthful

\* A push moves the remote branch the user confirmed to the commits the user saw, and a
\* branch is given only its own upstream (sync.rs).
PushedAsConfirmed == component = "transfers" => Transfer!PushedAsConfirmed /\ Transfer!FollowsItsOwn

\* A stored session reads back as it was: results and timings go to their calls although ids
\* repeat, the context counts follow compactions and edits, pages cover the history once,
\* turns end as they did, and a lagging file is not taken for the session (history/).
HistoryTold ==
  component = "history" =>
    History!CallsMatched /\ History!ContextAgrees /\ History!PagesCover /\ History!TurnsTruthful /\ History!ReadWhole

\* Every item that the adapter of the agent's events started is ended by the end of the turn,
\* with what the agent said of it, unless it is a tool call whose id the agent started again
\* while it ran (pi.rs).
ItemsSettle == component = "events" => Events!NoneStaysRunning /\ Events!ShownTruthful

\* Every approval the agent waits for is in exactly one place, and a call is allowed without
\* the user only by an allowance of the session that the call belongs to.
AllowancesHold ==
  [][component = "allowances" => Agent!DialogsAccounted' /\ Agent!AllowanceInScope]_all
==============================================================================

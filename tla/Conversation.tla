---------------------------- MODULE Conversation ----------------------------
(***************************************************************************)
(* One Conversation directory of flow-agent-core: the creation of a Run,   *)
(* its reclamation, the appends of its streams, and the status transaction *)
(* that keeps status.json in step with all of them (runtime/conversations: *)
(* status/, lifecycle/, run_log.rs, history_index.rs, recovery/).          *)
(*                                                                         *)
(* The Conversation lease makes the operations sequential; what interferes *)
(* is a failed file-system call, which runs the code's cleanup, and the    *)
(* end of the process, after which another process finds the directory as  *)
(* it is.  Every change of the directory is one step.                      *)
(*                                                                         *)
(* The objects, events, contexts and lock leaves of a Run are created and  *)
(* removed together and are told apart by no branch: they are "files".     *)
(* Directory identities never change under the lease, so the checks on     *)
(* them are left out.                                                      *)
(***************************************************************************)
EXTENDS Integers, Sequences, FiniteSets, SequencesExt

CONSTANTS
  Root,        \* the Run that has the Conversation's id
  Children,    \* Run ids that a continuation may take
  MaxRecords,  \* bound on the attempt records of a Run
  MaxCrashes,  \* bound on the ends of a process
  MaxFaults,   \* bound on failing file-system calls
  Torn,        \* whether the end of a process may cut an append short
  LateCancel,  \* whether a Ctrl-C may come after the recovery header exists
  SyncFails    \* whether the last synchronisation of a creation may fail

Runs == {Root} \cup Children

VARIABLES
  conv,     \* leaves of the Conversation directory; {} when it is absent
  summary,  \* content of status.json
  txn,      \* content of .status-transaction.json
  history,  \* entries of history.jsonl, each the Run it closes
  torn,     \* the append named by txn is there in part
  dir,      \* the directory of each Run, staged or in place
  op,       \* the operation the process that has the lease carries out
  active,   \* the Run that process executes, between operations
  crashes, faults

disk == <<conv, summary, txn, history, torn, dir>>
vars == <<disk, op, active, crashes, faults>>

None == "none"

\* Files of the Conversation directory; "dir" is the directory itself.
ConversationLeaves ==
  {"dir", "marker", "history", "runs", "status",
   "summary_stage", "transaction", "transaction_stage"}

\* The order in which each routine removes what it finds there.
LifecycleOrder ==
  <<"runs", "summary_stage", "transaction", "transaction_stage",
    "history", "status", "marker", "dir">>
RootOrder == <<"history", "status", "runs", "marker", "dir">>

RunLeaves == {"id", "unpublished", "files", "recovery", "log"}

\* construction_leaves: what a created Run has, and nothing else.
Constructed == {"id", "unpublished", "files", "log"}

\* The order in which leaves of a Run go: last name first when a staged Run
\* is removed, objects first when a Run is reclaimed; the identity last.
StageRemovalOrder == <<"log", "files", "unpublished", "id">>
ReclaimOrder == <<"files", "unpublished", "recovery", "log", "id">>

NoRun == [at |-> "none", leaves |-> {}, torn |-> {}, log |-> 0, events |-> FALSE]

empty_status_summary == [latest |-> None, run_count |-> 0, uncertain |-> 0]

NoTransaction == [mutation |-> None, run |-> Root, prior |-> 0,
                  before |-> empty_status_summary, after |-> empty_status_summary]

NotActive == [run |-> Root, stage |-> None]

\* An intent without its result; attempts are strictly sequential.
Uncertain(r) == dir[r].log % 2 = 1

\* What status.json summarises.
Actual ==
  [latest    |-> IF history = <<>> THEN None ELSE Last(history),
   run_count |-> Cardinality({r \in Runs : dir[r].at = "run"}),
   uncertain |-> Cardinality({r \in Runs : dir[r].at = "run" /\ Uncertain(r)})]

Idle == [kind |-> None, run |-> Root, pc |-> None, ret |-> None, then |-> None,
         new |-> FALSE, partial |-> FALSE, whole |-> FALSE, order |-> <<>>,
         reserve |-> FALSE, what |-> None, goal |-> empty_status_summary, failing |-> FALSE]

Start(kind, r, pc) == op' = [Idle EXCEPT !.kind = kind, !.run = r, !.pc = pc]
Goto(p) == op' = [op EXCEPT !.pc = p]
At(p) == op.pc = p

Init ==
  /\ conv = {} /\ summary = empty_status_summary /\ txn = NoTransaction
  /\ history = <<>> /\ torn = FALSE
  /\ dir = [r \in Runs |-> NoRun]
  /\ op = Idle /\ active = NotActive
  /\ crashes = 0 /\ faults = 0

\* The error path of each operation.  A creation removes what it made and
\* recovers; an append and a removal recover; anything else just ends.
Failing ==
  CASE op.failing -> [op EXCEPT !.pc = "failed"]
    [] op.kind = "create" /\ op.partial ->
         [op EXCEPT !.failing = TRUE, !.pc = "cleanup"]
    [] op.kind = "create" /\ op.new ->
         [op EXCEPT !.failing = TRUE, !.pc = "cleanup_root"]
    [] op.pc = "append" \/ (op.pc = "remove" /\ op.then = "finish") ->
         [op EXCEPT !.failing = TRUE, !.pc = "recover", !.ret = "failed"]
    [] OTHER -> [op EXCEPT !.failing = TRUE, !.pc = "failed"]

Fail == op' = Failing

-----------------------------------------------------------------------------
\* Removal of the files of a directory, one at a time.

First(order, present) == SelectInSeq(order, LAMBDA leaf : leaf \in present)

Without(d, leaf) == [d EXCEPT !.leaves = @ \ {leaf}, !.torn = @ \ {leaf}]

\* The Run directory that "remove" empties: the one a recovery found in the
\* transaction, else the operation's own.
Victim == IF op.then = "select" THEN txn.run ELSE op.run

\* remove_recoverable_run_creation_stage, remove_unrecorded_empty_run_creation_stage
\* and finish_recoverable_run_reclamation, after their validation.
RemoveRun ==
  /\ At("remove")
  /\ LET i == First(op.order, dir[Victim].leaves)
     IN  IF i = 0
         THEN /\ dir' = [dir EXCEPT ![Victim] = NoRun]
              /\ Goto(op.then)
         ELSE /\ dir' = [dir EXCEPT ![Victim] = Without(@, op.order[i])]
              /\ UNCHANGED op
  /\ UNCHANGED <<conv, summary, txn, history, torn, active, crashes, faults>>

WipeOrder == IF op.whole \/ op.failing THEN RootOrder ELSE LifecycleOrder

\* remove_lifecycle_root_contents, cleanup_new_empty_conversation and the end
\* of reclaim_productive_run: the Conversation directory, marker last.
Wipe ==
  /\ At("wipe")
  /\ LET leaf == WipeOrder[First(WipeOrder, conv)]
         left == {r \in Runs : dir[r].at # "none"}
     IN  IF leaf = "runs" /\ left # {}
         THEN \E r \in left :
                LET i == First(ReclaimOrder, dir[r].leaves)
                IN  /\ dir' = [dir EXCEPT ![r] = IF i = 0 THEN NoRun
                                                 ELSE Without(@, ReclaimOrder[i])]
                    /\ UNCHANGED <<conv, summary, txn, history, torn, op>>
         ELSE /\ conv' = conv \ {leaf}
              /\ summary' = IF leaf = "status" THEN empty_status_summary ELSE summary
              /\ txn' = IF leaf = "transaction" THEN NoTransaction ELSE txn
              /\ torn' = (torn /\ leaf # "transaction")
              /\ history' = IF leaf = "history" THEN <<>> ELSE history
              /\ IF leaf = "dir"
                 THEN Goto(IF op.whole THEN "done" ELSE op.ret)
                 ELSE UNCHANGED op
              /\ UNCHANGED dir
  /\ UNCHANGED <<active, crashes, faults>>

-----------------------------------------------------------------------------
\* recover_status_transaction.
\* Mutant: a staged summary is left where it is.
Recover_keeps_stage ==
  /\ At("recover")
  /\ IF "transaction" \notin conv
     THEN /\ conv' = conv \ {"transaction_stage"}
          /\ IF "summary_stage" \in conv THEN Fail ELSE Goto(op.ret)
     ELSE IF "transaction_stage" \in conv
     THEN Fail /\ UNCHANGED conv
     ELSE UNCHANGED conv /\ Goto("target")
  /\ UNCHANGED <<summary, txn, history, torn, dir, active, crashes, faults>>


Recover ==
  /\ At("recover")
  /\ IF "transaction" \notin conv
     THEN /\ conv' = conv \ {"transaction_stage"}
          /\ IF "summary_stage" \in conv THEN Fail ELSE Goto(op.ret)
     ELSE IF "transaction_stage" \in conv
     THEN Fail /\ UNCHANGED conv
     ELSE conv' = conv \ {"summary_stage"} /\ Goto("target")
  /\ UNCHANGED <<summary, txn, history, torn, dir, active, crashes, faults>>

\* validate_run_creation_shape, of a Run that is not empty.
CreationShape(d) ==
  /\ "id" \in d.leaves
  /\ d.leaves \subseteq Constructed
  /\ d.torn = {} /\ d.log = 0 /\ ~d.events

\* status_append_was_applied, run_creation_mutation_was_applied and
\* run_reclamation_mutation_was_applied look only at the named target.
Target ==
  /\ At("target")
  /\ LET d == dir[txn.run]
         Drop(order) == op' = [op EXCEPT !.pc = "remove", !.order = order, !.then = "select"]
     IN  CASE "status" \notin conv \/ summary \notin {txn.before, txn.after} -> Fail
           [] txn.mutation \notin {"created", "reclaimed"} ->
                IF torn THEN Fail ELSE Goto("select")
           [] txn.mutation = "created" /\ d.at = "run" ->
                IF CreationShape(d) /\ d.leaves = Constructed THEN Goto("select") ELSE Fail
           [] d.at = "none" -> Goto("select")
           [] txn.mutation = "created" ->
                IF d.leaves = {} \/ CreationShape(d) THEN Drop(StageRemovalOrder) ELSE Fail
           [] OTHER ->
                IF d.leaves = {} \/ "id" \in d.leaves THEN Drop(ReclaimOrder) ELSE Fail
  /\ UNCHANGED <<disk, active, crashes, faults>>
\* Mutant: an append is taken for undone.
Applied_never ==
  CASE txn.mutation = "created" -> dir[txn.run].at = "run"
    [] txn.mutation = "reclaimed" -> TRUE
    [] OTHER -> FALSE

\* The named target carries the mutation.
Applied ==
  CASE txn.mutation = "history" -> Len(history) = txn.prior + 1
    [] txn.mutation = "created" -> dir[txn.run].at = "run"
    [] txn.mutation = "reclaimed" -> TRUE
    [] OTHER -> dir[txn.run].log = txn.prior + 1

Select ==
  /\ At("select")
  /\ LET goal == IF Applied THEN txn.after ELSE txn.before
     IN  op' = [op EXCEPT !.goal = goal,
                          !.pc = IF summary = goal THEN "clear" ELSE "finish"]
  /\ UNCHANGED <<disk, active, crashes, faults>>

\* finish_status_transaction: replace_status_summary, clear_status_transaction.
StageSummary ==
  /\ At("finish")
  /\ IF "summary_stage" \in conv
     THEN Fail /\ UNCHANGED conv
     ELSE conv' = conv \cup {"summary_stage"} /\ Goto("summary")
  /\ UNCHANGED <<summary, txn, history, torn, dir, active, crashes, faults>>

PublishSummary ==
  /\ At("summary")
  /\ conv' = conv \ {"summary_stage"}
  /\ summary' = op.goal
  /\ Goto("clear")
  /\ UNCHANGED <<txn, history, torn, dir, active, crashes, faults>>

ClearTransaction ==
  /\ At("clear")
  /\ conv' = conv \ {"transaction"}
  /\ txn' = NoTransaction
  /\ Goto(op.ret)
  /\ UNCHANGED <<summary, history, torn, dir, active, crashes, faults>>

-----------------------------------------------------------------------------
\* record_status_transaction, with the mutation each operation plans.
\* Mutant: a reclaimed Run is still counted.
After_counts_reclaimed ==
  CASE op.kind = "create"  -> [summary EXCEPT !.run_count = @ + 1]
    [] op.kind = "reclaim" -> summary
    [] op.what = "history" -> [summary EXCEPT !.latest = op.run]
    [] op.what = "intent"  -> [summary EXCEPT !.uncertain = @ + 1]
    [] op.what = "result"  -> [summary EXCEPT !.uncertain = @ - 1]


After ==
  CASE op.kind = "create"  -> [summary EXCEPT !.run_count = @ + 1]
    [] op.kind = "reclaim" -> [summary EXCEPT !.run_count = @ - 1]
    [] op.what = "history" -> [summary EXCEPT !.latest = op.run]
    [] op.what = "intent"  -> [summary EXCEPT !.uncertain = @ + 1]
    [] op.what = "result"  -> [summary EXCEPT !.uncertain = @ - 1]

\* checked_sub
Plannable ==
  /\ "status" \in conv
  /\ op.kind = "reclaim" => summary.run_count > 0
  /\ op.what = "result" => summary.uncertain > 0

StageTransaction ==
  /\ At("record")
  /\ IF ~Plannable \/ {"transaction", "transaction_stage"} \cap conv # {}
     THEN Fail /\ UNCHANGED conv
     ELSE conv' = conv \cup {"transaction_stage"} /\ Goto("publish_record")
  /\ UNCHANGED <<summary, txn, history, torn, dir, active, crashes, faults>>

PublishTransaction ==
  /\ At("publish_record")
  /\ conv' = (conv \ {"transaction_stage"}) \cup {"transaction"}
  /\ txn' = [mutation |-> CASE op.kind = "create"  -> "created"
                            [] op.kind = "reclaim" -> "reclaimed"
                            [] OTHER               -> op.what,
             run |-> op.run, before |-> summary, after |-> After,
             prior |-> IF op.what = "history" THEN Len(history) ELSE dir[op.run].log]
  /\ op' = CASE op.kind = "create" ->
                  [op EXCEPT !.pc = "files", !.goal = After,
                             !.ret = IF op.new THEN "clear_marker" ELSE "created"]
             [] op.kind = "reclaim" ->
                  [op EXCEPT !.pc = "remove", !.order = ReclaimOrder, !.then = "finish",
                             !.goal = After, !.ret = IF op.whole THEN "wipe" ELSE "done"]
             [] OTHER ->
                  [op EXCEPT !.pc = "append", !.goal = After, !.ret = "done"]
  /\ UNCHANGED <<summary, history, torn, dir, active, crashes, faults>>
\* Mutant: the entry carries the Run of its parent.
Append_of_parent ==
  /\ At("append")
  /\ IF op.what = "history"
     THEN history' = Append(history, summary.latest) /\ UNCHANGED dir
     ELSE dir' = [dir EXCEPT ![op.run].log = @ + 1] /\ UNCHANGED history
  /\ Goto("finish")
  /\ UNCHANGED <<conv, summary, txn, torn, active, crashes, faults>>

\* append_anchored_status_line
Append_ ==
  /\ At("append")
  /\ IF op.what = "history"
     THEN history' = Append(history, op.run) /\ UNCHANGED dir
     ELSE dir' = [dir EXCEPT ![op.run].log = @ + 1] /\ UNCHANGED history
  /\ Goto("finish")
  /\ UNCHANGED <<conv, summary, txn, torn, active, crashes, faults>>

-----------------------------------------------------------------------------
\* finish_incomplete_conversation_lifecycle, the first step of a creation and
\* of a reclamation.

\* validate_lifecycle_root
LifecycleRemovable ==
  /\ Cardinality({r \in Runs : dir[r].at # "none"}) <= 1
  /\ \A r \in Runs : dir[r].leaves = {} \/ "id" \in dir[r].leaves

FinishLifecycle ==
  /\ At("lifecycle")
  /\ LET absent == IF op.kind = "create" THEN "mkdir" ELSE "done"
     IN  CASE conv = {} -> Goto(absent)
           [] conv = {"dir"} \/ ("marker" \in conv /\ LifecycleRemovable) ->
                op' = [op EXCEPT !.pc = "wipe", !.ret = absent]
           [] "marker" \in conv -> Fail
           [] OTHER ->
                op' = [op EXCEPT !.pc = "recover",
                                 !.ret = IF op.kind = "create" THEN "runs" ELSE "plan"]
  /\ UNCHANGED <<disk, active, crashes, faults>>

-----------------------------------------------------------------------------
\* create_conversation_run_with_publication_marker.

\* The leaves of a new Conversation, each made by the step of its name.
NextOf == [dir |-> "marker", marker |-> "history", history |-> "status",
           status |-> "runs", runs |-> "stage"]

CreateConversationLeaf ==
  /\ op.kind = "create"
  /\ \E leaf \in DOMAIN NextOf :
       /\ At(IF leaf = "dir" THEN "mkdir" ELSE leaf)
       /\ conv' = conv \cup {leaf}
       /\ summary' = IF leaf = "status" THEN empty_status_summary ELSE summary
       /\ op' = [op EXCEPT !.pc = NextOf[leaf], !.new = @ \/ leaf = "dir"]
  /\ UNCHANGED <<txn, history, torn, dir, active, crashes, faults>>

CreateStage ==
  /\ At("stage")
  /\ CASE dir[op.run].at = "run" -> Fail /\ UNCHANGED dir
       [] dir[op.run].at = "stage" /\ dir[op.run].leaves \subseteq {"id"} ->
            /\ op' = [op EXCEPT !.pc = "remove", !.order = StageRemovalOrder, !.then = "stage"]
            /\ UNCHANGED dir
       [] dir[op.run].at = "stage" -> Fail /\ UNCHANGED dir
       [] OTHER ->
            /\ dir' = [dir EXCEPT ![op.run].at = "stage"]
            /\ op' = [op EXCEPT !.pc = "id", !.partial = TRUE]
  /\ UNCHANGED <<conv, summary, txn, history, torn, active, crashes, faults>>

\* The leaves of the staged Run.  The run log is created and then written.
PopulateStage ==
  /\ op.kind = "create"
  /\ \/ /\ At("id")
        /\ dir' = [dir EXCEPT ![op.run].leaves = @ \cup {"id"}]
        /\ op' = [op EXCEPT !.pc = "recover", !.ret = "record"]
     \/ /\ At("files")
        /\ dir' = [dir EXCEPT ![op.run].leaves = @ \cup {"files"}]
        /\ Goto("log")
     \/ /\ At("log")
        /\ dir' = [dir EXCEPT ![op.run].leaves = @ \cup {"log"}, ![op.run].torn = {"log"}]
        /\ Goto("write_log")
     \/ /\ At("write_log")
        /\ dir' = [dir EXCEPT ![op.run].torn = {}]
        /\ Goto("unpublished")
     \/ /\ At("unpublished")
        /\ dir' = [dir EXCEPT ![op.run].leaves = @ \cup {"unpublished"}]
        /\ Goto("rename")
     \/ /\ At("rename")
        /\ dir' = [dir EXCEPT ![op.run].at = "run"]
        /\ Goto("finish")
  /\ UNCHANGED <<conv, summary, txn, history, torn, active, crashes, faults>>

ClearMarker ==
  /\ At("clear_marker")
  /\ conv' = conv \ {"marker"}
  /\ Goto("created")
  /\ UNCHANGED <<summary, txn, history, torn, dir, active, crashes, faults>>
\* cleanup_partial_conversation_run, then recover_status_transaction in any
\* case; the new Conversation goes only if both succeed.
CleanupRun ==
  /\ At("cleanup")
  /\ op' = IF CreationShape(dir[op.run])
           THEN [op EXCEPT !.pc = "remove", !.order = StageRemovalOrder, !.then = "recover",
                           !.ret = IF op.new THEN "cleanup_root" ELSE "failed"]
           ELSE [op EXCEPT !.pc = "recover", !.ret = "failed"]
  /\ UNCHANGED <<disk, active, crashes, faults>>

\* cleanup_new_empty_conversation
CleanupRoot ==
  /\ At("cleanup_root")
  /\ op' = IF conv \subseteq Range(RootOrder) /\ history = <<>>
           THEN [op EXCEPT !.pc = "wipe", !.ret = "failed"]
           ELSE [op EXCEPT !.pc = "failed"]
  /\ UNCHANGED <<disk, active, crashes, faults>>

-----------------------------------------------------------------------------
\* reclaim_productive_run.
\* Mutant: the marker alone decides, whatever the streams hold.
Boundary_by_marker(d) ==
  CASE op.what = "Unpublished" /\ "unpublished" \notin d.leaves -> "return"
    [] op.what = "Creation" /\ {"unpublished", "recovery"} \cap d.leaves = {} -> "error"
    [] OTHER -> "reclaim"

\* The Run is at the boundary the caller asks for: "return" leaves it alone
\* without an error, "error" refuses.
Boundary(d) ==
  CASE op.what = "Unpublished" /\ ("unpublished" \notin d.leaves \/ "recovery" \in d.leaves)
         -> "return"
    [] op.what = "Creation" /\ {"unpublished", "recovery"} \cap d.leaves = {} -> "error"
    [] d.torn # {} \/ d.events \/ d.log # 0 -> "error"
    [] OTHER -> "reclaim"

PlanReclaim ==
  /\ At("plan")
  /\ LET d     == dir[op.run]
         root  == op.run = Root
         whole == root /\ history = <<>>
     IN  CASE d.at # "run" -> Goto("done")
           [] "id" \notin d.leaves -> Fail
           [] Boundary(d) = "return" -> Goto("done")
           [] \/ Boundary(d) = "error"
              \/ root /\ \E r \in Children : dir[r].at # "none"
              \/ root /\ op.what = "Creation" /\ history # <<>>
              \/ whole /\ conv # {"dir", "history", "runs", "status"}
              \/ ~({"files", "log"} \subseteq d.leaves) -> Fail
           [] whole -> op' = [op EXCEPT !.whole = TRUE, !.pc = "reclaim_marker"]
           [] OTHER -> op' = [op EXCEPT !.pc = "recover", !.ret = "record"]
  /\ UNCHANGED <<disk, active, crashes, faults>>

\* prepare_conversation_lifecycle_marker
PrepareMarker ==
  /\ At("reclaim_marker")
  /\ conv' = conv \cup {"marker"}
  /\ op' = [op EXCEPT !.pc = "recover", !.ret = "record"]
  /\ UNCHANGED <<summary, txn, history, torn, dir, active, crashes, faults>>

-----------------------------------------------------------------------------
\* The commands.  Each takes the lease, so none overlaps another.

Free == op = Idle /\ active = NotActive
Executing(stage) == op = Idle /\ active # NotActive /\ active.stage = stage

\* reserve_new_conversation_run: an unpublished leftover goes first.
New ==
  /\ Free
  /\ op' = [Idle EXCEPT !.kind = "reclaim", !.run = Root, !.pc = "lifecycle",
                        !.what = "Unpublished", !.reserve = TRUE]
  /\ UNCHANGED <<disk, active, crashes, faults>>

\* reserve_conversation_continuation
Continue ==
  /\ Free
  /\ {"history", "runs"} \subseteq conv /\ history # <<>>
  /\ \E r \in Children : dir[r].at # "run" /\ Start("create", r, "lifecycle")
  /\ UNCHANGED <<disk, active, crashes, faults>>
\* reserve_conversation_run_recovery, then RunAttemptLedger::open, whose
\* recovery may find that the Run was being reclaimed.
Resume ==
  /\ Free
  /\ \E r \in Runs :
       /\ dir[r].at = "run" /\ {"files", "log", "recovery"} \subseteq dir[r].leaves
       /\ dir[r].torn = {}
       /\ ~Uncertain(r) /\ r \notin Range(history)
       /\ op' = [Idle EXCEPT !.kind = "resume", !.run = r, !.pc = "recover", !.ret = "done"]
  /\ UNCHANGED <<disk, active, crashes, faults>>

\* conversation_status_summary, when status_recovery_is_required
Status ==
  /\ Free
  /\ {"transaction", "transaction_stage", "summary_stage"} \cap conv # {}
  /\ op' = [Idle EXCEPT !.kind = "status", !.pc = "recover", !.ret = "done"]
  /\ UNCHANGED <<disk, active, crashes, faults>>

StartAppend(r, what) ==
  op' = [Idle EXCEPT !.kind = "append", !.run = r, !.what = what,
                     !.pc = "recover", !.ret = "record"]

\* reconcile_tool_attempt: evidence settles what a dead process left open.
Reconcile ==
  /\ Free
  /\ \E r \in Runs :
       /\ dir[r].at = "run" /\ Uncertain(r)
       /\ StartAppend(r, "result")
  /\ UNCHANGED <<disk, active, crashes, faults>>

\* PreparedProductiveRecoveryWriter::publish: the header is created, written,
\* and the unpublished marker removed; then RunCreationPublication::finish.
Publish ==
  /\ op = Idle /\ active # NotActive
  /\ LET r == active.run
         d == dir[r]
     IN  \/ /\ active.stage = "created"
            /\ dir' = [dir EXCEPT ![r].leaves = @ \cup {"recovery"}, ![r].torn = {"recovery"}]
            /\ active' = [active EXCEPT !.stage = "header"]
         \/ /\ active.stage = "header"
            /\ dir' = [dir EXCEPT ![r].torn = {}]
            /\ active' = [active EXCEPT !.stage = "marked"]
         \/ /\ active.stage = "marked"
            /\ dir' = [dir EXCEPT ![r].leaves = @ \ {"unpublished"}]
            /\ active' = [active EXCEPT !.stage = "published"]
         \/ /\ active.stage = "published"
            /\ active' = [active EXCEPT !.stage = "running"]
            /\ UNCHANGED dir
  /\ UNCHANGED <<conv, summary, txn, history, torn, op, crashes, faults>>

\* execute_reserved_productive_session: a Ctrl-C or a failure on the way to
\* the published Run takes the Run back.
Abandon ==
  /\ op = Idle /\ active # NotActive
  /\ \/ active.stage = "created"
     \/ active.stage = "header" /\ faults < MaxFaults
     \/ active.stage \in {"marked", "published"} /\ LateCancel
  /\ \E what \in {"Unpublished", "Creation"} :
       /\ what = "Unpublished" => active.stage = "created"
       /\ op' = [Idle EXCEPT !.kind = "reclaim", !.run = active.run, !.pc = "lifecycle",
                             !.what = what]
  /\ faults' = IF active.stage = "header" THEN faults + 1 ELSE faults
  /\ active' = NotActive
  /\ UNCHANGED <<disk, crashes>>

\* The productive execution of a Run, as far as the Conversation sees it.
Emit ==
  /\ Executing("running")
  /\ dir' = [dir EXCEPT ![active.run].events = TRUE]
  /\ UNCHANGED <<conv, summary, txn, history, torn, op, active, crashes, faults>>

Attempt ==
  /\ Executing("running") /\ dir[active.run].events
  /\ IF Uncertain(active.run)
     THEN StartAppend(active.run, "result")
     ELSE dir[active.run].log < MaxRecords /\ StartAppend(active.run, "intent")
  /\ UNCHANGED <<disk, active, crashes, faults>>

\* append_conversation_entry: the last step of a completed Run.
Finish ==
  /\ Executing("running") /\ dir[active.run].events /\ ~Uncertain(active.run)
  /\ StartAppend(active.run, "history")
  /\ UNCHANGED <<disk, active, crashes, faults>>

-----------------------------------------------------------------------------
\* The end of an operation.  A reservation goes on to the creation when the id
\* is not occupied; an error ends the command.
Return ==
  /\ \/ /\ At("done")
        /\ IF op.reserve /\ conv = {} THEN Start("create", Root, "lifecycle") ELSE op' = Idle
        /\ active' = CASE op.kind = "resume" /\ dir[op.run].at = "run" ->
                              [run |-> op.run, stage |-> "running"]
                       [] op.what = "history" -> NotActive
                       [] OTHER -> active
     \/ /\ At("created")
        /\ op' = Idle
        /\ active' = [run |-> op.run, stage |-> "created"]
     \/ /\ At("failed")
        /\ op' = Idle
        /\ active' = NotActive
  /\ UNCHANGED <<disk, crashes, faults>>

\* A file-system call fails without an effect.  An effect whose
\* synchronisation fails is the failure of the step that follows it.
Fault ==
  /\ faults < MaxFaults
  /\ ~op.failing
  /\ op.pc \notin {None, "done", "created", "failed"} \/ (SyncFails /\ At("created"))
  /\ Fail
  /\ faults' = faults + 1
  /\ UNCHANGED <<disk, active, crashes>>

\* The process ends: killed, or by a second Ctrl-C.
Crash ==
  /\ crashes < MaxCrashes
  /\ ~Free
  /\ crashes' = crashes + 1
  /\ op' = Idle /\ active' = NotActive
  /\ torn' \in IF Torn /\ At("append") THEN BOOLEAN ELSE {torn}
  /\ UNCHANGED <<conv, summary, txn, history, dir, faults>>

Recovery == Recover \/ Target \/ Select \/ StageSummary \/ PublishSummary \/ ClearTransaction

Step ==
  \/ RemoveRun \/ Wipe \/ Recovery
  \/ StageTransaction \/ PublishTransaction \/ Append_
  \/ FinishLifecycle
  \/ CreateConversationLeaf \/ CreateStage \/ PopulateStage \/ ClearMarker
  \/ CleanupRun \/ CleanupRoot
  \/ PlanReclaim \/ PrepareMarker
  \/ Return

Command ==
  \/ New \/ Continue \/ Resume \/ Status \/ Reconcile
  \/ Publish \/ Abandon \/ Emit \/ Attempt \/ Finish

Next == Step \/ Command \/ Fault \/ Crash

Spec == Init /\ [][Next]_vars

\* An operation in progress goes on, and somebody asks for the status.
FairSpec == Spec /\ WF_vars(Step) /\ WF_vars(Status)

-----------------------------------------------------------------------------
Summaries == [latest : Runs \cup {None}, run_count : 0 .. Cardinality(Runs),
              uncertain : 0 .. Cardinality(Runs)]

\* Every variable has its type: the leaves, the summary and the transaction
\* are among those the code writes.
TypeOK ==
  /\ conv \subseteq ConversationLeaves
  /\ summary \in Summaries
  /\ txn \in [mutation : {None, "created", "reclaimed", "history", "intent", "result"},
              run : Runs, before : Summaries, after : Summaries,
              prior : 0 .. MaxRecords + 1]
  /\ history \in Seq(Runs)
  /\ torn \in BOOLEAN
  /\ dir \in [Runs -> [at : {"none", "stage", "run"}, leaves : SUBSET RunLeaves,
                       torn : SUBSET {"log", "recovery"}, log : 0 .. MaxRecords + 1,
                       events : BOOLEAN]]
  /\ crashes \in 0 .. MaxCrashes /\ faults \in 0 .. MaxFaults

\* status.json tells the truth whenever no transaction is open: its latest
\* entry, its Run count and its uncertain attempts are those of the streams
\* and directories, after any number of crashes and failed calls
\* (append_jsonl_with_status_inner, run_creation_status_transaction,
\* run_reclamation_status_transaction, recover_status_transaction).
StatusTruthful ==
  {"status", "marker", "transaction"} \cap conv = {"status"} => summary = Actual

\* While a transaction is open, status.json is one of its two summaries, and
\* unless the append was cut short the true summary is one of them too: a
\* recovery can always tell which (recover_status_transaction).
TransactionBrackets ==
  "transaction" \in conv /\ "status" \in conv =>
    /\ summary \in {txn.before, txn.after}
    /\ "marker" \notin conv /\ ~torn => Actual \in {txn.before, txn.after}

\* A Run that has committed an event keeps it: no cleanup, reclamation or
\* recovery removes the directory of a Run that has begun
\* (reclaim_productive_run, finish_incomplete_conversation_lifecycle).
CommittedRunsStay == [][\A r \in Runs : dir[r].events => dir'[r].events]_vars

\* history.jsonl only grows (append_conversation_entry is its one writer).
HistoryAppendOnly == [][IsPrefix(history, history')]_vars

\* The target of a transaction is neither wholly there nor wholly absent: an
\* append or a definition cut short, or a created Run whose removal after a
\* failure was itself interrupted.
Undecidable ==
  LET d == dir[txn.run]
  IN  \/ torn
      \/ d.torn # {}
      \/ txn.mutation = "created" /\ d.at = "run" /\ d.leaves # Constructed

\* A transaction that a process left open is resolved by the next operation
\* of whatever kind, a status query at the latest, unless its target is
\* undecidable, when every operation refuses (recover_status_transaction), or
\* the whole Conversation is being removed (lifecycle marker).
TransactionsResolve ==
  "transaction" \in conv /\ "marker" \notin conv
    ~> ("transaction" \notin conv \/ "marker" \in conv \/ Undecidable)

\* What an operator can see of a Conversation no process is working on:
\* status.json counts the Runs that are there.
StatusAtRest == Free => StatusTruthful
=============================================================================

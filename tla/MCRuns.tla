-------------------------------- MODULE MCRuns --------------------------------
(***************************************************************************)
(* Productive Runs on small instances, one component at a time: a Run with *)
(* power loss, Ctrl-C and reconciliation ("faults", the constants of the   *)
(* configuration), one that is only killed and resumed ("resume"), the     *)
(* status transactions of its Conversation ("status"), and what becomes of *)
(* a Ctrl-C that was answered ("interrupts").                              *)
(***************************************************************************)
EXTENDS ProductiveRun

CONSTANTS Root, Child

VARIABLES
  component,   \* the one that is exercised; the others stay at rest
  conv, summary, txn, entries, torn, dir, op, active, kills, faults,
  permit, flag, deferred, pc, held, run, handler, running, told, terminal

Resume == INSTANCE ProductiveRun WITH
  Phases <- 2, MaxTurns <- 3, MaxCrashes <- 2, MaxInterrupts <- 0, PowerLoss <- FALSE, Reconciles <- FALSE

Conv == INSTANCE Conversation WITH
  Children <- {Child}, MaxRecords <- 2, MaxCrashes <- 2, MaxFaults <- 1, Torn <- TRUE, LateCancel <- FALSE,
  SyncFails <- FALSE, history <- entries, crashes <- kills

Cancel == INSTANCE Cancellation WITH
  state <- permit, cancelled <- flag, deferred_interrupt <- deferred, guard <- held

ConvVars == <<conv, summary, txn, entries, torn, dir, op, active, kills, faults>>
CancelVars == <<permit, flag, deferred, pc, held, run, handler, running, told, terminal>>
all == <<component, vars, ConvVars, CancelVars>>

AllInit ==
  /\ component \in {"faults", "resume", "status", "interrupts"}
  /\ IF component = "resume" THEN Resume!Init ELSE Init
  /\ Conv!Init
  /\ Cancel!Init

OfResume(action) == component = "resume" /\ action /\ UNCHANGED <<component, ConvVars, CancelVars>>
OfConv(action) == component = "status" /\ action /\ UNCHANGED <<component, vars, CancelVars>>
OfCancel(action) == component = "interrupts" /\ action /\ UNCHANGED <<component, vars, ConvVars>>

AllNext ==
  \/ component = "faults" /\ Next /\ UNCHANGED <<component, ConvVars, CancelVars>>
  \/ OfResume(Resume!Next) \/ OfConv(Conv!Next) \/ OfCancel(Cancel!Next)

\* A Resume is eventually asked for and the process that serves it runs on; an operation
\* on the Conversation goes on, and somebody asks for its status; the productive thread's
\* calls return, since what they wait for polls the flag, and a handler that ends the
\* process does so.
AllSpec ==
  /\ AllInit /\ [][AllNext]_all
  /\ WF_all(OfResume(Resume!Open)) /\ WF_all(OfResume(Resume!Execute))
  /\ WF_all(OfConv(Conv!Step)) /\ WF_all(OfConv(Conv!Status))
  /\ WF_all(OfCancel(Cancel!Productive)) /\ WF_all(OfCancel(Cancel!HandlerExit))
-------------------------------------------------------------------------------
\* Wherever the process is killed, exact Resume brings the Run to its history entry,
\* unless an attempt was cut off and stays uncertain; and without Ctrl-C, reconciliation
\* and machine failure its replay never meets a difference.
ResumedRunsComplete ==
  /\ <>[](component = "resume" => Resume!At("down") /\ (history # "none" \/ Resume!Uncertain # {}))
  /\ [](component = "resume" => Resume!ReplayAgrees)

\* status.json tells the truth whenever no transaction is open, and while one is open it
\* is one of the two summaries that recovery decides between (recover_status_transaction).
StatusTruthful == Conv!StatusTruthful /\ Conv!TransactionBrackets

\* No cleanup, reclamation or recovery removes the directory of a Run that has committed
\* an Event (reclaim_productive_run, finish_incomplete_conversation_lifecycle).
CommittedRunsStay == [][\A r \in Conv!Runs : dir[r].events => dir'[r].events]_all

\* A status transaction that a process left open is resolved by the next operation, unless
\* its target is undecidable or the whole Conversation is being removed.
TransactionsResolve == Conv!TransactionsResolve

\* A cancelled operation reaches its end, and a deferred Ctrl-C ends the process once the
\* operation has persisted its outcome.
InterruptsTakeEffect == Cancel!InterruptsTakeEffect
===============================================================================

----------------------------- MODULE Coordinator -----------------------------
(***************************************************************************)
(* The process-wide coordinator of one productive operation and Ctrl-C     *)
(* (flow-agent-core, runtime/cancellation.rs).  Every method takes the     *)
(* state lock, so each is one atomic step here.  A method that returns a   *)
(* value has an operator of its own for the value, read before the step.   *)
(***************************************************************************)

VARIABLES
  state,              \* ProductiveOperationState, under its mutex
  cancelled,          \* the flag providers and the executor client poll
  deferred_interrupt  \* a Ctrl-C that lost against completion

coordinator == <<state, cancelled, deferred_interrupt>>

\* States that a permit (a guard whose Drop releases it) stands for.
Permits == {"PublishingRun", "CommittingRun", "Dispatching", "CommittingDurableState"}

OperationStates == {"Idle", "Active", "Cancelling", "Completing"} \cup Permits

\* Permits that a Ctrl-C marks as cancelled without taking them away.
Bounded == Permits \ {"Dispatching"}

CoordinatorTypeOK ==
  /\ state \in OperationStates
  /\ cancelled \in BOOLEAN
  /\ deferred_interrupt \in BOOLEAN

CoordinatorInit ==
  /\ state = "Idle"
  /\ cancelled = FALSE
  /\ deferred_interrupt = FALSE

begin ==
  /\ state = "Idle"
  /\ state' = "Active"
  /\ cancelled' = FALSE
  /\ deferred_interrupt' = FALSE

\* Mutant: a Ctrl-C after completion always exits, even the first.
interrupt_action_never_defers ==
  CASE state \in {"Idle", "Cancelling", "Completing"} -> "Exit"
    [] state \in Bounded -> IF cancelled THEN "Exit" ELSE "Cancel"
    [] OTHER -> "Cancel"

\* What interrupt() answers to the signal thread.
interrupt_action ==
  CASE state \in {"Idle", "Cancelling"} -> "Exit"
    [] state = "Completing" -> IF deferred_interrupt THEN "Exit" ELSE "Defer"
    [] state \in Bounded -> IF cancelled THEN "Exit" ELSE "Cancel"
    [] OTHER -> "Cancel"

\* Mutant: a Ctrl-C while no permit is held only sets the flag.
interrupt_only_flags ==
  /\ state' = IF state = "Dispatching" THEN "Cancelling" ELSE state
  /\ cancelled' = (cancelled \/ state \in {"Active"} \cup Permits)
  /\ deferred_interrupt' = (deferred_interrupt \/ state = "Completing")

interrupt ==
  /\ state' = IF state \in {"Active", "Dispatching"} THEN "Cancelling" ELSE state
  /\ cancelled' = (cancelled \/ state \in {"Active"} \cup Permits)
  /\ deferred_interrupt' = (deferred_interrupt \/ state = "Completing")

\* Which side claim_terminal() lets win.
terminal_claim ==
  IF state \in {"Idle", "Active", "Completing"} THEN "Completion" ELSE "Cancellation"

claim_terminal ==
  /\ state' = CASE state = "Active" -> "Completing"
                [] state \in Permits -> "Cancelling"
                [] OTHER -> state
  /\ cancelled' = (cancelled \/ state \in Permits)
  /\ UNCHANGED deferred_interrupt

effect_dispatch_allowed == state \in {"Idle", "Active"}

\* claim_operation is Ok; from Idle it is Ok without a claim.
claim_allowed == state \in {"Idle", "Active"}

claim_operation(permit) ==
  /\ state' = IF state = "Active" THEN permit ELSE state
  /\ UNCHANGED <<cancelled, deferred_interrupt>>

\* Mutant: the release forgets the Ctrl-C that came meanwhile.
release_operation_forgets(permit) ==
  /\ state' = IF state = permit THEN "Active" ELSE state
  /\ UNCHANGED <<cancelled, deferred_interrupt>>

\* Drop of a claimed guard.
release_operation(permit) ==
  /\ state' = IF state = permit
              THEN IF cancelled THEN "Cancelling" ELSE "Active"
              ELSE state
  /\ UNCHANGED <<cancelled, deferred_interrupt>>

\* Mutant: the publication does not look at the flag.
publication_allowed_unchecked(permit) == state \in {"Idle", permit}

\* commit and finish of a Run publication move from one permit to the next
\* unless a Ctrl-C marked the first.
publication_allowed(permit) == state = "Idle" \/ (state = permit /\ ~cancelled)

publication_step(permit, next) ==
  /\ state' = IF state = permit
              THEN IF cancelled THEN "Cancelling" ELSE next
              ELSE state
  /\ UNCHANGED <<cancelled, deferred_interrupt>>

\* Mutant: the flag outlives the operation.
settle_keeps_flag ==
  /\ state' = "Idle"
  /\ deferred_interrupt' = FALSE
  /\ UNCHANGED cancelled

settle ==
  /\ state' = "Idle"
  /\ cancelled' = FALSE
  /\ deferred_interrupt' = FALSE
=============================================================================

---------------------------- MODULE Cancellation -----------------------------
(***************************************************************************)
(* The two threads that meet in the Coordinator: the productive thread,    *)
(* which creates or resumes a Run and executes its Flow under permits, and *)
(* the flow-interrupt thread, which answers Ctrl-C.  Run data is reduced   *)
(* to whether the Run exists and is published; ProductiveRun has the rest. *)
(***************************************************************************)
EXTENDS Coordinator, TLAPS

VARIABLES
  pc,       \* where the productive thread is
  guard,    \* the permit it holds, or "none"
  run,      \* the Run this operation creates or resumes
  handler,  \* the flow-interrupt thread
  running,  \* the process has not exited
  told,     \* the first answer Ctrl-C got in this operation
  terminal  \* the side that claim_terminal() let win

local == <<pc, guard, run>>
ghost == <<told, terminal>>
vars == <<coordinator, local, handler, running, ghost>>

PCs == {"idle", "create", "created", "publish", "commit", "start", "flow",
        "unwind", "terminal", "return"}

TypeOK ==
  /\ CoordinatorTypeOK
  /\ pc \in PCs
  /\ guard \in Permits \cup {"none"}
  /\ run \in {"none", "unpublished", "published"}
  /\ handler \in {"waiting", "exiting"}
  /\ running \in BOOLEAN
  /\ told \in {"none", "Cancel", "Defer"}
  /\ terminal \in {"none", "Completion", "Cancellation"}

Init ==
  /\ CoordinatorInit
  /\ pc = "idle" /\ guard = "none" /\ run = "none"
  /\ handler = "waiting" /\ running = TRUE
  /\ told = "none" /\ terminal = "none"

\* A step of the productive thread that only moves it and its permit.
Goto(next, permit) ==
  /\ pc' = next /\ guard' = permit
  /\ UNCHANGED <<run, handler, running, ghost>>

------------------------------------------------------------------------------
(* The flow-interrupt thread. *)

Interrupt ==
  /\ running /\ handler = "waiting"
  /\ interrupt
  /\ told' = IF told = "none" /\ interrupt_action # "Exit" THEN interrupt_action ELSE told
  /\ handler' = IF interrupt_action = "Exit" THEN "exiting" ELSE "waiting"
  /\ UNCHANGED <<local, running, terminal>>

HandlerExit ==
  /\ running /\ handler = "exiting"
  /\ running' = FALSE
  /\ UNCHANGED <<coordinator, local, handler, ghost>>

------------------------------------------------------------------------------
(* The productive thread: registration and Run creation. *)

\* A new Run is created first; an exact Resume finds it published.
Activate ==
  /\ running /\ pc = "idle"
  /\ begin
  /\ \/ pc' = "create" /\ run' = "none"
     \/ pc' = "start" /\ run' = "published"
  /\ UNCHANGED <<guard, handler, running, ghost>>

ClaimCreation ==
  /\ running /\ pc = "create" /\ guard = "none"
  /\ claim_operation("Dispatching")
  /\ IF claim_allowed THEN Goto("create", "Dispatching") ELSE Goto("return", "none")

\* The creation permit is dropped whether or not the creation succeeded.
CreateRun ==
  /\ running /\ pc = "create" /\ guard = "Dispatching"
  /\ release_operation("Dispatching")
  /\ run' \in {"none", "unpublished"}
  /\ pc' = "created" /\ guard' = "none"
  /\ UNCHANGED <<handler, running, ghost>>

\* A cancelled or failed operation reclaims the Run it created.
Reclaim ==
  /\ pc' = "return" /\ guard' = "none" /\ run' = "none"
  /\ UNCHANGED <<handler, running, ghost>>

CheckCreation ==
  /\ running /\ pc = "created"
  /\ UNCHANGED coordinator
  /\ IF effect_dispatch_allowed /\ run # "none" THEN Goto("publish", "none") ELSE Reclaim

ClaimPublication ==
  /\ running /\ pc = "publish" /\ guard = "none"
  /\ claim_operation("PublishingRun")
  /\ IF claim_allowed THEN Goto("publish", "PublishingRun") ELSE Reclaim

\* Preparing the recovery snapshot, or publishing it, fails: the guard is
\* dropped and the Run is reclaimed.
PublicationFails ==
  /\ running /\ run = "unpublished" /\ guard \in {"PublishingRun", "CommittingRun"}
  /\ release_operation(guard)
  /\ Reclaim

CommitPublication ==
  /\ running /\ pc = "publish" /\ guard = "PublishingRun"
  /\ publication_step("PublishingRun", "CommittingRun")
  /\ IF publication_allowed("PublishingRun") THEN Goto("commit", "CommittingRun") ELSE Reclaim

\* prepared.publish(): from here the Run is visible.
PublishRun ==
  /\ running /\ pc = "commit" /\ run = "unpublished"
  /\ run' = "published"
  /\ UNCHANGED <<coordinator, pc, guard, handler, running, ghost>>

FinishPublication ==
  /\ running /\ pc = "commit" /\ run = "published"
  /\ publication_step("CommittingRun", "Active")
  /\ IF publication_allowed("CommittingRun") THEN Goto("start", "none") ELSE Reclaim

------------------------------------------------------------------------------
(* The productive thread: execution of the Flow. *)

\* session.started; a failure to commit it returns at once.
StartSession ==
  /\ running /\ pc = "start"
  /\ UNCHANGED coordinator
  /\ \E next \in {"flow", "return"} : Goto(next, "none")

Claim(permit) ==
  /\ running /\ pc = "flow" /\ guard = "none"
  /\ claim_operation(permit)
  /\ IF claim_allowed THEN Goto("flow", permit) ELSE Goto("unwind", "none")

Release ==
  /\ running /\ pc = "flow" /\ guard # "none"
  /\ release_operation(guard)
  /\ Goto("flow", "none")

EnsureAllowed ==
  /\ running /\ pc = "flow" /\ guard = "none" /\ ~effect_dispatch_allowed
  /\ UNCHANGED coordinator
  /\ Goto("unwind", "none")

\* Any other error: the Flow unwinds.
FlowFails ==
  /\ running /\ pc = "flow" /\ guard = "none"
  /\ UNCHANGED coordinator
  /\ Goto("unwind", "none")

\* A definitive provider failure claims the outcome before it unwinds.
LinearizeProviderError ==
  /\ running /\ pc = "flow" /\ guard = "none"
  /\ claim_terminal
  /\ Goto("unwind", "none")

\* The single claim after the Flow has returned Ok or Err.
ClaimTerminal ==
  /\ running /\ pc \in {"flow", "unwind"} /\ guard = "none"
  /\ claim_terminal
  /\ terminal' = terminal_claim
  /\ pc' = "terminal"
  /\ UNCHANGED <<guard, run, handler, running, told>>

PersistOutcome ==
  /\ running /\ pc = "terminal"
  /\ UNCHANGED coordinator
  /\ Goto("return", "none")

\* Mutant: the deferred Ctrl-C is dropped with the operation.
Settle_drops_deferred ==
  /\ running /\ pc = "return"
  /\ settle
  /\ pc' = "idle" /\ run' = "none" /\ told' = "none" /\ terminal' = "none"
  /\ UNCHANGED <<guard, handler, running>>

\* Drop of the ActiveOperation: a deferred Ctrl-C ends the process here.
Settle ==
  /\ running /\ pc = "return"
  /\ settle
  /\ running' = ~deferred_interrupt
  /\ pc' = "idle" /\ run' = "none" /\ told' = "none" /\ terminal' = "none"
  /\ UNCHANGED <<guard, handler>>

Productive ==
  \/ ClaimCreation \/ CreateRun \/ CheckCreation \/ ClaimPublication
  \/ PublicationFails \/ CommitPublication \/ PublishRun \/ FinishPublication
  \/ StartSession \/ Claim("Dispatching") \/ Claim("CommittingDurableState") \/ Release
  \/ EnsureAllowed \/ FlowFails \/ LinearizeProviderError \/ ClaimTerminal
  \/ PersistOutcome \/ Settle

Next == Interrupt \/ HandlerExit \/ Activate \/ Productive

Spec == Init /\ [][Next]_vars

\* Every call the productive thread makes returns: providers and the executor
\* client poll `cancelled`, and every other step is finite.  A Flow need not
\* end by itself, so nothing is assumed of Activate or of Ctrl-C.
FairSpec == Spec /\ WF_vars(Productive) /\ WF_vars(HandlerExit)
------------------------------------------------------------------------------
(* What the coordinator guarantees. *)

\* The state is a permit exactly while the productive thread holds it: a
\* permit state that nobody holds would refuse every later claim.  Only a
\* dispatch permit is overtaken by a Ctrl-C, which leaves Cancelling.
PermitMatchesState ==
  /\ state \in Permits => guard = state
  /\ guard # "none" => state = guard \/ (guard = "Dispatching" /\ state = "Cancelling")

\* The flag that providers and the executor client poll, and the one that
\* settle() reads, say what the user was answered: no Ctrl-C is lost between
\* a claim and the release of its permit.
FlagsTellTheAnswer ==
  /\ cancelled <=> told = "Cancel"
  /\ deferred_interrupt <=> told = "Defer"

\* Where the productive thread may be in each state: a permit is held only in
\* the places that claim one, and an outcome is claimed only after the Flow.
PlaceOfState ==
  /\ state = "Idle" <=> pc = "idle"
  /\ state = "Completing" => pc \in {"unwind", "terminal", "return"}
  /\ told = "Defer" => state \in {"Completing"}
  /\ told = "Cancel" => state \in {"Cancelling"} \cup Bounded
  /\ state = "Cancelling" => told = "Cancel"
  /\ guard = "Dispatching" => pc \in {"create", "flow"}
  /\ guard = "CommittingDurableState" => pc = "flow"
  /\ guard = "PublishingRun" => pc = "publish"
  /\ pc = "commit" <=> guard = "CommittingRun"
  /\ pc = "create" => run = "none"
  /\ terminal # "none" => pc \in {"terminal", "return"}
  /\ terminal = "Completion" => state = "Completing"
  /\ terminal = "Cancellation" => state = "Cancelling"
  /\ pc = "terminal" => state \in {"Completing", "Cancelling"}

\* The inductive invariant: the permit the productive thread holds, its place
\* and the answer given to Ctrl-C determine the state and the flags that
\* claim_operation, release_operation and claim_terminal decide on.
IInv == TypeOK /\ PermitMatchesState /\ FlagsTellTheAnswer /\ PlaceOfState

\* claim_terminal() persists the side the user was told of: a completed
\* outcome never follows an answered cancellation, and no operation is
\* recorded as cancelled unless a Ctrl-C was answered with Cancel.
OutcomeAgreesWithAnswer ==
  /\ terminal = "Completion" => told # "Cancel"
  /\ terminal = "Cancellation" => told = "Cancel"

\* No permit is granted once Ctrl-C was answered with Cancel, so no external
\* effect, durable commit or Run publication starts after it.
NoPermitAfterCancel ==
  [][(guard' # "none" /\ guard' # guard) => told # "Cancel"]_vars

Creating == pc \in {"create", "created", "publish", "commit"}

\* Execution starts on a new Run only if no Ctrl-C was answered while it was
\* being created and published, and a creation that ends otherwise, even after
\* the Run became visible, leaves no Run behind.
CreationIsAllOrNothing ==
  [][/\ Creating /\ pc' = "start" => told # "Cancel" /\ run' = "published"
     /\ Creating /\ pc' = "return" => run' = "none"]_vars

\* The user's view of the operation implements InterruptRace: one winner, the
\* first Ctrl-C cancels or waits, every other one ends the process.
Race == INSTANCE InterruptRace WITH
  phase <- CASE state = "Idle" -> "idle"
             [] state = "Completing" -> IF deferred_interrupt THEN "deferring" ELSE "completing"
             [] OTHER -> IF cancelled THEN "cancelling" ELSE "active",
  doomed <- handler = "exiting",
  alive <- running

ImplementsRace == Race!Spec

\* An answered Ctrl-C takes effect: a cancelled operation reaches its end, since
\* no permit is waited for, and a deferred one ends the process once the
\* operation has persisted its outcome.
InterruptsTakeEffect ==
  /\ told = "Cancel" ~> pc = "idle" \/ ~running
  /\ told = "Defer" ~> ~running

------------------------------------------------------------------------------
(* Proofs.  One inductive invariant relates the coordinator's state to the
   permit the productive thread holds and to what the user was answered; the
   safety properties follow from it. *)

\* Every step of the two threads preserves the inductive invariant.
LEMMA IInvStep == IInv /\ [Next]_vars => IInv'
<1>. SUFFICES ASSUME IInv, [Next]_vars PROVE IInv'
  BY Zenon
<1>. USE DEF IInv, TypeOK, CoordinatorTypeOK, PermitMatchesState, FlagsTellTheAnswer,
             PlaceOfState, Permits, OperationStates, Bounded, PCs, local, ghost
<1>1. CASE Interrupt
  <2>. USE <1>1 DEF Interrupt, interrupt, interrupt_action
  <2>1. TypeOK'
    BY Zenon
  <2>2. PermitMatchesState'
    BY Zenon
  <2>3. FlagsTellTheAnswer'
    BY Zenon
  <2>4. PlaceOfState'
    BY Zenon
  <2>. QED
    BY <2>1, <2>2, <2>3, <2>4, Zenon
<1>2. CASE HandlerExit
  BY <1>2, ZenonT(60) DEF HandlerExit, coordinator
<1>3. CASE Activate
  BY <1>3, Zenon DEF Activate, begin
<1>4. CASE ClaimCreation
  BY <1>4, Zenon DEF ClaimCreation, claim_operation, claim_allowed, Goto
<1>5. CASE CreateRun
  BY <1>5, Zenon DEF CreateRun, release_operation
<1>6. CASE CheckCreation
  BY <1>6, Zenon DEF CheckCreation, effect_dispatch_allowed, Goto, Reclaim, coordinator
<1>7. CASE ClaimPublication
  BY <1>7, Zenon DEF ClaimPublication, claim_operation, claim_allowed, Goto, Reclaim
<1>8. CASE PublicationFails
  BY <1>8, Zenon DEF PublicationFails, release_operation, Reclaim
<1>9. CASE CommitPublication
  BY <1>9, Zenon DEF CommitPublication, publication_step, publication_allowed, Goto, Reclaim
<1>10. CASE PublishRun
  BY <1>10, Zenon DEF PublishRun, coordinator
<1>11. CASE FinishPublication
  BY <1>11, Zenon DEF FinishPublication, publication_step, publication_allowed, Goto, Reclaim
<1>12. CASE StartSession
  BY <1>12, Zenon DEF StartSession, Goto, coordinator
<1>13. CASE Claim("Dispatching")
  BY <1>13, Zenon DEF Claim, claim_operation, claim_allowed, Goto
<1>14. CASE Claim("CommittingDurableState")
  BY <1>14, Zenon DEF Claim, claim_operation, claim_allowed, Goto
<1>15. CASE Release
  BY <1>15, Zenon DEF Release, release_operation, Goto
<1>16. CASE EnsureAllowed
  BY <1>16, Zenon DEF EnsureAllowed, effect_dispatch_allowed, Goto, coordinator
<1>17. CASE FlowFails
  BY <1>17, Zenon DEF FlowFails, Goto, coordinator
<1>18. CASE LinearizeProviderError
  BY <1>18, Zenon DEF LinearizeProviderError, claim_terminal, Goto
<1>19. CASE ClaimTerminal
  BY <1>19, Zenon DEF ClaimTerminal, claim_terminal, terminal_claim
<1>20. CASE PersistOutcome
  BY <1>20, Zenon DEF PersistOutcome, Goto, coordinator
<1>21. CASE Settle
  BY <1>21, Zenon DEF Settle, settle
<1>22. CASE UNCHANGED vars
  BY <1>22 DEF vars, coordinator
<1>. QED
  BY <1>1, <1>2, <1>3, <1>4, <1>5, <1>6, <1>7, <1>8, <1>9, <1>10, <1>11, <1>12, <1>13, <1>14, <1>15, <1>16, <1>17, <1>18, <1>19, <1>20, <1>21, <1>22, Zenon DEF Next, Productive

\* The inductive invariant holds throughout: type correctness, the permit
\* matching the state, the flags telling the answer.
THEOREM Invariance == Spec => []IInv
<1>1. Init => IInv
  BY Zenon DEF Init, CoordinatorInit, IInv, TypeOK, CoordinatorTypeOK, PermitMatchesState,
         FlagsTellTheAnswer, PlaceOfState, Permits, OperationStates, Bounded, PCs
<1>. QED
  BY <1>1, IInvStep, PTL DEF Spec

\* The outcome that claim_terminal() lets win is the one the user was told of.
THEOREM OutcomeTheorem == Spec => []OutcomeAgreesWithAnswer
<1>1. IInv => OutcomeAgreesWithAnswer
  BY Zenon DEF IInv, TypeOK, FlagsTellTheAnswer, PlaceOfState, OutcomeAgreesWithAnswer, Bounded, Permits
<1>. QED
  BY <1>1, Invariance, PTL

\* No permit is granted once Ctrl-C was answered with Cancel.
THEOREM PermitTheorem == Spec => NoPermitAfterCancel
<1>1. IInv /\ [Next]_vars => [(guard' # "none" /\ guard' # guard) => told # "Cancel"]_vars
  <2>. SUFFICES ASSUME IInv, Next, guard' # "none", guard' # guard
                PROVE told # "Cancel"
    BY Zenon
  <2>. USE DEF IInv, TypeOK, PermitMatchesState, PlaceOfState, FlagsTellTheAnswer, Permits,
               Bounded, local, claim_allowed, publication_allowed, Goto, Reclaim
  <2>1. CASE Interrupt \/ HandlerExit \/ Activate
    BY <2>1, Zenon DEF Interrupt, HandlerExit, Activate
  <2>2. CASE Productive
    BY <2>2, Zenon DEF Productive, ClaimCreation, CreateRun, CheckCreation, ClaimPublication,
                PublicationFails, CommitPublication, PublishRun, FinishPublication,
                StartSession, Claim, Release, EnsureAllowed, FlowFails,
                LinearizeProviderError, ClaimTerminal, PersistOutcome, Settle
  <2>. QED
    BY <2>1, <2>2, Zenon DEF Next
<1>. QED
  BY <1>1, Invariance, PTL DEF Spec, NoPermitAfterCancel

\* Execution starts only on a Run whose creation no Ctrl-C was answered in, and
\* every other end of a creation leaves no Run.
THEOREM CreationTheorem == Spec => CreationIsAllOrNothing
<1>. DEFINE AllOrNothing ==
       /\ Creating /\ pc' = "start" => told # "Cancel" /\ run' = "published"
       /\ Creating /\ pc' = "return" => run' = "none"
<1>1. IInv /\ [Next]_vars => [AllOrNothing]_vars
  <2>. SUFFICES ASSUME IInv, Next, Creating PROVE AllOrNothing
    BY Zenon DEF Creating
  <2>. USE DEF IInv, TypeOK, PermitMatchesState, PlaceOfState, FlagsTellTheAnswer, Permits,
               Bounded, Creating, local, claim_allowed, publication_allowed, Goto, Reclaim
  <2>1. CASE Interrupt \/ HandlerExit \/ Activate
    BY <2>1, Zenon DEF Interrupt, HandlerExit, Activate
  <2>2. CASE Productive
    BY <2>2, Zenon DEF Productive, ClaimCreation, CreateRun, CheckCreation, ClaimPublication,
                PublicationFails, CommitPublication, PublishRun, FinishPublication,
                StartSession, Claim, Release, EnsureAllowed, FlowFails,
                LinearizeProviderError, ClaimTerminal, PersistOutcome, Settle
  <2>. QED
    BY <2>1, <2>2, Zenon DEF Next
<1>. QED
  BY <1>1, Invariance, PTL DEF Spec, CreationIsAllOrNothing

\* Under the refinement mapping every step of the two threads is a step of
\* InterruptRace or leaves the user's view unchanged: one winner per
\* operation, and every Ctrl-C after the first one ends the process.
THEOREM RaceTheorem == Spec => ImplementsRace
<1>1. Init => Race!Init
  BY Zenon DEF Init, CoordinatorInit, Race!Init
<1>2. IInv /\ IInv' /\ [Next]_vars => [Race!Next]_(Race!vars)
  <2>. SUFFICES ASSUME IInv, IInv', [Next]_vars
                PROVE Race!Next \/ UNCHANGED Race!vars
    BY Zenon
  <2>. USE DEF IInv, TypeOK, CoordinatorTypeOK, PermitMatchesState, FlagsTellTheAnswer,
               PlaceOfState, Permits, OperationStates, Bounded, PCs, local, ghost,
               Race!vars
  <2>1. CASE Interrupt
    BY <2>1, Zenon DEF Interrupt, interrupt, interrupt_action, Race!Next, Race!FirstInterrupt,
                Race!LastInterrupt
  <2>2. CASE HandlerExit
    BY <2>2, Zenon DEF HandlerExit, coordinator, Race!Next, Race!Exit
  <2>3. CASE Activate
    BY <2>3, Zenon DEF Activate, begin, Race!Next, Race!Start
  <2>4. CASE LinearizeProviderError \/ ClaimTerminal
    BY <2>4, Zenon DEF LinearizeProviderError, ClaimTerminal, claim_terminal, Goto, Race!Next,
                Race!Complete
  <2>5. CASE Settle
    BY <2>5, Zenon DEF Settle, settle, Race!Next, Race!End
  <2>6. CASE ClaimCreation \/ ClaimPublication \/ Claim("Dispatching")
               \/ Claim("CommittingDurableState")
    BY <2>6 DEF ClaimCreation, ClaimPublication, Claim, claim_operation, claim_allowed, Goto,
                Reclaim
  <2>7. CASE CreateRun \/ PublicationFails \/ Release
    BY <2>7 DEF CreateRun, PublicationFails, Release, release_operation, Goto, Reclaim
  <2>8. CASE CommitPublication \/ FinishPublication
    BY <2>8, Zenon DEF CommitPublication, FinishPublication, publication_step, publication_allowed,
                Goto, Reclaim
  <2>9. CASE CheckCreation \/ PublishRun \/ StartSession \/ EnsureAllowed \/ FlowFails
               \/ PersistOutcome
    BY <2>9 DEF CheckCreation, PublishRun, StartSession, EnsureAllowed, FlowFails,
                PersistOutcome, Goto, Reclaim, coordinator
  <2>10. CASE UNCHANGED vars
    BY <2>10, Zenon DEF vars, coordinator
  <2>. QED
    BY <2>1, <2>2, <2>3, <2>4, <2>5, <2>6, <2>7, <2>8, <2>9, <2>10, Zenon DEF Next, Productive
<1>. QED
  BY <1>1, <1>2, Invariance, PTL DEF Spec, ImplementsRace, Race!Spec
=============================================================================

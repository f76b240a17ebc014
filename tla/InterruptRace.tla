---------------------------- MODULE InterruptRace ----------------------------
(***************************************************************************)
(* What Ctrl-C promises, without locks, permits or threads: completion and *)
(* cancellation of an operation race for one outcome, the first Ctrl-C     *)
(* either cancels or waits for a completion that already won, and any      *)
(* further one, or one while nothing runs, ends the program.               *)
(***************************************************************************)

VARIABLES
  phase,   \* the operation as the user sees it
  doomed,  \* a Ctrl-C has been answered with the program's end
  alive    \* the program runs

vars == <<phase, doomed, alive>>

Init == phase = "idle" /\ doomed = FALSE /\ alive = TRUE

Start ==
  /\ alive /\ phase = "idle"
  /\ phase' = "active" /\ UNCHANGED <<doomed, alive>>

\* The first Ctrl-C of an operation wins, or waits for the completion.
FirstInterrupt ==
  /\ alive
  /\ \/ phase = "active" /\ phase' = "cancelling"
     \/ phase = "completing" /\ phase' = "deferring"
  /\ UNCHANGED <<doomed, alive>>

\* Every other Ctrl-C ends the program.
LastInterrupt ==
  /\ alive /\ phase \in {"idle", "cancelling", "deferring"}
  /\ doomed' = TRUE /\ UNCHANGED <<phase, alive>>

Complete ==
  /\ alive /\ phase = "active"
  /\ phase' = "completing" /\ UNCHANGED <<doomed, alive>>

\* The operation ends; a deferred Ctrl-C then ends the program.
End ==
  /\ alive /\ phase # "idle"
  /\ phase' = "idle"
  /\ alive' = (phase # "deferring")
  /\ UNCHANGED doomed

Exit == alive /\ doomed /\ alive' = FALSE /\ UNCHANGED <<phase, doomed>>

Next == Start \/ FirstInterrupt \/ LastInterrupt \/ Complete \/ End \/ Exit

Spec == Init /\ [][Next]_vars
=============================================================================

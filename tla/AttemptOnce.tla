------------------------------ MODULE AttemptOnce ------------------------------
(***************************************************************************)
(* What the Run Log promises about attempts at provider and Tool calls: an *)
(* attempt is intended, at most once dispatched, and settled, in that      *)
(* order, and no attempt begins while the fate of another is unknown.      *)
(***************************************************************************)
CONSTANT Attempts

VARIABLE attempt   \* of each attempt, how far it came

Open == {"intended", "dispatched"}

Init == attempt = [a \in Attempts |-> "none"]

\* Append of the durable intent.
Intend(a) ==
  /\ attempt[a] = "none"
  /\ \A b \in Attempts : attempt[b] \notin Open
  /\ attempt' = [attempt EXCEPT ![a] = "intended"]

\* The call to the provider, or Start of the Tool.
Dispatch(a) ==
  /\ attempt[a] = "intended"
  /\ attempt' = [attempt EXCEPT ![a] = "dispatched"]

\* Append of the terminal result, also of an attempt that was cancelled,
\* rejected by preflight, or reconciled later.
Settle(a) ==
  /\ attempt[a] \in Open
  /\ attempt' = [attempt EXCEPT ![a] = "settled"]

Next == \E a \in Attempts : Intend(a) \/ Dispatch(a) \/ Settle(a)

Spec == Init /\ [][Next]_attempt
=============================================================================

----------------------- MODULE PresentationJobContract -----------------------
(***************************************************************************)
(* What Presentation Job V2 keeps towards the service that created a job:  *)
(* the outcome is decided once, the bill is closed once and not before the *)
(* outcome, and once it is closed neither changes.  ADR-009 ("Job and      *)
(* usage end independently") promises more, that a delivered job never     *)
(* fails; the tick breaks that in one way, and Revoke says how far it      *)
(* goes.                                                                   *)
(***************************************************************************)
CONSTANTS Jobs, Amounts

VARIABLES
  outcome,  \* what a job came to
  bill      \* the operations it is charged for: {} until known, then {n}

Init ==
  /\ outcome = [j \in Jobs |-> "pending"]
  /\ bill = [j \in Jobs |-> {}]

Decide(j) ==
  /\ outcome[j] = "pending"
  /\ \E o \in {"delivered", "failed"} : outcome' = [outcome EXCEPT ![j] = o]
  /\ \E b \in {{}} \cup {{n} : n \in Amounts} : bill' = [bill EXCEPT ![j] = b]

Close(j) ==
  /\ outcome[j] # "pending" /\ bill[j] = {}
  /\ \E n \in Amounts : bill' = [bill EXCEPT ![j] = {n}]
  /\ UNCHANGED outcome

\* A delivery is taken back, and not charged, while its bill is open.
Revoke(j) ==
  /\ outcome[j] = "delivered" /\ bill[j] = {}
  /\ outcome' = [outcome EXCEPT ![j] = "failed"]
  /\ bill' = [bill EXCEPT ![j] = {0}]

Next == \E j \in Jobs : Decide(j) \/ Close(j) \/ Revoke(j)

Spec == Init /\ [][Next]_<<outcome, bill>>

=============================================================================

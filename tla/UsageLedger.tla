---------------------------- MODULE UsageLedger ----------------------------
(***************************************************************************)
(* What the host promises to hold for one Run of the protocol              *)
(* FRAMEFLOW_USAGE_V2, whatever is lost between it and the Agent: events   *)
(* in the order of their sequence, each operation observed before it is    *)
(* resolved, and a bill that closes over a complete ledger.                *)
(***************************************************************************)
EXTENDS Naturals, Sequences

CONSTANT Operations  \* the provider operations of the Run

VARIABLES
  ledger,  \* the usage events the host took, in the order it took them
  billed,  \* the operations whose charge the ledger decides
  closed   \* the Run has its final bill

vars == <<ledger, billed, closed>>

Observed == {ledger[i].page : i \in {j \in 1..Len(ledger) : ledger[j].kind = "OBSERVED"}}

Init == ledger = <<>> /\ billed = {} /\ closed = FALSE

Take(operation, kind) ==
  ledger' = Append(ledger, [seq |-> Len(ledger) + 1, page |-> operation, kind |-> kind])

\* An operation is observed once, with its charge when it is already known.
Observe(operation) ==
  /\ ~closed /\ operation \notin Observed
  /\ Take(operation, "OBSERVED")
  /\ billed' \in {billed, billed \cup {operation}}
  /\ UNCHANGED closed

Resolve(operation) ==
  /\ ~closed /\ operation \in Observed \ billed
  /\ Take(operation, "RESOLVED")
  /\ billed' = billed \cup {operation}
  /\ UNCHANGED closed

Close ==
  /\ ~closed /\ billed = Observed
  /\ closed' = TRUE /\ UNCHANGED <<ledger, billed>>

Next == Close \/ \E operation \in Operations : Observe(operation) \/ Resolve(operation)

Spec == Init /\ [][Next]_vars
=============================================================================

----------------------------- MODULE LeaseGrants -----------------------------
(***************************************************************************)
(* What a lease of a Run promises (the contract of src/src/core/lease.ts): *)
(* at most one client owns it at a time, a client becomes the owner only   *)
(* when nobody is, and every grant opens a new epoch.                      *)
(***************************************************************************)
EXTENDS Naturals

CONSTANT Clients

VARIABLES
  owners, \* the clients entitled to work
  epoch   \* the number of grants so far

Init == owners = {} /\ epoch = 0

\* acquireRunLease, acquireMediaReconciliationLease
GrantTo(c) ==
  /\ owners = {}
  /\ owners' = {c}
  /\ epoch' = epoch + 1

\* releaseRunLease, the expiry of leaseUntil, or the death of the owner
End ==
  /\ owners # {}
  /\ owners' = {}
  /\ UNCHANGED epoch

Next == (\E c \in Clients : GrantTo(c)) \/ End

Spec == Init /\ [][Next]_<<owners, epoch>>
=============================================================================

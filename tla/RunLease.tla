------------------------------ MODULE RunLease ------------------------------
(***************************************************************************)
(* The lease that lets one worker at a time advance a Run                  *)
(* (src/src/core/lease.ts), and the worker tick that lists runs, takes the *)
(* lease, renews it from a timer while the operation runs, and gives it    *)
(* back (src/src/runtime/mock-runtime.ts).                                 *)
(*                                                                         *)
(* One Run is modelled: the lease of a Run lives in its own row and no     *)
(* operation reads the lease of another.  A worker is a process running    *)
(* the tick loop.  Every repository transaction is one step.               *)
(*                                                                         *)
(* Time is relative: leaseLeft is leaseUntil - now and is 0 once the lease *)
(* has expired; sinceRenew[w] is the time since the worker's renewal timer *)
(* was armed.  All processes read the same clock.                          *)
(***************************************************************************)
EXTENDS Naturals

CONSTANTS
  Workers,         \* the worker processes
  Punctual,        \* the ones whose renewal callback is never late
  Mortal,          \* the ones that may die in the middle of a tick
  TTL,             \* runLeaseTtlMs
  RenewEvery,      \* the interval of the renewal timer, a third of the TTL
  MaxDelay,        \* how late the callback of a punctual worker may run
  MaxVersion       \* bound: acquisitions of the lease

ASSUME LeaseAssumption ==
  /\ Punctual \subseteq Workers /\ Mortal \subseteq Workers
  /\ TTL \in Nat /\ RenewEvery \in Nat /\ MaxDelay \in Nat /\ MaxVersion \in Nat
  /\ RenewEvery > 0
  /\ RenewEvery + MaxDelay < TTL

NoToken == 0
Tokens == 1..MaxVersion

\* What lease.ts distinguishes of the thirteen Run statuses: the seven
\* RUNNABLE_STATES, the statuses that wait for a person, the terminal ones.
StatusClasses == {"RUNNABLE", "WAITING", "TERMINAL"}

VARIABLES
  run,       \* the stored row: status class, pending media, lease columns
  leaseLeft, \* leaseUntil - now, 0 when leaseUntil is null or has passed
  nextToken, \* randomUUID(): a token is never handed out twice
  phase,     \* where each worker is in its tick
  lease,     \* the RunLease each worker holds (currentLease)
  sinceRenew,\* time since the worker's renewal timer last fired
  renewalFailed

row == <<run, leaseLeft, nextToken>>
timers == <<sinceRenew, renewalFailed>>
vars == <<row, phase, lease, timers>>

RunRow == [status: StatusClasses, pending: BOOLEAN,
           leaseToken: Tokens \cup {NoToken}, leaseVersion: 0..MaxVersion]

RunLeases == [token: Tokens \cup {NoToken}, version: 0..MaxVersion]

NoLease == [token |-> NoToken, version |-> 0]

Phases == {"idle", "listedRun", "listedPending", "operating"}

TypeOK ==
  /\ run \in RunRow
  /\ leaseLeft \in 0..TTL
  /\ nextToken \in 1..(MaxVersion + 1)
  /\ phase \in [Workers -> Phases]
  /\ lease \in [Workers -> RunLeases]
  /\ sinceRenew \in [Workers -> 0..TTL]
  /\ renewalFailed \in [Workers -> BOOLEAN]

-----------------------------------------------------------------------------
LeaseActive == run.leaseToken # NoToken /\ leaseLeft > 0

\* The comparison renewRunLease and releaseRunLease make with the stored row.
HoldsLease(w) ==
  /\ run.leaseToken = lease[w].token
  /\ run.leaseVersion = lease[w].version

Operating(w) == phase[w] = "operating"

\* A worker that holds the lease the row records, before it runs out.
InForce(w) == Operating(w) /\ HoldsLease(w) /\ LeaseActive

Init ==
  /\ run \in [status: StatusClasses, pending: BOOLEAN,
              leaseToken: {NoToken}, leaseVersion: {0}]
  /\ leaseLeft = 0
  /\ nextToken = 1
  /\ phase = [w \in Workers |-> "idle"]
  /\ lease = [w \in Workers |-> NoLease]
  /\ sinceRenew = [w \in Workers |-> 0]
  /\ renewalFailed = [w \in Workers |-> FALSE]

-----------------------------------------------------------------------------
(* The tick of one worker. *)

\* The tick of the worker is over, whatever became of it.
EndTick(w) ==
  /\ phase' = [phase EXCEPT ![w] = "idle"]
  /\ lease' = [lease EXCEPT ![w] = NoLease]
  /\ sinceRenew' = [sinceRenew EXCEPT ![w] = 0]
  /\ renewalFailed' = [renewalFailed EXCEPT ![w] = FALSE]

\* Variant: a listing that skips every run with a lease, expired or not.
ListUnleased(w) ==
  /\ phase[w] = "idle"
  /\ run.status = "RUNNABLE"
  /\ run.leaseToken = NoToken
  /\ phase' = [phase EXCEPT ![w] = "listedRun"]
  /\ UNCHANGED <<row, lease, timers>>

\* listRunnableRuns: a runnable status and no lease in the future.
ListRunnable(w) ==
  /\ phase[w] = "idle"
  /\ run.status = "RUNNABLE"
  /\ leaseLeft = 0
  /\ phase' = [phase EXCEPT ![w] = "listedRun"]
  /\ UNCHANGED <<row, lease, timers>>

\* listRunsWithPendingMedia looks at the steps only, whatever the lease; the
\* tick then drops the runs it listed as runnable.
ListPending(w) ==
  /\ phase[w] = "idle"
  /\ run.pending
  /\ ~(run.status = "RUNNABLE" /\ leaseLeft = 0)
  /\ phase' = [phase EXCEPT ![w] = "listedPending"]
  /\ UNCHANGED <<row, lease, timers>>

\* The lease a successful acquisition stores and hands to the worker.
Grant(w) ==
  /\ run' = [run EXCEPT !.leaseToken = nextToken, !.leaseVersion = @ + 1]
  /\ leaseLeft' = TTL
  /\ nextToken' = nextToken + 1
  /\ phase' = [phase EXCEPT ![w] = "operating"]
  /\ lease' = [lease EXCEPT ![w] = [token |-> nextToken, version |-> run.leaseVersion + 1]]
  /\ UNCHANGED timers

\* Variants of the two guards below that forget the active lease.
RunLeaseFreeUnchecked == run.status = "RUNNABLE"
PendingLeaseFreeUnchecked == run.pending

\* The guard of acquireRunLease: a runnable Run, and no active lease of
\* another token.
RunLeaseFree == run.status = "RUNNABLE" /\ ~(LeaseActive /\ run.leaseToken # nextToken)

\* The guard of acquireMediaReconciliationLease: any status.
PendingLeaseFree == run.pending /\ ~LeaseActive

AcquireRunLease(w) ==
  /\ phase[w] = "listedRun"
  /\ RunLeaseFree
  /\ run.leaseVersion < MaxVersion
  /\ Grant(w)

AcquireMediaReconciliationLease(w) ==
  /\ phase[w] = "listedPending"
  /\ PendingLeaseFree
  /\ run.leaseVersion < MaxVersion
  /\ Grant(w)

\* The acquisition returns null: the candidate was listed from an older state.
AcquireReturnsNull(w) ==
  /\ \/ phase[w] = "listedRun" /\ ~RunLeaseFree
     \/ phase[w] = "listedPending" /\ ~PendingLeaseFree
  /\ EndTick(w)
  /\ UNCHANGED row

RenewalDue(w) == Operating(w) /\ sinceRenew[w] >= RenewEvery /\ ~renewalFailed[w]

\* The timer callback of withRenewedLease.  A renewal that fails is recorded,
\* stops the timer for good and leaves the operation running.
Renew(w) ==
  /\ RenewalDue(w)
  /\ \/ /\ HoldsLease(w) /\ LeaseActive
        /\ leaseLeft' = TTL
        /\ sinceRenew' = [sinceRenew EXCEPT ![w] = 0]
        /\ UNCHANGED renewalFailed
     \/ /\ ~(HoldsLease(w) /\ LeaseActive)
        /\ renewalFailed' = [renewalFailed EXCEPT ![w] = TRUE]
        /\ UNCHANGED <<leaseLeft, sinceRenew>>
  /\ UNCHANGED <<run, nextToken, phase, lease>>

\* Variant: a release that does not compare the lease with the row.
ReleaseUnchecked(w) ==
  /\ Operating(w)
  /\ run' = [run EXCEPT !.leaseToken = NoToken]
  /\ leaseLeft' = 0
  /\ EndTick(w)
  /\ UNCHANGED nextToken

\* The operation returns or throws.  releaseRunLease clears the columns when
\* they still name this lease, expired or not, and throws otherwise.
Release(w) ==
  /\ Operating(w)
  /\ \/ HoldsLease(w) /\ run' = [run EXCEPT !.leaseToken = NoToken] /\ leaseLeft' = 0
     \/ ~HoldsLease(w) /\ UNCHANGED <<run, leaseLeft>>
  /\ EndTick(w)
  /\ UNCHANGED nextToken

\* The process dies in the tick: the row keeps the lease until it expires.
Crash(w) ==
  /\ w \in Mortal
  /\ phase[w] # "idle"
  /\ EndTick(w)
  /\ UNCHANGED row

-----------------------------------------------------------------------------
\* Phases of the operation, user actions and administrator actions move the
\* Run and its media steps without looking at the lease.
RunChanges ==
  /\ \E s \in StatusClasses, p \in BOOLEAN :
       run' = [run EXCEPT !.status = s, !.pending = p]
  /\ UNCHANGED <<leaseLeft, nextToken, phase, lease, timers>>

Least(a, b) == IF a < b THEN a ELSE b

\* Variant: the remaining time of a lease keeps falling after its expiry.
RemainingUnclamped(left) == left - 1

\* isLeaseActive compares leaseUntil with the clock: once it has passed, how
\* long ago does not matter.
Remaining(left) == IF left = 0 THEN 0 ELSE left - 1

\* One unit of time.  The renewal timer of a punctual worker is served no
\* later than MaxDelay after it is due; the timer of another may be starved.
Elapse ==
  /\ \A w \in Punctual : Operating(w) => sinceRenew[w] < RenewEvery + MaxDelay
  /\ leaseLeft' = Remaining(leaseLeft)
  /\ sinceRenew' = [w \in Workers |->
       IF Operating(w) THEN Least(sinceRenew[w] + 1, TTL) ELSE sinceRenew[w]]
  /\ UNCHANGED <<run, nextToken, phase, lease, renewalFailed>>

Next ==
  \/ \E w \in Workers :
       \/ ListRunnable(w) \/ ListPending(w)
       \/ AcquireRunLease(w) \/ AcquireMediaReconciliationLease(w) \/ AcquireReturnsNull(w)
       \/ Renew(w) \/ Release(w) \/ Crash(w)
  \/ RunChanges
  \/ Elapse

Spec == Init /\ [][Next]_vars

(***************************************************************************)
(* Time passes, the interval timer of every process keeps firing, and an   *)
(* operation ends because every call it makes has a timeout.  Nothing is   *)
(* assumed of users, crashes, or the renewal of a starved timer.           *)
(***************************************************************************)
Fairness ==
  /\ WF_vars(Elapse)
  /\ \A w \in Workers :
       /\ WF_vars(ListRunnable(w))
       /\ WF_vars(AcquireRunLease(w) \/ AcquireMediaReconciliationLease(w) \/ AcquireReturnsNull(w))
       /\ WF_vars(Release(w))
  /\ \A w \in Punctual : WF_vars(Renew(w))

FairSpec == Spec /\ Fairness

-----------------------------------------------------------------------------
(* Safety. *)

\* A worker whose renewals are served in time holds the lease the row records
\* for as long as its operation runs: no expiry, no other worker's acquisition
\* or release and no change of the Run takes it away (withRenewedLease renews
\* at a third of the TTL and trusts that this is enough).
PunctualHoldsLease == \A w \in Punctual : Operating(w) => InForce(w)

\* Beside a punctual operation there is at most a starved one, which works on
\* under an older version of the lease: two punctual workers never advance the
\* Run together.
OneOperator ==
  \A w \in Punctual, v \in Workers :
    Operating(w) /\ Operating(v) /\ v # w =>
      /\ v \notin Punctual
      /\ lease[v].version < lease[w].version

\* Both: while a punctual worker operates the row is its own, and so is the Run.
\* (withRenewedLease, acquireRunLease)
LeaseExcludes == PunctualHoldsLease /\ OneOperator

\* An active lease leaves the row in one way only: the worker it was granted
\* to ends its own operation.  A late worker's release, and an acquisition
\* decided on an older listing, never remove the lease of another.
LeaseNeverStolen ==
  [][LeaseActive /\ run'.leaseToken # run.leaseToken =>
       /\ run'.leaseToken = NoToken
       /\ \E w \in Workers : InForce(w) /\ phase'[w] = "idle"]_vars

\* What the row promises to the rest of the system, stated on its own.
Grants == INSTANCE LeaseGrants WITH
  Clients <- Workers,
  owners <- {w \in Workers : InForce(w)},
  epoch <- run.leaseVersion

\* The lease protocol implements serialized grants: an owner is replaced only
\* after its lease ended, and every grant has an epoch of its own.
GrantsAreSerialized == Grants!Spec

(* Liveness. *)

AbandonedAt(v) ==
  /\ run.leaseVersion = v
  /\ run.leaseToken # NoToken
  /\ ~\E w \in Workers : Operating(w) /\ HoldsLease(w)

\* A Run left behind by a dead worker is taken up again by a living one once
\* the lease has expired, unless the Run stops being runnable first.  MaxVersion
\* bounds the grants of the model, so it is left out of the obligation.
AbandonedRunIsRetaken ==
  \A v \in 1..(MaxVersion - 1) :
    AbandonedAt(v) ~> (run.leaseVersion > v \/ run.status # "RUNNABLE")

=============================================================================

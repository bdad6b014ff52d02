------------------------ MODULE LeaseAndStream_proofs ------------------------
(***************************************************************************)
(* Proofs about the two small protocols around a Run: the lease that lets  *)
(* one worker advance it (RunLease), and the stream that tells its clients *)
(* what happened to it (EventStream).  Neither uses the other.             *)
(*                                                                         *)
(* RunLease, for every set of workers, every TTL, renewal interval and     *)
(* delay that LeaseAssumption allows.  Mutual exclusion is not inductive:  *)
(* it rests on the arithmetic of the renewal timer (TimerInForce) and on   *)
(* every grant having a token and a version of its own (GrantsNumbered,    *)
(* LeasesDistinct).                                                        *)
(*                                                                         *)
(* EventStream, for every set of clients, every page size and every length *)
(* of the log: what a client reads is the log in order, up to its end      *)
(* (ReadsInOrder).  The cursor of the channel is shared and says little of *)
(* one client.  The invariant relates three positions of it (Contiguous):  *)
(* what it has read, what its connection holds, which goes on from there   *)
(* without a gap, and the cursor of its subscriber, which is never behind  *)
(* the channel.  It needs clients that claim no more than they have read.  *)
(***************************************************************************)
EXTENDS RunLease, EventStream, TLAPS

-----------------------------------------------------------------------------
(* RunLease: the lease of a Run. *)

\* The n-th grant has token n and version n, and the row names no other.
GrantsNumbered ==
  /\ nextToken = run.leaseVersion + 1
  /\ run.leaseToken \in {NoToken, run.leaseVersion}
  /\ \A w \in Workers : Operating(w) =>
       /\ lease[w].token = lease[w].version
       /\ lease[w].version \in 1..run.leaseVersion

\* No two operations run under the same grant.
LeasesDistinct ==
  \A w, v \in Workers :
    Operating(w) /\ Operating(v) /\ w # v => lease[w].version # lease[v].version

\* A punctual operation is the one the row names, and what is left of its
\* lease is the TTL less the time since the last renewal.
TimerInForce ==
  \A w \in Punctual : Operating(w) =>
    /\ HoldsLease(w)
    /\ sinceRenew[w] + leaseLeft = TTL
    /\ sinceRenew[w] <= RenewEvery + MaxDelay

\* The timer is armed by the grant, not before.
TimerAtRest == \A w \in Workers : ~Operating(w) => sinceRenew[w] = 0

IInv == TypeOK /\ GrantsNumbered /\ LeasesDistinct /\ TimerInForce /\ TimerAtRest

USE DEF NoToken, Operating

-----------------------------------------------------------------------------
\* The lease is active while a punctual operation runs, so that no guard of an
\* acquisition can hold.
LEMMA PunctualInForce ==
  ASSUME IInv, NEW w \in Punctual, Operating(w)
  PROVE  InForce(w)
<1>1. w \in Workers
  BY LeaseAssumption
<1>2. run.leaseToken # NoToken
  BY <1>1 DEF IInv, TypeOK, RunLeases, GrantsNumbered, TimerInForce, HoldsLease
<1>3. leaseLeft > 0
  BY <1>1, LeaseAssumption DEF IInv, TypeOK, TimerInForce
<1>. QED BY <1>2, <1>3 DEF LeaseActive, InForce, IInv, TimerInForce

\* Two operations in force are the same.
LEMMA InForceUnique ==
  ASSUME IInv, NEW w \in Workers, NEW v \in Workers,
         Operating(w), HoldsLease(w), Operating(v), HoldsLease(v)
  PROVE  w = v
BY DEF IInv, LeasesDistinct, HoldsLease

\* Both acquisitions find no active lease: a fresh token is never the stored one.
LEMMA AcquireFindsNoLease ==
  ASSUME IInv, NEW w \in Workers,
         AcquireRunLease(w) \/ AcquireMediaReconciliationLease(w)
  PROVE  /\ ~LeaseActive
         /\ Grant(w)
         /\ run.leaseVersion < MaxVersion
         /\ phase[w] \in {"listedRun", "listedPending"}
<1>1. run.leaseToken # nextToken
  BY DEF IInv, TypeOK, RunRow, GrantsNumbered
<1>. QED
  BY <1>1 DEF AcquireRunLease, AcquireMediaReconciliationLease, RunLeaseFree, PendingLeaseFree

LEMMA InitIInv == Init => IInv
BY LeaseAssumption
   DEF Init, IInv, TypeOK, GrantsNumbered, LeasesDistinct, TimerInForce, TimerAtRest,
       RunRow, RunLeases, NoLease, Tokens, Phases

\* A grant starts the only operation under its number.
LEMMA GrantStep ==
  ASSUME IInv, NEW w \in Workers, Grant(w), ~LeaseActive, run.leaseVersion < MaxVersion,
         phase[w] \in {"listedRun", "listedPending"}
  PROVE  IInv'
<1>. USE LeaseAssumption DEF IInv, Grant, timers
<1>1. nextToken \in Tokens /\ run.leaseVersion + 1 \in 0..MaxVersion
  BY DEF TypeOK, RunRow, GrantsNumbered, Tokens
<1>2. /\ run'.leaseToken = nextToken
      /\ run'.leaseVersion = run.leaseVersion + 1
  BY DEF TypeOK, RunRow
<1>3. TypeOK'
  <2>1. run' \in RunRow
    BY <1>1 DEF TypeOK, RunRow
  <2>2. leaseLeft' \in 0..TTL /\ nextToken' \in 1..(MaxVersion + 1)
    BY <1>1 DEF Tokens
  <2>3. lease' \in [Workers -> RunLeases]
    <3>1. [token |-> nextToken, version |-> run.leaseVersion + 1] \in RunLeases
      BY <1>1 DEF RunLeases
    <3>. QED BY <3>1 DEF TypeOK
  <2>4. phase' \in [Workers -> Phases]
    BY DEF TypeOK, Phases
  <2>. QED BY <2>1, <2>2, <2>3, <2>4 DEF TypeOK
<1>4. GrantsNumbered'
  BY <1>1, <1>2 DEF TypeOK, RunRow, RunLeases, GrantsNumbered
<1>5. LeasesDistinct'
  BY <1>1 DEF TypeOK, RunRow, RunLeases, GrantsNumbered, LeasesDistinct
<1>6. TimerInForce'
  <2>1. \A v \in Punctual : ~Operating(v)
    BY PunctualInForce DEF InForce
  <2>. QED BY <1>2, <2>1 DEF TypeOK, TimerInForce, TimerAtRest, HoldsLease
<1>7. TimerAtRest'
  BY DEF TypeOK, TimerAtRest
<1>. QED BY <1>3, <1>4, <1>5, <1>6, <1>7

LEMMA ReleaseStep ==
  ASSUME IInv, NEW w \in Workers, Release(w)
  PROVE  IInv'
<1>. USE LeaseAssumption DEF IInv, Release, EndTick
<1>1. TypeOK'
  BY DEF TypeOK, RunRow, RunLeases, NoLease, Phases
<1>2. GrantsNumbered'
  BY DEF TypeOK, RunRow, GrantsNumbered
<1>3. LeasesDistinct'
  BY DEF TypeOK, LeasesDistinct
<1>4. TimerInForce'
  <2>. SUFFICES ASSUME NEW v \in Punctual, Operating(v)'
       PROVE  /\ HoldsLease(v)'
              /\ (sinceRenew[v] + leaseLeft = TTL)'
              /\ (sinceRenew[v] <= RenewEvery + MaxDelay)'
    BY DEF TimerInForce
  <2>1. v # w /\ v \in Workers /\ Operating(v)
    BY DEF TypeOK
  <2>2. ~HoldsLease(w)
    BY <2>1, InForceUnique DEF TimerInForce
  <2>. QED BY <2>1, <2>2 DEF TypeOK, TimerInForce, HoldsLease
<1>5. TimerAtRest'
  BY DEF TypeOK, TimerAtRest
<1>. QED BY <1>1, <1>2, <1>3, <1>4, <1>5

LEMMA RenewStep ==
  ASSUME IInv, NEW w \in Workers, Renew(w)
  PROVE  IInv'
<1>. USE LeaseAssumption DEF IInv, Renew, RenewalDue
<1>1. TypeOK'
  <2>1. leaseLeft' \in 0..TTL /\ sinceRenew' \in [Workers -> 0..TTL]
    <3>1. 0 \in 0..TTL /\ TTL \in 0..TTL
      OBVIOUS
    <3>. QED BY <3>1 DEF TypeOK
  <2>2. renewalFailed' \in [Workers -> BOOLEAN]
    BY Zenon DEF TypeOK
  <2>. QED BY <2>1, <2>2 DEF TypeOK
<1>2. GrantsNumbered' /\ LeasesDistinct'
  BY DEF GrantsNumbered, LeasesDistinct
<1>3. TimerInForce'
  <2>. SUFFICES ASSUME NEW v \in Punctual, Operating(v)
       PROVE  /\ HoldsLease(v)'
              /\ (sinceRenew[v] + leaseLeft = TTL)'
              /\ (sinceRenew[v] <= RenewEvery + MaxDelay)'
    BY DEF TimerInForce
  <2>1. CASE HoldsLease(w) /\ LeaseActive
    <3>1. v = w
      BY <2>1, InForceUnique DEF TimerInForce
    <3>. QED BY <2>1, <3>1 DEF TypeOK, TimerInForce, HoldsLease
  <2>2. CASE ~(HoldsLease(w) /\ LeaseActive)
    BY <2>2 DEF TypeOK, TimerInForce, HoldsLease
  <2>. QED BY <2>1, <2>2
<1>4. TimerAtRest'
  BY DEF TypeOK, TimerAtRest
<1>. QED BY <1>1, <1>2, <1>3, <1>4

\* Time spends a lease and ages its renewal timer at the same rate.
LEMMA ElapseStep ==
  ASSUME IInv, Elapse
  PROVE  IInv'
<1>. USE LeaseAssumption DEF IInv, Elapse
<1>1. TypeOK'
  BY DEF TypeOK, Remaining, Least
<1>2. GrantsNumbered' /\ LeasesDistinct'
  BY DEF GrantsNumbered, LeasesDistinct
<1>3. TimerInForce'
  <2>. SUFFICES ASSUME NEW w \in Punctual, Operating(w)
       PROVE  /\ HoldsLease(w)'
              /\ (sinceRenew[w] + leaseLeft = TTL)'
              /\ (sinceRenew[w] <= RenewEvery + MaxDelay)'
    BY DEF TimerInForce
  <2>1. leaseLeft > 0
    BY PunctualInForce DEF InForce, LeaseActive
  <2>2. sinceRenew'[w] = sinceRenew[w] + 1 /\ leaseLeft' = leaseLeft - 1
    BY <2>1 DEF TypeOK, TimerInForce, Remaining, Least
  <2>. QED BY <2>1, <2>2 DEF TypeOK, TimerInForce, HoldsLease
<1>4. TimerAtRest'
  BY DEF TypeOK, TimerAtRest
<1>. QED BY <1>1, <1>2, <1>3, <1>4

\* The steps that touch no lease and start no operation.
LEMMA QuietStep ==
  ASSUME IInv,
         \/ \E w \in Workers : ListRunnable(w) \/ ListPending(w) \/ AcquireReturnsNull(w) \/ Crash(w)
         \/ RunChanges
         \/ UNCHANGED vars
  PROVE  IInv'
<1>. USE LeaseAssumption DEF IInv
<1>. DEFINE LeasesKept ==
       /\ UNCHANGED <<leaseLeft, nextToken, run.leaseToken, run.leaseVersion>>
       /\ \A w \in Workers :
            /\ Operating(w)' => Operating(w) /\ UNCHANGED <<lease[w], sinceRenew[w]>>
            /\ ~Operating(w)' => sinceRenew'[w] = 0
<1>1. TypeOK' /\ LeasesKept
  <2>1. ASSUME NEW w \in Workers, ListRunnable(w) \/ ListPending(w)
        PROVE  TypeOK' /\ LeasesKept
    BY <2>1 DEF ListRunnable, ListPending, row, timers, TypeOK, Phases, TimerAtRest
  <2>2. ASSUME NEW w \in Workers, AcquireReturnsNull(w) \/ Crash(w)
        PROVE  TypeOK' /\ LeasesKept
    <3>1. EndTick(w) /\ UNCHANGED row
      BY <2>2 DEF AcquireReturnsNull, Crash
    <3>2. NoLease \in RunLeases /\ 0 \in 0..TTL
      BY DEF NoLease, RunLeases
    <3>3. renewalFailed' \in [Workers -> BOOLEAN]
      BY <3>1, Zenon DEF TypeOK, EndTick
    <3>4. /\ phase' \in [Workers -> Phases]
          /\ lease' \in [Workers -> RunLeases]
          /\ sinceRenew' \in [Workers -> 0..TTL]
      BY <3>1, <3>2 DEF TypeOK, EndTick, Phases
    <3>5. TypeOK'
      BY <3>1, <3>3, <3>4 DEF TypeOK, row
    <3>6. LeasesKept
      BY <3>1 DEF TypeOK, EndTick, row, TimerAtRest
    <3>. QED BY <3>5, <3>6
  <2>3. CASE RunChanges
    BY <2>3 DEF RunChanges, timers, TypeOK, RunRow, TimerAtRest
  <2>4. CASE UNCHANGED vars
    BY <2>4 DEF vars, row, timers, TypeOK, TimerAtRest
  <2>. QED BY <2>1, <2>2, <2>3, <2>4
<1>2. GrantsNumbered' /\ LeasesDistinct'
  BY <1>1 DEF GrantsNumbered, LeasesDistinct
<1>3. TimerInForce' /\ TimerAtRest'
  BY <1>1 DEF TimerInForce, TimerAtRest, HoldsLease
<1>. QED BY <1>1, <1>2, <1>3

LEMMA NextIInv == IInv /\ [Next]_vars => IInv'
<1>. SUFFICES ASSUME IInv, [Next]_vars PROVE IInv'
  OBVIOUS
<1>1. ASSUME NEW w \in Workers, AcquireRunLease(w) \/ AcquireMediaReconciliationLease(w)
      PROVE  IInv'
  BY <1>1, AcquireFindsNoLease, GrantStep
<1>2. ASSUME NEW w \in Workers, Renew(w) PROVE IInv'
  BY <1>2, RenewStep
<1>3. ASSUME NEW w \in Workers, Release(w) PROVE IInv'
  BY <1>3, ReleaseStep
<1>4. CASE Elapse
  BY <1>4, ElapseStep
<1>. QED BY <1>1, <1>2, <1>3, <1>4, QuietStep DEF Next

LEMMA Invariance == Spec => []IInv
BY InitIInv, NextIInv, PTL DEF Spec

-----------------------------------------------------------------------------
\* The row, the workers and the lease they hold keep their types.
THEOREM TypeCorrect == Spec => []TypeOK
<1>1. IInv => TypeOK
  BY DEF IInv
<1>. QED BY <1>1, Invariance, PTL

\* However many workers there are and whenever they list, acquire, renew,
\* release or die, one whose renewals are served in time works under a lease
\* that is in force.
THEOREM PunctualHolds == Spec => []PunctualHoldsLease
<1>1. IInv => PunctualHoldsLease
  BY PunctualInForce DEF PunctualHoldsLease
<1>. QED BY <1>1, Invariance, PTL

\* Mutual exclusion of punctual operations, and the age of a starved one.
THEOREM Exclusion == Spec => []OneOperator
<1>1. ASSUME IInv PROVE OneOperator
  <2>. SUFFICES ASSUME NEW w \in Punctual, NEW v \in Workers,
                       Operating(w), Operating(v), v # w
       PROVE  v \notin Punctual /\ lease[v].version < lease[w].version
    BY DEF OneOperator
  <2>1. w \in Workers /\ HoldsLease(w)
    BY <1>1, LeaseAssumption DEF IInv, TimerInForce
  <2>2. ~HoldsLease(v)
    BY <1>1, <2>1, InForceUnique
  <2>3. lease[v].version \in 1..run.leaseVersion /\ lease[v].version # lease[w].version
    BY <1>1, <2>1 DEF IInv, GrantsNumbered, LeasesDistinct
  <2>. QED
    BY <1>1, <2>1, <2>2, <2>3 DEF IInv, TypeOK, RunRow, TimerInForce, HoldsLease
<1>. QED BY <1>1, Invariance, PTL

\* Both at once, which is what the lease is for.
THEOREM LeaseExclusion == Spec => []LeaseExcludes
<1>1. PunctualHoldsLease /\ OneOperator => LeaseExcludes
  BY DEF LeaseExcludes
<1>. QED BY <1>1, PunctualHolds, Exclusion, PTL

-----------------------------------------------------------------------------
\* An active lease is removed by the end of its owner's operation only.
THEOREM NeverStolen == Spec => LeaseNeverStolen
<1>1. ASSUME IInv, [Next]_vars, LeaseActive, run'.leaseToken # run.leaseToken
      PROVE  /\ run'.leaseToken = NoToken
             /\ \E w \in Workers : InForce(w) /\ phase'[w] = "idle"
  <2>1. ASSUME NEW w \in Workers, AcquireRunLease(w) \/ AcquireMediaReconciliationLease(w)
        PROVE  FALSE
    BY <1>1, <2>1, AcquireFindsNoLease
  <2>2. ASSUME NEW w \in Workers, Release(w)
        PROVE  run'.leaseToken = NoToken /\ InForce(w) /\ phase'[w] = "idle"
    BY <1>1, <2>2 DEF Release, EndTick, InForce, IInv, TypeOK, RunRow
  <2>3. ASSUME NEW w \in Workers,
               ListRunnable(w) \/ ListPending(w) \/ AcquireReturnsNull(w) \/ Renew(w) \/ Crash(w)
        PROVE  FALSE
    BY <1>1, <2>3 DEF ListRunnable, ListPending, AcquireReturnsNull, Renew, Crash, row
  <2>4. ~(RunChanges \/ Elapse \/ UNCHANGED vars)
    BY <1>1 DEF RunChanges, Elapse, vars, row, IInv, TypeOK, RunRow
  <2>. QED BY <1>1, <2>1, <2>2, <2>3, <2>4 DEF Next
<1>2. IInv /\ [Next]_vars =>
        [LeaseActive /\ run'.leaseToken # run.leaseToken =>
           /\ run'.leaseToken = NoToken
           /\ \E w \in Workers : InForce(w) /\ phase'[w] = "idle"]_vars
  BY <1>1
<1>. QED BY <1>2, Invariance, PTL DEF Spec, LeaseNeverStolen

-----------------------------------------------------------------------------
Owners == {w \in Workers : InForce(w)}

\* At most one worker is in force, and nobody when the lease is not active.
LEMMA OwnersAtMostOne ==
  ASSUME IInv
  PROVE  /\ \A w \in Owners : Owners = {w}
         /\ ~LeaseActive => Owners = {}
BY InForceUnique DEF Owners, InForce

\* A grant finds no owner and makes one.
LEMMA GrantRefines ==
  ASSUME IInv, IInv', NEW w \in Workers, Grant(w), ~LeaseActive
  PROVE  Grants!GrantTo(w)
<1>1. Owners = {}
  BY OwnersAtMostOne
<1>2. run'.leaseVersion = run.leaseVersion + 1 /\ run'.leaseToken = nextToken
  BY DEF Grant, IInv, TypeOK, RunRow
<1>3. nextToken # 0 /\ leaseLeft' > 0 /\ nextToken = run.leaseVersion + 1
  BY LeaseAssumption DEF Grant, IInv, TypeOK, GrantsNumbered
<1>4. InForce(w)'
  <2>1. phase'[w] = "operating" /\ lease'[w] = [token |-> nextToken, version |-> run.leaseVersion + 1]
    BY DEF Grant, IInv, TypeOK
  <2>. QED BY <1>2, <1>3, <2>1 DEF InForce, HoldsLease, LeaseActive
<1>5. Owners' = {w}
  <2>1. w \in Owners'
    BY <1>4 DEF Owners
  <2>2. ASSUME NEW v \in Workers, InForce(v)'
        PROVE  v = w
    BY <1>4, <2>2 DEF IInv, LeasesDistinct, InForce, HoldsLease
  <2>. QED BY <2>1, <2>2 DEF Owners
<1>. QED BY <1>1, <1>2, <1>5 DEF Grants!GrantTo, Owners

\* The owner leaves, or nothing changes, whenever no lease is granted and the
\* steps of others do not touch the lease of a worker in force.
LEMMA EndRefines ==
  ASSUME IInv, Owners' \in {Owners, {}}, UNCHANGED run.leaseVersion
  PROVE  Grants!End \/ UNCHANGED <<Owners, run.leaseVersion>>
BY DEF Grants!End, Owners

\* The lease protocol implements grants that are serialized and numbered.
THEOREM Serialization == Spec => GrantsAreSerialized
<1>1. Init => Grants!Init
  BY DEF Init, Grants!Init, InForce
<1>2. ASSUME IInv, IInv', [Next]_vars
      PROVE  [Grants!Next]_<<Owners, run.leaseVersion>>
  <2>1. ASSUME NEW w \in Workers, AcquireRunLease(w) \/ AcquireMediaReconciliationLease(w)
        PROVE  Grants!GrantTo(w)
    BY <1>2, <2>1, AcquireFindsNoLease, GrantRefines
  <2>2. ASSUME NEW w \in Workers, Release(w)
        PROVE  Owners' \in {Owners, {}} /\ UNCHANGED run.leaseVersion
    <3>1. \A v \in Workers : v # w => phase'[v] = phase[v] /\ lease'[v] = lease[v]
      BY <1>2, <2>2 DEF Release, EndTick, IInv, TypeOK
    <3>2. phase'[w] = "idle"
      BY <1>2, <2>2 DEF Release, EndTick, IInv, TypeOK
    <3>3. CASE HoldsLease(w)
      BY <1>2, <2>2, <3>3 DEF Release, Owners, InForce, LeaseActive, IInv, TypeOK, RunRow
    <3>4. CASE ~HoldsLease(w)
      BY <2>2, <3>1, <3>2, <3>4 DEF Release, Owners, InForce, LeaseActive, HoldsLease
    <3>. QED BY <3>3, <3>4
  <2>3. ASSUME NEW w \in Workers, Crash(w) \/ AcquireReturnsNull(w)
        PROVE  Owners' \in {Owners, {}} /\ UNCHANGED run.leaseVersion
    <3>1. EndTick(w) /\ UNCHANGED row
      BY <2>3 DEF Crash, AcquireReturnsNull
    <3>2. \A v \in Workers : v # w => phase'[v] = phase[v] /\ lease'[v] = lease[v]
      BY <1>2, <3>1 DEF EndTick, IInv, TypeOK
    <3>3. phase'[w] = "idle"
      BY <1>2, <3>1 DEF EndTick, IInv, TypeOK
    <3>4. \A v \in Workers : InForce(v)' <=> v # w /\ InForce(v)
      BY <3>1, <3>2, <3>3 DEF InForce, HoldsLease, LeaseActive, row
    <3>5. ASSUME w \in Owners PROVE Owners' = {}
      <4>1. Owners = {w}
        BY <1>2, <3>5, OwnersAtMostOne
      <4>. QED BY <3>4, <4>1 DEF Owners
    <3>6. ASSUME w \notin Owners PROVE Owners' = Owners
      BY <3>4, <3>6 DEF Owners
    <3>. QED BY <3>1, <3>5, <3>6 DEF row
  <2>4. ASSUME NEW w \in Workers, Renew(w)
        PROVE  UNCHANGED <<Owners, run.leaseVersion>>
    BY <1>2, <2>4, LeaseAssumption DEF Renew, Owners, InForce, HoldsLease, LeaseActive
  <2>5. ASSUME NEW w \in Workers, ListRunnable(w) \/ ListPending(w)
        PROVE  UNCHANGED <<Owners, run.leaseVersion>>
    <3>1. \A v \in Workers : phase'[v] = "operating" <=> phase[v] = "operating"
      BY <1>2, <2>5 DEF ListRunnable, ListPending, IInv, TypeOK
    <3>. QED
      BY <2>5, <3>1 DEF ListRunnable, ListPending, row, Owners, InForce, HoldsLease, LeaseActive
  <2>6. CASE Elapse
    <3>1. leaseLeft' > 0 => leaseLeft > 0
      BY <1>2, <2>6, LeaseAssumption DEF Elapse, Remaining, IInv, TypeOK
    <3>2. leaseLeft' > 0 => Owners' = Owners
      BY <2>6, <3>1 DEF Elapse, Owners, InForce, HoldsLease, LeaseActive
    <3>3. ~(leaseLeft' > 0) => Owners' = {}
      BY <2>6 DEF Elapse, Owners, InForce, HoldsLease, LeaseActive
    <3>4. Owners' \in {Owners, {}} /\ UNCHANGED run.leaseVersion
      BY <2>6, <3>2, <3>3 DEF Elapse
    <3>. QED BY <1>2, <3>4, EndRefines DEF Grants!Next
  <2>7. CASE RunChanges
    BY <1>2, <2>7 DEF RunChanges, Owners, InForce, HoldsLease, LeaseActive, IInv, TypeOK, RunRow
  <2>8. CASE UNCHANGED vars
    BY <2>8 DEF vars, row, Owners, InForce, HoldsLease, LeaseActive
  <2>. QED
    BY <1>2, <2>1, <2>2, <2>3, <2>4, <2>5, <2>6, <2>7, <2>8, EndRefines
       DEF Next, Grants!Next
<1>3. IInv /\ IInv' /\ [Next]_vars =>
        [Grants!Next]_<<{w \in Workers : InForce(w)}, run.leaseVersion>>
  BY <1>2 DEF Owners
<1>. QED BY <1>1, <1>3, Invariance, PTL DEF Spec, GrantsAreSerialized, Grants!Spec

-----------------------------------------------------------------------------
(* EventStream: the stream of events of a Run. *)

\* The events from read to cursor are on the connection, or it is broken.
Contiguous ==
  \A c \in Clients :
    /\ read[c] = 1..seen[c] /\ seen[c] <= Len(log) /\ cursor[c] <= Len(log)
    /\ wire[c] = {} \/ wire[c] = (seen[c] + 1)..cursor[c]
    /\ c \in on => /\ wire[c] = (seen[c] + 1)..cursor[c]
                   /\ seen[c] <= cursor[c] /\ channel.cursor <= cursor[c]

StreamIInv == StreamTypeOK /\ Contiguous

USE DEF Closed

-----------------------------------------------------------------------------
LEMMA InitStreamTypeOK == StreamInit => StreamTypeOK
<1> SUFFICES ASSUME StreamInit PROVE StreamTypeOK
  OBVIOUS
<1>1. log \in Seq(Kinds) /\ Len(log) <= MaxEvents
  BY StreamAssumption DEF StreamInit
<1>2. seen \in [Clients -> Nat]
  BY StreamAssumption DEF StreamInit
<1>3. read \in [Clients -> SUBSET Nat]
  BY <1>2 DEF StreamInit
<1>. QED BY <1>1, <1>2, <1>3 DEF StreamInit, StreamTypeOK

LEMMA PublishStep ==
  ASSUME StreamTypeOK, NEW kind \in Kinds, Publish(kind)
  PROVE  StreamTypeOK' /\ (Contiguous => Contiguous')
<1>1. log' \in Seq(Kinds) /\ Len(log') = Len(log) + 1 /\ Len(log) \in Nat
  BY DEF StreamTypeOK, Publish
<1>2. StreamTypeOK'
  BY <1>1, StreamAssumption DEF StreamTypeOK, Publish
<1>3. Contiguous => Contiguous'
  BY <1>1 DEF StreamTypeOK, Publish, Contiguous
<1>. QED BY <1>2, <1>3

\* The channel opens at the first subscriber, which is owed nothing yet.
LEMMA OpenStep ==
  ASSUME StreamTypeOK, NEW c \in Clients, OpenChannel(c)
  PROVE  StreamTypeOK' /\ (Contiguous => Contiguous')
<1>1. StreamTypeOK'
  BY DEF StreamTypeOK, OpenChannel, Write
<1>2. Contiguous => Contiguous'
  BY DEF StreamTypeOK, OpenChannel, Write, Contiguous
<1>. QED BY <1>1, <1>2

\* A client is brought up to a place between what it has read and the end of the log.
LEMMA JoinReaches ==
  ASSUME StreamTypeOK, Contiguous, NEW c \in Clients, channel.open, NEW upto \in Nat,
         CaughtUp(seen[c], upto) \/ TurnedAway(seen[c], upto)
  PROVE  /\ seen[c] <= upto /\ upto <= Len(log)
         /\ CaughtUp(seen[c], upto) => channel.cursor <= upto
         /\ \A n \in (seen[c] + 1)..upto : NoTerminalTo(n - 1)
<1>1. /\ seen[c] \in Nat /\ seen[c] <= Len(log) /\ Len(log) \in Nat /\ channel.cursor \in Nat
      /\ Limit \in Nat
  BY StreamAssumption DEF StreamTypeOK, Contiguous
<1>2. channel.cursor <= Len(log)
  <2>1. PICK d \in on : TRUE
    BY DEF StreamTypeOK
  <2>. QED BY <2>1, <1>1 DEF StreamTypeOK, Contiguous
<1>3. Reach \in Int /\ Reach <= Len(log)
  BY <1>1 DEF Reach
<1>4. seen[c] <= upto /\ upto <= Len(log)
  BY <1>1, <1>2, <1>3 DEF CaughtUp, TurnedAway
<1>5. CaughtUp(seen[c], upto) => channel.cursor <= upto
  BY <1>1, <1>2, <1>3 DEF CaughtUp
<1>6. ASSUME NEW n \in (seen[c] + 1)..upto PROVE NoTerminalTo(n - 1)
  <2>1. DOMAIN log = 1..Len(log)
    BY DEF StreamTypeOK
  <2>2. NoTerminalTo(upto) \/ IsTerminal(upto)
    BY <1>1, <1>6 DEF CaughtUp, TurnedAway
  <2>. QED BY <1>1, <1>4, <1>6, <2>1, <2>2 DEF NoTerminalTo, IsTerminal
<1>. QED BY <1>4, <1>5, <1>6

LEMMA JoinStep ==
  ASSUME StreamTypeOK, NEW c \in Clients, Join(c)
  PROVE  StreamTypeOK' /\ (Contiguous => Contiguous')
<1>1. PICK upto \in Nat :
        /\ \/ CaughtUp(seen[c], upto) /\ on' = on \cup {c}
           \/ TurnedAway(seen[c], upto) /\ on' = on
        /\ Write(c, upto)
  BY DEF Join
<1>2. /\ c \notin on /\ wire[c] = {} /\ channel.open
      /\ UNCHANGED <<log, billed, channel, seen, read>>
  BY DEF Join
<1>3. StreamTypeOK'
  BY <1>1, <1>2 DEF StreamTypeOK, Write
<1>4. ASSUME Contiguous PROVE Contiguous'
  <2>1. seen[c] <= upto /\ upto <= Len(log) /\ (CaughtUp(seen[c], upto) => channel.cursor <= upto)
    BY <1>1, <1>2, <1>4, JoinReaches
  <2>2. ASSUME NEW d \in Clients, d # c
        PROVE  wire'[d] = wire[d] /\ cursor'[d] = cursor[d] /\ (d \in on' <=> d \in on)
    BY <1>1, <2>2 DEF Write, StreamTypeOK
  <2>3. /\ wire'[c] = (seen[c] + 1)..upto /\ cursor'[c] = upto
        /\ c \in on' => CaughtUp(seen[c], upto)
    BY <1>1, <1>2 DEF Write, StreamTypeOK
  <2>. QED BY <1>2, <1>4, <2>1, <2>2, <2>3 DEF Contiguous
<1>. QED BY <1>3, <1>4

-----------------------------------------------------------------------------
\* What a poll writes goes on from the cursor of each subscriber, and reaches at least
\* the new cursor of the channel with those who stay.
LEMMA PollPageStep ==
  ASSUME StreamTypeOK, NEW last \in 0..Len(log), PollPage(last), channel.open,
         UNCHANGED <<log, billed, seen, read>>
  PROVE  StreamTypeOK' /\ (Contiguous => Contiguous')
<1>1. PICK upto \in [on -> 0..(Len(log) + channel.cursor)] :
        /\ \A c \in on : upto[c] \in cursor[c]..Target(c, last)
        /\ wire' = [c \in Clients |-> IF c \in on
                      THEN wire[c] \cup {n \in (channel.cursor + 1)..last : cursor[c] < n /\ n <= upto[c]}
                      ELSE wire[c]]
        /\ cursor' = [c \in Clients |-> IF c \in on THEN upto[c] ELSE cursor[c]]
        /\ on' = IF last > channel.cursor /\ Ends(last) THEN {}
                 ELSE {c \in on : upto[c] = Target(c, last)}
  BY DEF PollPage
<1>2. /\ Len(log) \in Nat /\ last \in Nat /\ channel.cursor \in Nat
      /\ channel' = IF on' = {} THEN Closed ELSE [channel EXCEPT !.cursor = last]
      /\ on' \subseteq on /\ on \subseteq Clients
  BY <1>1 DEF StreamTypeOK, PollPage
<1>3. StreamTypeOK'
  <2>1. channel' \in [open: BOOLEAN, cursor: Nat] /\ (channel'.open <=> on' # {})
    BY <1>2 DEF StreamTypeOK
  <2>2. cursor' \in [Clients -> Nat]
    BY <1>1, <1>2 DEF StreamTypeOK
  <2>3. wire' \in [Clients -> SUBSET Nat]
    BY <1>1, <1>2 DEF StreamTypeOK
  <2>. QED BY <1>2, <2>1, <2>2, <2>3 DEF StreamTypeOK
<1>4. ASSUME Contiguous, NEW c \in Clients, c \in on
      PROVE  /\ upto[c] \in Nat /\ cursor[c] <= upto[c] /\ upto[c] <= Len(log)
             /\ wire'[c] = (seen[c] + 1)..upto[c] /\ cursor'[c] = upto[c]
             /\ c \in on' => last <= upto[c]
  <2>0. /\ cursor[c] \in Nat /\ seen[c] \in Nat /\ seen[c] <= cursor[c]
        /\ cursor[c] <= Len(log) /\ channel.cursor <= cursor[c]
        /\ wire[c] = (seen[c] + 1)..cursor[c]
    BY <1>4 DEF StreamTypeOK, Contiguous
  <2>1. upto[c] \in Nat /\ cursor[c] <= upto[c] /\ upto[c] <= Target(c, last)
    BY <1>1, <1>2, <1>4
  <2>2. /\ upto[c] <= Len(log)
        /\ cursor[c] < last => upto[c] <= last
        /\ cursor[c] >= last => upto[c] = cursor[c]
        /\ Target(c, last) >= last
    BY <1>2, <2>0, <2>1 DEF Target
  <2>3. wire'[c] = wire[c] \cup {n \in (channel.cursor + 1)..last : cursor[c] < n /\ n <= upto[c]}
    BY <1>1, <1>4
  <2>4. wire'[c] = (seen[c] + 1)..upto[c]
    BY <1>2, <2>0, <2>1, <2>2, <2>3
  <2>5. c \in on' => last <= upto[c]
    BY <1>1, <2>2
  <2>6. cursor'[c] = upto[c]
    BY <1>1, <1>4
  <2>. QED BY <2>1, <2>2, <2>4, <2>5, <2>6
<1>5. ASSUME Contiguous PROVE Contiguous'
  <2>1. ASSUME NEW c \in Clients, c \notin on
        PROVE  wire'[c] = wire[c] /\ cursor'[c] = cursor[c] /\ c \notin on'
    BY <1>1, <1>2, <2>1
  <2>2. ASSUME NEW c \in Clients, c \in on' PROVE channel'.cursor = last
    BY <1>2, <2>2 DEF StreamTypeOK
  <2>3. ASSUME NEW c \in Clients, c \in on
        PROVE  /\ cursor'[c] <= Len(log') /\ wire'[c] = (seen'[c] + 1)..cursor'[c]
               /\ c \in on' => seen'[c] <= cursor'[c] /\ channel'.cursor <= cursor'[c]
    BY <1>2, <1>4, <1>5, <2>2, <2>3 DEF StreamTypeOK, Contiguous
  <2>4. UNCHANGED <<log, seen, read>>
    OBVIOUS
  <2>. QED BY <1>5, <2>1, <2>3, <2>4 DEF Contiguous
<1>. QED BY <1>3, <1>5

LEMMA PollStep ==
  ASSUME StreamTypeOK, Poll
  PROVE  StreamTypeOK' /\ (Contiguous => Contiguous')
<1>1. CASE PollEnd
  <2>1. UNCHANGED <<log, billed, seen, read, wire, cursor>> /\ on' = {} /\ channel' = Closed
    BY <1>1 DEF Poll, PollEnd
  <2>. QED BY <2>1 DEF StreamTypeOK, Contiguous
<1>2. CASE \E last \in 0..Len(log) : PollPage(last)
  BY <1>2, PollPageStep DEF Poll
<1>. QED BY <1>1, <1>2 DEF Poll

\* Reading takes the first event of the connection, which is the one after the last.
LEMMA ReceiveReads ==
  ASSUME StreamTypeOK, Contiguous, NEW c \in Clients, Receive(c)
  PROVE  /\ seen[c] + 1 \in 1..Len(log)
         /\ wire[c] = (seen[c] + 1)..cursor[c]
         /\ wire' = [wire EXCEPT ![c] = (seen[c] + 2)..cursor[c]]
         /\ seen' = [seen EXCEPT ![c] = seen[c] + 1]
         /\ read' = [read EXCEPT ![c] = 1..(seen[c] + 1)]
<1>1. PICK n \in wire[c] :
        /\ \A m \in wire[c] : n <= m
        /\ wire' = [wire EXCEPT ![c] = @ \ {n}]
        /\ seen' = [seen EXCEPT ![c] = n]
        /\ read' = [read EXCEPT ![c] = @ \cup {n}]
  BY DEF Receive
<1>2. /\ seen[c] \in Nat /\ cursor[c] \in Nat /\ cursor[c] <= Len(log) /\ Len(log) \in Nat
      /\ wire[c] = (seen[c] + 1)..cursor[c] /\ read[c] = 1..seen[c]
  BY <1>1 DEF StreamTypeOK, Contiguous
<1>3. n = seen[c] + 1
  <2>1. n \in Nat /\ seen[c] + 1 <= n /\ n <= cursor[c]
    BY <1>2
  <2>2. seen[c] + 1 \in wire[c]
    BY <1>2, <2>1
  <2>. QED BY <1>1, <1>2, <2>1, <2>2
<1>4. wire[c] \ {n} = (seen[c] + 2)..cursor[c]
  BY <1>2, <1>3
<1>5. read[c] \cup {n} = 1..(seen[c] + 1)
  BY <1>2, <1>3
<1>6. seen[c] + 1 \in 1..Len(log)
  BY <1>2, <1>3
<1>7. /\ wire' = [wire EXCEPT ![c] = wire[c] \ {n}]
      /\ read' = [read EXCEPT ![c] = read[c] \cup {n}]
  BY <1>1 DEF StreamTypeOK
<1>8. /\ wire' = [wire EXCEPT ![c] = (seen[c] + 2)..cursor[c]]
      /\ read' = [read EXCEPT ![c] = 1..(seen[c] + 1)]
  BY <1>4, <1>5, <1>7, Zenon
<1>. QED BY <1>1, <1>2, <1>3, <1>6, <1>8

LEMMA ReceiveStep ==
  ASSUME StreamTypeOK, NEW c \in Clients, Receive(c)
  PROVE  StreamTypeOK' /\ (Contiguous => Contiguous')
<1>1. StreamTypeOK'
  <2>1. PICK n \in wire[c] :
          /\ wire' = [wire EXCEPT ![c] = @ \ {n}] /\ seen' = [seen EXCEPT ![c] = n]
          /\ read' = [read EXCEPT ![c] = @ \cup {n}]
    BY DEF Receive
  <2>2. n \in Nat
    BY <2>1 DEF StreamTypeOK
  <2>3. wire' \in [Clients -> SUBSET Nat] /\ seen' \in [Clients -> Nat] /\ read' \in [Clients -> SUBSET Nat]
    BY <2>1, <2>2 DEF StreamTypeOK
  <2>. QED BY <2>3 DEF Receive, StreamTypeOK
<1>2. ASSUME Contiguous PROVE Contiguous'
  <2>1. UNCHANGED <<log, cursor, channel, on>>
    BY DEF Receive
  <2>2. seen[c] \in Nat /\ cursor[c] \in Nat /\ Len(log) \in Nat /\ cursor[c] <= Len(log)
    BY <1>2 DEF StreamTypeOK, Contiguous
  <2>3. /\ seen'[c] = seen[c] + 1 /\ read'[c] = 1..(seen[c] + 1)
        /\ wire'[c] = (seen[c] + 2)..cursor[c]
        /\ seen[c] + 1 \in 1..Len(log)
        /\ wire[c] = (seen[c] + 1)..cursor[c] /\ wire[c] # {}
    <3>1. /\ seen' = [seen EXCEPT ![c] = seen[c] + 1]
          /\ read' = [read EXCEPT ![c] = 1..(seen[c] + 1)]
          /\ wire' = [wire EXCEPT ![c] = (seen[c] + 2)..cursor[c]]
          /\ seen[c] + 1 \in 1..Len(log) /\ wire[c] = (seen[c] + 1)..cursor[c]
      BY <1>2, ReceiveReads
    <3>2. wire[c] # {}
      BY DEF Receive
    <3>. QED BY <3>1, <3>2 DEF StreamTypeOK
  <2>5. /\ read'[c] = 1..seen'[c] /\ seen'[c] <= Len(log') /\ cursor'[c] <= Len(log')
        /\ wire'[c] = (seen'[c] + 1)..cursor'[c] /\ seen'[c] <= cursor'[c]
        /\ c \in on' => channel'.cursor <= cursor'[c]
    BY <1>2, <2>1, <2>2, <2>3 DEF Contiguous
  <2>4. ASSUME NEW d \in Clients, d # c
        PROVE  wire'[d] = wire[d] /\ seen'[d] = seen[d] /\ read'[d] = read[d]
    BY <2>4 DEF Receive, StreamTypeOK
  <2>. QED BY <1>2, <2>1, <2>4, <2>5 DEF Contiguous
<1>. QED BY <1>1, <1>2

\* A connection that ends takes what it held, or leaves it to be read.
LEMMA ClosingStep ==
  ASSUME StreamTypeOK, Settle \/ CloseAll \/ (\E c \in Clients : Disconnect(c)) \/ UNCHANGED streamVars
  PROVE  StreamTypeOK' /\ (Contiguous => Contiguous')
<1>1. CASE Settle \/ UNCHANGED streamVars
  BY <1>1 DEF Settle, streamVars, StreamTypeOK, Contiguous
<1>2. CASE CloseAll
  BY <1>2 DEF CloseAll, StreamTypeOK, Contiguous
<1>3. ASSUME NEW c \in Clients, Disconnect(c) PROVE StreamTypeOK' /\ (Contiguous => Contiguous')
  <2>1. /\ UNCHANGED <<log, billed, cursor, seen, read>>
        /\ wire' = [wire EXCEPT ![c] = {}] /\ on' = on \ {c}
        /\ channel' = IF on' = {} THEN Closed ELSE channel
    BY <1>3 DEF Disconnect
  <2>2. StreamTypeOK'
    BY <2>1 DEF StreamTypeOK
  <2>3. Contiguous => Contiguous'
    BY <2>1 DEF StreamTypeOK, Contiguous
  <2>. QED BY <2>2, <2>3
<1>. QED BY <1>1, <1>2, <1>3

LEMMA StreamStep == StreamTypeOK /\ [StreamNext]_streamVars => StreamTypeOK' /\ (Contiguous => Contiguous')
BY PublishStep, OpenStep, JoinStep, PollStep, ReceiveStep, ClosingStep DEF StreamNext

\* Every variable holds what the code can put into it, and a channel is kept exactly as
\* long as it has subscribers.  (remove and stop)
THEOREM StreamTypeCorrect == StreamSpec => []StreamTypeOK
<1>1. StreamTypeOK /\ [StreamNext]_streamVars => StreamTypeOK'
  BY StreamStep
<1>. QED BY InitStreamTypeOK, <1>1, PTL DEF StreamSpec

LEMMA StreamInvariance ==
  ASSUME Starts = {0}
  PROVE  StreamSpec => []StreamIInv
<1>1. StreamInit => StreamIInv
  BY InitStreamTypeOK DEF StreamInit, StreamIInv, Contiguous, StreamTypeOK
<1>2. StreamIInv /\ [StreamNext]_streamVars => StreamIInv'
  BY StreamStep DEF StreamIInv
<1>. QED BY <1>1, <1>2, PTL DEF StreamSpec

-----------------------------------------------------------------------------
\* Nothing is written past the end of the Run: what a step adds to a connection are the
\* events of a page that is cut at the first end, or the replay of a subscription.
LEMMA WritesUpToTheEnd ==
  ASSUME StreamIInv, [StreamNext]_streamVars, NEW c \in Clients, NEW n \in wire'[c] \ wire[c]
  PROVE  NoTerminalTo(n - 1)
<1>1. ASSUME NEW d \in Clients, Join(d) PROVE NoTerminalTo(n - 1)
  <2>1. PICK upto \in Nat :
          /\ CaughtUp(seen[d], upto) \/ TurnedAway(seen[d], upto)
          /\ Write(d, upto)
    BY <1>1 DEF Join
  <2>2. c = d /\ n \in (seen[d] + 1)..upto
    BY <2>1 DEF Write, StreamIInv, StreamTypeOK
  <2>. QED BY <1>1, <2>1, <2>2, JoinReaches DEF StreamIInv, Join
<1>2. ASSUME NEW last \in 0..Len(log), PollPage(last) PROVE NoTerminalTo(n - 1)
  <2>1. n \in (channel.cursor + 1)..last
    BY <1>2 DEF PollPage
  <2>2. NoTerminalTo(last - 1)
    BY <1>2 DEF PollPage
  <2>3. DOMAIN log = 1..Len(log) /\ channel.cursor \in Nat /\ Len(log) \in Nat
    BY DEF StreamIInv, StreamTypeOK
  <2>. QED BY <2>1, <2>2, <2>3 DEF NoTerminalTo
<1>3. ASSUME NEW d \in Clients, OpenChannel(d) \/ Receive(d) \/ Disconnect(d) PROVE FALSE
  <2>1. \A e \in Clients : wire'[e] \subseteq wire[e]
    BY <1>3 DEF OpenChannel, Receive, Disconnect, Write, StreamIInv, StreamTypeOK
  <2>. QED BY <2>1
<1>4. wire' # wire
  OBVIOUS
<1>. QED BY <1>1, <1>2, <1>3, <1>4 DEF StreamNext, Poll, PollEnd, Publish, Settle, CloseAll, streamVars

LEMMA StepFeeds ==
  ASSUME StreamIInv, [StreamNext]_streamVars
  PROVE  [Feed!Next]_<<log, read>>
<1>1. ASSUME NEW c \in Clients, Receive(c) PROVE Feed!Next
  <2>1. /\ seen[c] + 1 \in 1..Len(log)
        /\ read' = [read EXCEPT ![c] = 1..(seen[c] + 1)]
    BY <1>1, ReceiveReads DEF StreamIInv
  <2>2. read[c] = 1..((seen[c] + 1) - 1)
    BY DEF StreamIInv, StreamTypeOK, Contiguous
  <2>3. Feed!Read(c)
    BY <1>1, <2>1, <2>2 DEF Feed!Read, Receive
  <2>. QED BY <2>3 DEF Feed!Next
<1>2. ASSUME NEW kind \in Kinds, Publish(kind) PROVE Feed!Next
  BY <1>2 DEF Publish, Feed!Next, Feed!Publish
<1>3. ASSUME NEW c \in Clients, OpenChannel(c) \/ Join(c) \/ Disconnect(c) PROVE UNCHANGED <<log, read>>
  BY <1>3 DEF OpenChannel, Join, Disconnect
<1>4. CASE Settle \/ Poll \/ CloseAll \/ UNCHANGED streamVars
  BY <1>4 DEF Settle, Poll, CloseAll, streamVars
<1>. QED BY <1>1, <1>2, <1>3, <1>4 DEF StreamNext

\* However connections break and subscriptions share one poll and one cursor, a client
\* that begins at the beginning reads the log in order and without a gap, and nothing is
\* sent to it after the event that ends the Run.  (RunEventBroker)
THEOREM OrderIsKept ==
  ASSUME Starts = {0}
  PROVE  StreamSpec => ReadsInOrder
<1>1. StreamInit => Feed!Init
  BY DEF StreamInit, Feed!Init
<1>2. StreamIInv /\ [StreamNext]_streamVars => [Feed!Next]_<<log, read>>
  BY StepFeeds
<1>3. StreamIInv /\ [StreamNext]_streamVars => [\A c \in Clients : \A n \in wire'[c] \ wire[c] : NoTerminalTo(n - 1)]_streamVars
  BY WritesUpToTheEnd
<1>4. StreamSpec => []StreamIInv
  BY StreamInvariance
<1>. QED BY <1>1, <1>2, <1>3, <1>4, PTL DEF StreamSpec, ReadsInOrder, ReadsPrefix, EndsAreKept, Feed!Spec

===============================================================================

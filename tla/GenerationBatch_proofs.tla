------------------------ MODULE GenerationBatch_proofs ------------------------
(***************************************************************************)
(* Proofs about GenerationBatch for every set of pages, budget and bound:  *)
(* a page is submitted once and under an authorization (SubmittedOnce),    *)
(* the ledgers of Run, batch and host agree (LedgersAgree); and where      *)
(* nobody resumes a Run and every preflight is answered, submissions are   *)
(* under a hold that lasts (SubmittedUnderHold) and the settlement is      *)
(* what the provider charged (SettlementIsExact).                          *)
(*                                                                         *)
(* A page tells what the provider knows of it (PageFits), a job in flight  *)
(* what its page says (JobFits).  A batch that is reserved is known to the *)
(* host and stays reserved; the point the worker is at tells how far the   *)
(* authorization is (BatchFits).  Whatever may turn into a hold is covered *)
(* by committed budget (Covered), and a failed Run has nothing left that   *)
(* moves (FailedIsFrozen).                                                 *)
(*                                                                         *)
(* For the exact settlement: once all pages have ended and none can be     *)
(* retried they stay as they are (Sealed), the finalization is decided on  *)
(* such pages only (SealedAtEnd), because no failure of a page leaves the  *)
(* Run executing (FailureIsTold), and an estimate that was committed and   *)
(* forgotten belongs to a Run that reserves no more (CommittedIsExact).    *)
(***************************************************************************)
EXTENDS GenerationBatch, FiniteSetTheorems, TLAPS

\* Up to the answer about the authorization, and from the decision to settle it.
Opening == {"preflight", "reserving", "callReserve", "reserved", "refused", "reserveUnknown"}
Closing == {"callFinalize", "recordFinalized", "finalizeUnknown"}
\* From the end of the submission to the end of the tick.
After == {"submitted", "refreshing", "finalizing", "finalized"} \cup Closing

Ended == Settled \cup Released

PageFits(p) ==
  LET status == pages[p].status
  IN /\ status # "NONE" \/ job[p] # "none" \/ provider[p] # "none" => batch.reserved
     /\ status \in {"NONE", "RESERVED"} => provider[p] = "none"
     /\ status \in Released => provider[p] \in {"none", "failedFree"}
     /\ status = "FAILED" /\ ~pages[p].submitted => provider[p] = "none"
     /\ status = "FAILED_CHARGED" => provider[p] = "failedCharged"
     /\ status \in {"COMPLETED", "COMPLETED_AFTER_CANCEL"} => provider[p] = "completed"
     /\ pages[p].submitted => provider[p] # "none"

JobFits(p) ==
  /\ job[p] = "mark" => pages[p].status = "RESERVED"
  /\ job[p] \in {"send", "accepted", "refused", "failed", "unknown"} =>
       pages[p].status = "SUBMITTING"
  /\ job[p] = "refresh" => pages[p].status \in PendingMedia
  /\ job[p] \in {"send", "refused"} => provider[p] = "none"
  /\ job[p] = "failed" => provider[p] \in {"failedFree", "failedCharged"}

PagesFit == \A p \in Pages : PageFits(p) /\ JobFits(p)

BatchFits ==
  /\ batch.reserved => /\ host.state # "none" /\ batch.authorization = "RESERVED"
                       /\ batch.step \in {"RUNNING", "BILLING_UNKNOWN", "COMPLETED"}
  /\ host.state = "finalized" => batch.reserved
  /\ pc \in Opening => ~batch.reserved
  /\ pc = "reserved" => host.state # "none"
  /\ pc = "refused" => host.state = "none"
  /\ pc = "dispatching" => batch.reserved
  /\ pc \in Closing => batch.reserved /\ ~SettlementFinal(batch)
  /\ pc = "recordFinalized" => host = Executed

Covered ==
  (\/ host.state = "held"
   \/ BudgetCommitted \/ batch.authorization = "UNKNOWN"
   \/ batch.reserved /\ ~SettlementFinal(batch)
   \/ pc \in {"callReserve", "reserved", "refused", "reserveUnknown"})
  => run.committed >= Units

\* Nothing was ever reserved, or all of it is settled.
Frozen(r, b, pg) ==
  \/ ~b.reserved /\ r.committed = 0 /\ \A p \in Pages : pg[p].status = "NONE"
  \/ /\ b.reserved /\ SettlementFinal(b) /\ r.committed = b.settled
     /\ \A p \in Pages : pg[p].status \in Ended
FailedIsFrozen == run.status = "FAILED" => Frozen(run, batch, pages)

RecoveryFits(r) ==
  /\ r.status = "RECOVERING" => r.recovery \in {"active", "due"}
  /\ r.status \in {"EXECUTING", "PAUSED"} => ~r.pendingFailure

\* Without a resumption the Run executes no more.
Dead(r) ==
  \/ r.status \in {"CANCELLED", "FAILED", "PAUSED", "PAGE_REVIEW"}
  \/ r.status = "RECOVERING" /\ r.pendingFailure

Sealed ==
  /\ \A p \in Pages : pages[p].status \in Ended
  /\ (\E p \in Pages : pages[p].status = "FAILED") => Dead(run)

FailureIsTold ==
  /\ pc \in After /\ run.status = "EXECUTING" => \A p \in Pages : pages[p].status # "FAILED"
  /\ pc = "submitted" /\ run.status = "EXECUTING" => batch.reserved
  /\ pc = "refreshing" => batch.reserved

SealedAtEnd ==
  /\ host.state = "finalized" =>
       Sealed /\ host.settled = UnitsIn(Settled) /\ host.released = UnitsIn(Released)
  /\ pc \in Closing =>
       Sealed /\ instruction = [settled |-> UnitsIn(Settled), released |-> UnitsIn(Released)]

CommittedIsExact ==
  /\ ~batch.reserved =>
       run.committed \in {0, Units} /\ (run.committed # 0 => Dead(run) \/ BudgetCommitted)
  /\ batch.reserved /\ ~SettlementFinal(batch) => run.committed = Units
  /\ batch.reserved /\ SettlementFinal(batch) => run.committed = batch.settled

UInv == FailureIsTold /\ SealedAtEnd /\ CommittedIsExact

\* Nobody resumes a Run, and the host answers every preflight.
Undisturbed == PreflightAnswers \subseteq {"OK"} /\ "RESUME" \notin UserActions

IInv == /\ TypeOK /\ PagesFit /\ BatchFits /\ RecordMatchesHost /\ Covered /\ FailedIsFrozen
        /\ RecoveryFits(run)
        /\ Undisturbed => UInv

-----------------------------------------------------------------------------
(* Units. *)

LEMMA UnitsType == Units \in Nat /\ Units > 0
  BY BatchAssumption, FS_CardinalityType, FS_EmptySet DEF Units

LEMMA UnitsInType ==
  ASSUME NEW statuses PROVE UnitsIn(statuses) \in 0..Units
<1>. DEFINE S == {p \in Pages : pages[p].status \in statuses}
<1>1. IsFiniteSet(S) /\ Cardinality(S) <= Cardinality(Pages)
  BY BatchAssumption, FS_Subset
<1>. QED BY <1>1, BatchAssumption, FS_CardinalityType DEF UnitsIn, Units

\* Pages that have all ended are settled or released.
LEMMA UnitsSplit ==
  ASSUME \A p \in Pages : pages[p].status \in Ended
  PROVE  UnitsIn(Settled) + UnitsIn(Released) = Units
<1>. DEFINE S == {p \in Pages : pages[p].status \in Settled}
            R == {p \in Pages : pages[p].status \in Released}
<1>1. IsFiniteSet(S) /\ IsFiniteSet(R)
  BY BatchAssumption, FS_Subset
<1>2. S \cup R = Pages
  BY DEF Ended
<1>3. S \cap R = {}
  BY DEF Settled, Released
<1>4. Cardinality(S \cup R) = Cardinality(S) + Cardinality(R) - Cardinality(S \cap R)
  BY <1>1, FS_Union
<1>5. Cardinality(S \cap R) = 0 /\ Cardinality(S) \in Nat /\ Cardinality(R) \in Nat
  BY <1>1, <1>3, FS_EmptySet, FS_CardinalityType
<1>6. UnitsIn(Settled) = Cardinality(S) /\ UnitsIn(Released) = Cardinality(R)
  BY DEF UnitsIn
<1>7. Cardinality(S \cup R) = Units
  BY <1>2 DEF Units
<1>. HIDE DEF S, R
<1>. QED BY <1>4, <1>5, <1>6, <1>7

-----------------------------------------------------------------------------
(* What the transactions compute. *)

\* What any of the transactions on the Run makes of it.
Moved(r, s, b, pg) ==
  /\ s \in RunRow /\ s.budget = r.budget /\ s.committed = r.committed
  /\ s.status = "FAILED" => r.status = "FAILED" \/ AccountingFinal(r, b, pg)
  /\ Dead(r) => Dead(s)
  /\ s.status = "EXECUTING" => r.status = "EXECUTING"
  /\ RecoveryFits(s)

LEMMA MovesNot ==
  ASSUME NEW r \in RunRow, RecoveryFits(r), NEW b, NEW pg PROVE Moved(r, r, b, pg)
  BY DEF Moved

LEMMA FailRunMoves ==
  ASSUME NEW r \in RunRow, RecoveryFits(r), NEW b, NEW pg
  PROVE  /\ Moved(r, FailRun(r, b, pg), b, pg)
         /\ FailRun(r, b, pg).status # "EXECUTING"
<1>. DEFINE s == [r EXCEPT !.status = "RECOVERING", !.recovery = "active",
                           !.attempt = 1, !.pendingFailure = TRUE]
<1>1. CASE FailRun(r, b, pg) = r /\ r.status # "EXECUTING"
  BY <1>1, MovesNot
<1>2. CASE FailRun(r, b, pg) = [r EXCEPT !.status = "FAILED"] /\ AccountingFinal(r, b, pg)
  BY <1>2 DEF Moved, Dead, RecoveryFits, RunRow
<1>3. CASE FailRun(r, b, pg) = s /\ r.status = "EXECUTING"
  <2>1. 1 \in 0..MaxAttempts
    BY BatchAssumption
  <2>2. s \in RunRow /\ s.status = "RECOVERING" /\ s.recovery = "active"
        /\ s.budget = r.budget /\ s.committed = r.committed
    BY <2>1 DEF RunRow
  <2>. QED BY <1>3, <2>2 DEF Moved, Dead, RecoveryFits
<1>4. r.status = "EXECUTING" => ~r.pendingFailure
  BY DEF RecoveryFits
<1>. QED BY <1>1, <1>2, <1>3, <1>4 DEF FailRun

LEMMA ReconcileMoves ==
  ASSUME NEW r \in RunRow, RecoveryFits(r), NEW b, NEW pg
  PROVE  /\ Moved(r, ReconcileTerminal(r, b, pg), b, pg)
         /\ r.status # "EXECUTING" => ReconcileTerminal(r, b, pg).status # "EXECUTING"
  BY DEF Moved, ReconcileTerminal, RunRow, Dead, RecoveryFits

LEMMA RecoveryMoves ==
  ASSUME NEW r \in RunRow, RecoveryFits(r), NEW b, NEW pg, NEW disposition
  PROVE  /\ Moved(r, BeginRecovery(r, b, pg, disposition), b, pg)
         /\ BeginRecovery(r, b, pg, disposition).status # "EXECUTING"
<1>. DEFINE attempt == IF r.recovery = "none" THEN 1 ELSE r.attempt + 1
            s == [r EXCEPT !.recovery = "inactive",
                           !.attempt = IF attempt < MaxAttempts THEN attempt ELSE MaxAttempts]
            t == [r EXCEPT !.status = "RECOVERING", !.recovery = "active", !.attempt = attempt]
<1>1. attempt \in Nat
  BY DEF RunRow
<1>. HIDE DEF attempt
<1>2. /\ s \in RunRow /\ s.budget = r.budget /\ s.committed = r.committed /\ s.status = r.status
      /\ s.pendingFailure = r.pendingFailure
  <2>1. (IF attempt < MaxAttempts THEN attempt ELSE MaxAttempts) \in 0..MaxAttempts
    BY <1>1, BatchAssumption
  <2>. QED BY <2>1 DEF RunRow
<1>. HIDE DEF s
<1>3. AccountingFinal(s, b, pg) <=> AccountingFinal(r, b, pg)
  BY <1>2 DEF AccountingFinal
<1>4. CASE r.status # "EXECUTING"
  <2>1. BeginRecovery(r, b, pg, disposition) = r
    BY <1>4 DEF BeginRecovery
  <2>. QED BY <1>4, <2>1, MovesNot
<1>5. CASE r.status = "EXECUTING" /\ disposition = "RETRYABLE" /\ attempt < MaxAttempts
  <2>1. BeginRecovery(r, b, pg, disposition) = t
    BY <1>5 DEF BeginRecovery, attempt
  <2>2. t \in RunRow /\ t.budget = r.budget /\ t.committed = r.committed /\ t.status = "RECOVERING"
        /\ t.recovery = "active"
    <3>1. attempt \in 0..MaxAttempts
      BY <1>1, <1>5, BatchAssumption
    <3>. QED BY <3>1 DEF RunRow
  <2>3. t.pendingFailure = r.pendingFailure
    BY DEF RunRow
  <2>. QED BY <2>1, <2>2, <1>5 DEF Moved, Dead, RecoveryFits
<1>6. CASE r.status = "EXECUTING" /\ ~(disposition = "RETRYABLE" /\ attempt < MaxAttempts)
  <2>1. BeginRecovery(r, b, pg, disposition) = FailRun(s, b, pg)
    BY <1>6 DEF BeginRecovery, attempt, s
  <2>2. RecoveryFits(s)
    BY <1>2, <1>6 DEF RecoveryFits
  <2>3. Moved(s, FailRun(s, b, pg), b, pg) /\ FailRun(s, b, pg).status # "EXECUTING"
    BY <1>2, <2>2, FailRunMoves
  <2>4. ~Dead(r)
    BY <1>6 DEF Dead
  <2>. QED BY <1>2, <1>3, <1>6, <2>1, <2>3, <2>4 DEF Moved
<1>. QED BY <1>4, <1>5, <1>6

LEMMA RequireHumanMoves ==
  ASSUME NEW r \in RunRow, RecoveryFits(r), NEW b, NEW pg, NEW p
  PROVE  /\ Moved(r, RequireHuman(r, b, pg, p), b, pg)
         /\ RequireHuman(r, b, pg, p).status # "EXECUTING"
<1>. DEFINE s == BeginRecovery(r, b, pg, pg[p].disposition)
<1>1. Moved(r, s, b, pg) /\ s.status # "EXECUTING"
  BY RecoveryMoves
<1>2. s \in RunRow
  BY <1>1 DEF Moved
<1>. HIDE DEF s
<1>3. Moved(s, ReconcileTerminal(s, b, pg), b, pg)
      /\ ReconcileTerminal(s, b, pg).status # "EXECUTING"
  BY <1>1, <1>2, ReconcileMoves DEF Moved
<1>4. AccountingFinal(s, b, pg) <=> AccountingFinal(r, b, pg)
  BY <1>1 DEF Moved, AccountingFinal
<1>5. RequireHuman(r, b, pg, p) = ReconcileTerminal(s, b, pg)
  BY DEF RequireHuman, s
<1>. QED BY <1>1, <1>3, <1>4, <1>5 DEF Moved

\* A Run fails over accounts that are closed.
LEMMA FinalIsFrozen ==
  ASSUME NEW r, NEW b, NEW pg, AccountingFinal(r, b, pg),
         \A p \in Pages : pg[p].status # "NONE" => b.reserved,
         b.reserved => b.step \in {"RUNNING", "BILLING_UNKNOWN", "COMPLETED"}
  PROVE  Frozen(r, b, pg)
<1>1. Pages # {}
  BY BatchAssumption
<1>2. "NONE" \notin Ended
  BY DEF Ended, Settled, Released
<1>. QED
  BY <1>1, <1>2 DEF AccountingFinal, DefinitivePreflightRejection, Frozen, Ended

LEMMA RefreshedBatch ==
  ASSUME NEW b \in BatchRow
  PROVE  /\ Refreshed(b) \in BatchRow /\ Refreshed(b).reserved = b.reserved
         /\ Refreshed(b).authorization = b.authorization /\ Refreshed(b).settlement = b.settlement
         /\ Refreshed(b).settled = b.settled /\ Refreshed(b).released = b.released
         /\ Refreshed(b).step = "RESERVED" => b.step = "RESERVED"
         /\ Refreshed(b).step = "RESERVATION_UNKNOWN" =>
              b.authorization = "UNKNOWN" \/ b.step = "RESERVATION_UNKNOWN"
         /\ b.step # "NONE" /\ b.authorization # "UNKNOWN" =>
              Refreshed(b).step \in {"RUNNING", "BILLING_UNKNOWN", "COMPLETED"}
  BY DEF BatchRow, Refreshed, SettlementFinal

-----------------------------------------------------------------------------
(* What every step does. *)

\* The budget covers what is committed after any transaction that commits nothing.
LEMMA MovedRun ==
  ASSUME TypeOK, NEW b, NEW pg, NEW s, Moved(run, s, b, pg)
  PROVE  /\ s \in RunRow /\ s.committed = run.committed /\ s.committed <= s.budget
         /\ RecoveryFits(s)
  BY DEF TypeOK, Moved

\* The pages are left alone, and jobs are ended or begun for them.
LEMMA PagesStay ==
  ASSUME PagesFit, UNCHANGED <<pages, provider>>, batch.reserved => batch'.reserved,
         \A p \in Pages : \/ job'[p] \in {job[p], "none"}
                          \/ job'[p] = "refresh" /\ pages[p].status \in PendingMedia
                          \/ job'[p] = "submit" /\ batch'.reserved
  PROVE  PagesFit'
<1>. SUFFICES ASSUME NEW p \in Pages PROVE PageFits(p)' /\ JobFits(p)'
  BY DEF PagesFit
<1>1. PageFits(p) /\ JobFits(p)
  BY DEF PagesFit
<1>2. pages' = pages /\ provider' = provider
  OBVIOUS
<1>3. job'[p] = "refresh" => job[p] = "refresh" \/ pages[p].status \in PendingMedia
  OBVIOUS
<1>4. "NONE" \notin PendingMedia
  BY DEF PendingMedia
<1>5. PageFits(p)'
  BY <1>1, <1>2, <1>4 DEF PageFits
<1>6. JobFits(p)'
  BY <1>1, <1>2, <1>3 DEF JobFits
<1>. QED BY <1>5, <1>6

\* A step of one page: its row, its job, its task, and the Run.
LEMMA PageMoves ==
  ASSUME IInv, NEW p \in Pages, NEW page \in PageRow, NEW name \in Jobs, NEW task \in Tasks,
         pages' = [pages EXCEPT ![p] = page], job' = [job EXCEPT ![p] = name],
         provider' = [provider EXCEPT ![p] = task],
         UNCHANGED <<batch, host, tick, pc, instruction, seenBudget>>, faults' \in 0..MaxFaults,
         Moved(run, run', batch, pages'),
         job[p] # "none", PageFits(p)', JobFits(p)',
         \/ pages' = pages
         \/ /\ run.status # "FAILED"
            /\ ~Sealed
            /\ page.status = "FAILED" => run'.status # "EXECUTING"
  PROVE  IInv'
<1>. USE DEF IInv
<1>1. TypeOK'
  BY MovedRun DEF TypeOK
<1>2. batch.reserved
  BY DEF PagesFit, PageFits
<1>3. PagesFit'
  <2>. SUFFICES ASSUME NEW q \in Pages, q # p PROVE PageFits(q)' /\ JobFits(q)'
    BY DEF PagesFit
  <2>1. pages'[q] = pages[q] /\ job'[q] = job[q] /\ provider'[q] = provider[q]
    BY DEF TypeOK
  <2>2. PageFits(q) /\ JobFits(q)
    BY DEF PagesFit
  <2>. QED BY <2>1, <2>2 DEF PageFits, JobFits
<1>4. BatchFits' /\ RecordMatchesHost'
  BY DEF BatchFits, RecordMatchesHost, SettlementFinal, Executed
<1>5. run'.committed = run.committed /\ RecoveryFits(run')
  BY DEF Moved
<1>6. Covered'
  BY <1>5 DEF Covered, SettlementFinal, BudgetCommitted
<1>7. FailedIsFrozen'
  <2>. SUFFICES ASSUME run'.status = "FAILED" PROVE Frozen(run', batch, pages')
    BY DEF FailedIsFrozen
  <2>1. CASE run.status = "FAILED"
    BY <1>5, <2>1 DEF FailedIsFrozen, Frozen
  <2>2. CASE AccountingFinal(run, batch, pages')
    <3>1. Frozen(run, batch, pages')
      BY <1>2, <2>2, FinalIsFrozen DEF BatchFits
    <3>. QED BY <1>5, <3>1 DEF Frozen
  <2>. QED BY <2>1, <2>2 DEF Moved
<1>8. Undisturbed => UInv'
  <2>. SUFFICES ASSUME UInv PROVE UInv'
    OBVIOUS
  <2>1. Dead(run) => Dead(run')
    BY DEF Moved
  <2>2. FailureIsTold'
    <3>1. run'.status = "EXECUTING" => run.status = "EXECUTING"
      BY DEF Moved
    <3>2. pages' = pages \/ (page.status = "FAILED" => run'.status # "EXECUTING")
      OBVIOUS
    <3>3. \A q \in Pages : pages'[q] = IF q = p THEN page ELSE pages[q]
      BY DEF TypeOK
    <3>. QED BY <3>1, <3>2, <3>3 DEF FailureIsTold, UInv
  <2>3. SealedAtEnd'
    <3>1. CASE pages' = pages
      BY <2>1, <3>1 DEF SealedAtEnd, Sealed, UInv, UnitsIn
    <3>2. CASE ~Sealed
      BY <3>2 DEF SealedAtEnd, UInv
    <3>. QED BY <3>1, <3>2
  <2>4. CommittedIsExact'
    BY <1>5, <2>1 DEF CommittedIsExact, UInv, BudgetCommitted, SettlementFinal
  <2>. QED BY <2>2, <2>3, <2>4 DEF UInv
<1>. QED BY <1>1, <1>3, <1>4, <1>5, <1>6, <1>7, <1>8

\* The points at which nothing is asked of the host.
Plain == {"idle", "reconciling", "submitted", "refreshing", "finalizing", "finalized"}

\* A step of the worker that commits nothing and asks nobody.
LEMMA WorkerMoves ==
  ASSUME IInv, UNCHANGED <<pages, host, provider>>, faults' \in 0..MaxFaults,
         tick' \in {"none", "advance", "reconcile", "terminal"}, pc' \in Plain,
         job' \in [Pages -> Jobs],
         \A p \in Pages : \/ job'[p] \in {job[p], "none"}
                          \/ job'[p] = "refresh" /\ pages[p].status \in PendingMedia,
         instruction' \in [settled: 0..Units, released: 0..Units], seenBudget' \in 0..MaxBudget,
         \/ batch' = batch
         \/ batch' = Refreshed(batch) /\ (Undisturbed => batch.reserved \/ Dead(run)),
         Moved(run, run', batch, pages) \/ Moved(run, run', batch', pages),
         Undisturbed => FailureIsTold'
  PROVE  IInv'
<1>. USE DEF IInv
<1>1. run' \in RunRow /\ run'.committed = run.committed /\ run'.committed <= run'.budget
      /\ RecoveryFits(run')
  BY MovedRun
<1>2. /\ batch' \in BatchRow /\ batch'.reserved = batch.reserved
      /\ batch'.authorization = batch.authorization /\ batch'.settlement = batch.settlement
      /\ batch'.settled = batch.settled /\ batch'.released = batch.released
      /\ batch'.step \in {"RESERVED", "RESERVATION_UNKNOWN"} =>
           BudgetCommitted \/ batch.authorization = "UNKNOWN"
      /\ batch.reserved => batch'.step \in {"RUNNING", "BILLING_UNKNOWN", "COMPLETED"}
  BY RefreshedBatch DEF TypeOK, BatchFits, BudgetCommitted
<1>3. TypeOK'
  BY <1>1, <1>2 DEF TypeOK, Points, Plain
<1>4. PagesFit'
  BY <1>2, PagesStay
<1>5. BatchFits' /\ RecordMatchesHost'
  BY <1>2 DEF BatchFits, RecordMatchesHost, SettlementFinal, Plain, Opening, Closing
<1>6. Covered'
  BY <1>1, <1>2 DEF Covered, SettlementFinal, BudgetCommitted, Plain
<1>7. FailedIsFrozen'
  <2>. SUFFICES ASSUME run'.status = "FAILED" PROVE Frozen(run', batch', pages)
    BY DEF FailedIsFrozen
  <2>1. CASE run.status = "FAILED"
    BY <1>1, <1>2, <2>1 DEF FailedIsFrozen, Frozen, SettlementFinal
  <2>2. CASE AccountingFinal(run, batch', pages)
    <3>1. \A p \in Pages : pages[p].status # "NONE" => batch.reserved
      BY DEF PagesFit, PageFits
    <3>2. Frozen(run, batch', pages)
      BY <1>2, <2>2, <3>1, FinalIsFrozen
    <3>. QED BY <1>1, <3>2 DEF Frozen
  <2>3. CASE AccountingFinal(run, batch, pages)
    <3>1. Frozen(run, batch, pages)
      BY <2>3, FinalIsFrozen DEF PagesFit, PageFits, BatchFits
    <3>. QED BY <1>1, <1>2, <3>1 DEF Frozen, SettlementFinal
  <2>. QED BY <2>1, <2>2, <2>3 DEF Moved
<1>8. ASSUME Undisturbed PROVE UInv'
  <2>. USE <1>8
  <2>1. Dead(run) => Dead(run')
    BY DEF Moved
  <2>2. SealedAtEnd'
    BY <2>1 DEF SealedAtEnd, Sealed, UInv, UnitsIn, Plain, Closing
  <2>3. ~batch.reserved /\ run.committed # 0 => Dead(run') \/ BudgetCommitted'
    BY <2>1 DEF CommittedIsExact, UInv, BudgetCommitted
  <2>4. CommittedIsExact'
    BY <1>1, <1>2, <2>3 DEF CommittedIsExact, UInv, SettlementFinal
  <2>. QED BY <2>2, <2>4 DEF UInv
<1>. QED BY <1>1, <1>3, <1>4, <1>5, <1>6, <1>7, <1>8

\* What the tick ends with.
LEMMA EndTickKeeps ==
  ASSUME IInv, EndTick, UNCHANGED <<batch, pages, external>>, faults' \in 0..MaxFaults,
         Moved(run, run', batch, pages)
  PROVE  IInv'
<1>1. /\ 0 \in 0..MaxBudget
      /\ [settled |-> 0, released |-> 0] \in [settled: 0..Units, released: 0..Units]
  BY UnitsType, BatchAssumption
<1>2. FailureIsTold'
  BY DEF EndTick, FailureIsTold, After, Closing
<1>3. job' \in [Pages -> Jobs] /\ \A p \in Pages : job'[p] = "none"
  BY DEF EndTick, Jobs
<1>. QED
  BY <1>1, <1>2, <1>3, WorkerMoves DEF EndTick, Plain, external, NoInstruction

-----------------------------------------------------------------------------
(* The steps of the worker, in the order of the module. *)

LEMMA StartTickStep == ASSUME IInv, StartTick PROVE IInv'
<1>1. run' = run /\ batch' = batch /\ Moved(run, run', batch', pages)
  BY MovesNot DEF IInv, TypeOK, StartTick, durable
<1>2. job' \in [Pages -> Jobs]
  BY DEF StartTick, Jobs
<1>3. FailureIsTold'
  BY DEF StartTick, FailureIsTold, After, Closing
<1>. QED
  BY <1>1, <1>2, <1>3, WorkerMoves DEF StartTick, IInv, TypeOK, Plain, durable, external

LEMMA StartTerminalStep == ASSUME IInv, StartTerminalReconciliation PROVE IInv'
<1>1. Dead(run)
  BY DEF StartTerminalReconciliation, TerminalReconcilable, Dead
<1>2. Moved(run, run', batch', pages)
  BY MovesNot DEF IInv, TypeOK, StartTerminalReconciliation
<1>3. FailureIsTold'
  BY <1>1 DEF StartTerminalReconciliation, FailureIsTold, Dead
<1>. QED
  BY <1>1, <1>2, <1>3, WorkerMoves DEF StartTerminalReconciliation, IInv, TypeOK, Plain, external

\* The Run alone changes, under the worker or with the end of its tick.
LEMMA RunChanges ==
  ASSUME IInv, UNCHANGED <<batch, pages, external>>, faults' \in 0..MaxFaults,
         UNCHANGED worker \/ EndTick,
         run' \in RunRow, run'.committed = run.committed, run'.committed <= run'.budget,
         RecoveryFits(run'), run'.status = "FAILED" => run.status = "FAILED",
         Undisturbed => (Dead(run) => Dead(run')),
         Undisturbed /\ run'.status = "EXECUTING" => run.status = "EXECUTING" \/ EndTick
  PROVE  IInv'
<1>. USE DEF IInv
<1>1. /\ 0 \in 0..MaxBudget
      /\ [settled |-> 0, released |-> 0] \in [settled: 0..Units, released: 0..Units]
  BY UnitsType, BatchAssumption
<1>2. TypeOK'
  BY <1>1 DEF TypeOK, external, worker, EndTick, NoInstruction, Points, Jobs
<1>3. PagesFit'
  <2>1. \A p \in Pages : job'[p] \in {job[p], "none"}
    BY DEF EndTick, worker
  <2>. QED BY <2>1, PagesStay DEF external
<1>4. UNCHANGED pc \/ pc' = "idle"
  BY DEF EndTick, worker
<1>5. BatchFits' /\ RecordMatchesHost'
  BY <1>4 DEF BatchFits, RecordMatchesHost, SettlementFinal, Opening, Closing, Executed, external,
              worker, EndTick
<1>6. Covered'
  BY <1>4 DEF Covered, SettlementFinal, BudgetCommitted, external
<1>7. FailedIsFrozen'
  BY DEF FailedIsFrozen, Frozen
<1>8. ASSUME Undisturbed PROVE UInv'
  <2>. USE <1>8
  <2>1. FailureIsTold'
    BY <1>4 DEF FailureIsTold, UInv, After, Closing, worker, EndTick
  <2>2. SealedAtEnd'
    BY <1>4 DEF SealedAtEnd, Sealed, UInv, UnitsIn, Closing, external, worker, EndTick
  <2>3. CommittedIsExact'
    BY DEF CommittedIsExact, UInv, SettlementFinal, BudgetCommitted
  <2>. QED BY <2>1, <2>2, <2>3 DEF UInv
<1>. QED BY <1>2, <1>3, <1>5, <1>6, <1>7, <1>8

LEMMA ResumeRecoveryStep == ASSUME IInv, ResumeRecovery PROVE IInv'
<1>1. run \in RunRow /\ run.committed <= run.budget /\ faults \in 0..MaxFaults
  BY DEF IInv, TypeOK
<1>2. /\ run' \in RunRow /\ run'.committed = run.committed /\ run'.budget = run.budget
      /\ run'.status = "EXECUTING" /\ ~run'.pendingFailure
  BY <1>1 DEF ResumeRecovery, RunRow
<1>3. ~Dead(run) /\ RecoveryFits(run')
  BY <1>2 DEF ResumeRecovery, Dead, RecoveryFits
<1>. QED
  BY <1>1, <1>2, <1>3, RunChanges DEF ResumeRecovery

LEMMA ReconciliationOnlyStep == ASSUME IInv, ReconciliationOnly PROVE IInv'
<1>1. Moved(run, run', batch, pages) /\ run' = run
  BY MovesNot DEF IInv, TypeOK, ReconciliationOnly, durable
<1>. QED
  BY <1>1, EndTickKeeps DEF ReconciliationOnly, IInv, TypeOK, durable

\* Between the points that ask nobody, with the Run, the batch or both.
LEMMA GotoKeeps ==
  ASSUME IInv, UNCHANGED <<pages, external>>, faults' \in 0..MaxFaults,
         NEW point \in Plain, Goto(point),
         \/ batch' = batch
         \/ batch' = Refreshed(batch) /\ (Undisturbed => batch.reserved \/ Dead(run)),
         Moved(run, run', batch, pages) \/ Moved(run, run', batch', pages),
         Undisturbed => FailureIsTold'
  PROVE  IInv'
  BY WorkerMoves DEF Goto, IInv, TypeOK, external

LEMMA SubmissionBlockedStep == ASSUME IInv, SubmissionBlocked PROVE IInv'
<1>1. Moved(run, run', batch, pages) /\ run'.status # "EXECUTING"
  BY RequireHumanMoves DEF IInv, TypeOK, SubmissionBlocked
<1>2. FailureIsTold'
  BY <1>1 DEF SubmissionBlocked, Goto, FailureIsTold
<1>. QED
  BY <1>1, <1>2, GotoKeeps DEF SubmissionBlocked, Plain, IInv, TypeOK

LEMMA NothingToSubmitStep == ASSUME IInv, NothingToSubmit PROVE IInv'
<1>1. Moved(run, run', batch', pages)
  BY MovesNot DEF IInv, TypeOK, NothingToSubmit
<1>2. \A p \in Pages : pages[p].status \notin {"NONE", "FAILED"}
  BY DEF NothingToSubmit, Unsubmitted
<1>3. batch.reserved
  BY <1>2, BatchAssumption DEF IInv, PagesFit, PageFits
<1>4. batch'.reserved
  BY <1>3, RefreshedBatch DEF NothingToSubmit, IInv, TypeOK
<1>5. FailureIsTold'
  BY <1>2, <1>4 DEF NothingToSubmit, Goto, FailureIsTold
<1>. QED
  BY <1>1, <1>3, <1>5, GotoKeeps DEF NothingToSubmit, Plain, IInv, TypeOK

LEMMA PauseForBudgetStep == ASSUME IInv, PauseForBudget PROVE IInv'
<1>1. run \in RunRow /\ RecoveryFits(run)
  BY DEF IInv, TypeOK
<1>2. Moved(run, run', batch, pages) /\ run'.status # "EXECUTING"
  <2>1. CASE run' = run /\ run.status # "EXECUTING"
    BY <1>1, <2>1, MovesNot
  <2>2. CASE run' = [run EXCEPT !.status = "PAUSED"] /\ run.status = "EXECUTING"
    BY <1>1, <2>2 DEF Moved, RunRow, Dead, RecoveryFits
  <2>. QED BY <2>1, <2>2 DEF PauseForBudget
<1>3. FailureIsTold'
  BY <1>2 DEF PauseForBudget, Goto, FailureIsTold
<1>. QED
  BY <1>2, <1>3, GotoKeeps DEF PauseForBudget, Plain, IInv, TypeOK

LEMMA CommitBudgetThrowsStep == ASSUME IInv, CommitBudgetThrows PROVE IInv'
<1>1. Moved(run, run', batch, pages) /\ run' = run
  BY MovesNot DEF IInv, TypeOK, CommitBudgetThrows, durable
<1>. QED
  BY <1>1, EndTickKeeps DEF CommitBudgetThrows, IInv, TypeOK, durable

LEMMA EndDispatchStep == ASSUME IInv, EndDispatch PROVE IInv'
<1>1. batch.reserved /\ batch' = Refreshed(batch) /\ batch'.reserved
  BY RefreshedBatch DEF EndDispatch, Advancing, At, IInv, TypeOK, BatchFits
<1>2. /\ Moved(run, run', batch, pages)
      /\ run'.status = "EXECUTING" => \A p \in Pages : pages[p].status # "FAILED"
  <2>1. CASE run' = run /\ (Failing = {} \/ run.status \in {"PAUSED", "CANCELLED"})
    <3>1. Moved(run, run', batch, pages)
      BY <2>1, MovesNot DEF IInv, TypeOK
    <3>. QED BY <2>1, <3>1 DEF Failing, MediaFailure
  <2>2. CASE \E p \in Failing : run' = RequireHuman(run, batch, pages, p)
    BY <2>2, RequireHumanMoves DEF IInv, TypeOK
  <2>. QED BY <2>1, <2>2 DEF EndDispatch
<1>3. FailureIsTold'
  BY <1>1, <1>2 DEF EndDispatch, Goto, FailureIsTold
<1>. QED
  BY <1>1, <1>2, <1>3, GotoKeeps DEF EndDispatch, Plain, IInv, TypeOK

LEMMA StartRefreshStep == ASSUME IInv, StartRefresh PROVE IInv'
<1>1. Moved(run, run', batch, pages) /\ run' = run /\ batch' = batch
  BY MovesNot DEF IInv, TypeOK, StartRefresh, durable
<1>2. job' \in [Pages -> Jobs] /\ "WAITING" \in PendingMedia
  BY DEF StartRefresh, StartJobs, Jobs, PendingMedia
<1>3. \A p \in Pages : job'[p] = "none" \/ (job'[p] = "refresh" /\ pages[p].status \in PendingMedia)
  BY <1>2 DEF StartRefresh, StartJobs
<1>4. Undisturbed => FailureIsTold'
  BY <1>1 DEF StartRefresh, Advancing, At, StartJobs, FailureIsTold, IInv, UInv, After, durable
<1>. QED
  BY <1>1, <1>2, <1>3, <1>4, WorkerMoves
     DEF StartRefresh, StartJobs, Plain, IInv, TypeOK, durable, external

LEMMA RefreshSkippedStep == ASSUME IInv, RefreshSkipped PROVE IInv'
<1>1. Moved(run, run', batch, pages) /\ run' = run
  BY MovesNot DEF IInv, TypeOK, RefreshSkipped, durable
<1>. QED
  BY <1>1, EndTickKeeps DEF RefreshSkipped, IInv, TypeOK, durable

LEMMA EndRefreshStep == ASSUME IInv, EndRefresh PROVE IInv'
<1>1. Moved(run, run', batch, pages) /\ run' = run
  BY MovesNot DEF IInv, TypeOK, EndRefresh
<1>2. Undisturbed => batch.reserved
  BY DEF EndRefresh, Advancing, At, IInv, UInv, FailureIsTold
<1>3. Undisturbed => FailureIsTold'
  BY <1>1 DEF EndRefresh, Advancing, At, Goto, FailureIsTold, IInv, UInv, After
<1>. QED
  BY <1>1, <1>2, <1>3, GotoKeeps DEF EndRefresh, Plain, IInv, TypeOK

LEMMA EndExecutionStep == ASSUME IInv, EndExecution PROVE IInv'
<1>1. run \in RunRow /\ RecoveryFits(run)
  BY DEF IInv, TypeOK
<1>2. Moved(run, run', batch, pages)
  <2>1. CASE \E p \in Failing : run' = RequireHuman(run, batch, pages, p)
    BY <1>1, <2>1, RequireHumanMoves
  <2>2. CASE run' = run
    BY <1>1, <2>2, MovesNot
  <2>3. CASE run.status = "EXECUTING" /\ run' = [run EXCEPT !.status = "PAGE_REVIEW"]
    BY <1>1, <2>3 DEF Moved, RunRow, Dead, RecoveryFits
  <2>. QED BY <2>1, <2>2, <2>3 DEF EndExecution
<1>. QED
  BY <1>2, EndTickKeeps DEF EndExecution, IInv, TypeOK

LEMMA EndTerminalStep == ASSUME IInv, EndTerminalReconciliation PROVE IInv'
<1>1. Moved(run, run', batch, pages)
  BY ReconcileMoves DEF EndTerminalReconciliation, IInv, TypeOK
<1>. QED
  BY <1>1, EndTickKeeps DEF EndTerminalReconciliation, IInv, TypeOK

\* WorkerFatal and Crash.
LEMMA FaultSteps == ASSUME IInv, WorkerFatal \/ Crash PROVE IInv'
<1>1. Moved(run, run', batch, pages)
  BY FailRunMoves, MovesNot DEF WorkerFatal, Crash, durable, IInv, TypeOK
<1>2. faults' \in 0..MaxFaults
  BY BatchAssumption DEF WorkerFatal, Crash, Fault, IInv, TypeOK
<1>. QED
  BY <1>1, <1>2, EndTickKeeps DEF WorkerFatal, Crash, durable

-----------------------------------------------------------------------------
(* The steps about the authorization. *)

LEMMA PlanSubmissionStep == ASSUME IInv, PlanSubmission PROVE IInv'
<1>. USE DEF IInv
<1>1. /\ run' = run /\ pages' = pages /\ host' = host /\ provider' = provider /\ faults' = faults
      /\ tick' = tick /\ instruction' = instruction /\ run.status = "EXECUTING"
      /\ pc = "reconciling"
  BY DEF PlanSubmission, ReadyToSubmit, Advancing, At, external
<1>2. /\ batch' \in BatchRow /\ batch'.reserved = batch.reserved
      /\ batch'.authorization = batch.authorization /\ batch'.settlement = batch.settlement
      /\ batch'.settled = batch.settled /\ batch'.released = batch.released
      /\ batch'.step = batch.step \/ batch'.step = "RUNNING"
      /\ BudgetCommitted' <=> BudgetCommitted
  BY DEF PlanSubmission, TypeOK, BatchRow, BudgetCommitted
<1>3. seenBudget' \in 0..MaxBudget
  BY BatchAssumption DEF PlanSubmission, TypeOK, RunRow
<1>4. \/ batch.reserved /\ pc' = "dispatching"
         /\ job' = [p \in Pages |-> IF pages[p].status \in Unsubmitted THEN "submit" ELSE "none"]
      \/ ~batch.reserved /\ pc' = "preflight" /\ job' = job
  BY DEF PlanSubmission
<1>5. TypeOK'
  BY <1>1, <1>2, <1>3, <1>4 DEF TypeOK, Points, Jobs
<1>6. PagesFit'
  BY <1>1, <1>2, <1>4, PagesStay
<1>7. BatchFits' /\ RecordMatchesHost'
  BY <1>1, <1>2, <1>4 DEF BatchFits, RecordMatchesHost, SettlementFinal, Opening, Closing
<1>8. Covered'
  BY <1>1, <1>2, <1>4 DEF Covered, SettlementFinal
<1>9. FailedIsFrozen'
  BY <1>1 DEF FailedIsFrozen
<1>10. ASSUME Undisturbed PROVE UInv'
  <2>1. FailureIsTold'
    BY <1>4 DEF FailureIsTold, After, Closing
  <2>2. SealedAtEnd'
    BY <1>1, <1>4, <1>10 DEF SealedAtEnd, Sealed, UInv, UnitsIn, Closing
  <2>3. CommittedIsExact'
    BY <1>1, <1>2, <1>10 DEF CommittedIsExact, UInv, SettlementFinal
  <2>. QED BY <2>1, <2>2, <2>3 DEF UInv
<1>. QED BY <1>1, <1>5, <1>6, <1>7, <1>8, <1>9, <1>10

\* The preflight of the finalization is answered.
LEMMA PreflightAnsweredStep ==
  ASSUME IInv, Advancing("preflight"), Goto("reserving"), UNCHANGED <<durable, external, faults>>
  PROVE  IInv'
<1>. USE DEF IInv, Goto, durable, external
<1>1. TypeOK'
  BY DEF TypeOK, Points
<1>2. PagesFit'
  BY PagesStay
<1>3. BatchFits' /\ RecordMatchesHost' /\ Covered' /\ FailedIsFrozen'
  BY DEF BatchFits, RecordMatchesHost, Covered, FailedIsFrozen, SettlementFinal, Opening, Closing,
         Advancing, At, BudgetCommitted
<1>4. ASSUME Undisturbed PROVE UInv'
  BY <1>4 DEF UInv, FailureIsTold, SealedAtEnd, Sealed, UnitsIn, CommittedIsExact, After, Closing,
              SettlementFinal, BudgetCommitted
<1>. QED BY <1>1, <1>2, <1>3, <1>4

\* The preflight is refused or its answer lost: the Run recovers or fails.
LEMMA PreflightFailedStep ==
  ASSUME IInv, Advancing("preflight"), UNCHANGED <<pages, external>>, Goto("submitted"),
         Fault("UNKNOWN"),
         NEW answer \in PreflightAnswers \ {"OK"}, NEW b,
         b = [batch EXCEPT !.step = "FAILED", !.authorization = "REJECTED",
                           !.settlement = IF answer = "REJECTED" THEN "RELEASED" ELSE "NOT_READY",
                           !.released = IF answer = "REJECTED" THEN Units ELSE 0],
         batch' = b,
         run' = BeginRecovery(run, b, pages,
                              IF answer = "REJECTED" THEN "NON_RETRYABLE" ELSE "RETRYABLE")
  PROVE  IInv'
<1>. USE DEF IInv
<1>1. b \in BatchRow /\ b.step = "FAILED" /\ b.authorization = "REJECTED"
      /\ b.reserved = batch.reserved
  <2>1. (IF answer = "REJECTED" THEN Units ELSE 0) \in 0..Units
    BY UnitsType
  <2>. QED BY <2>1 DEF TypeOK, BatchRow
<1>2. Moved(run, run', b, pages) /\ ~batch.reserved
  BY RecoveryMoves DEF TypeOK, BatchFits, Advancing, At, Opening
<1>3. run' \in RunRow /\ run'.committed = run.committed /\ run'.committed <= run'.budget
      /\ RecoveryFits(run')
  BY <1>2, MovedRun
<1>4. faults' \in 0..MaxFaults
  BY BatchAssumption DEF Fault, TypeOK
<1>5. TypeOK'
  BY <1>1, <1>3, <1>4 DEF TypeOK, Points, Goto, external
<1>6. PagesFit'
  BY <1>1, PagesStay DEF Goto, external
<1>7. BatchFits' /\ RecordMatchesHost'
  BY <1>1, <1>2 DEF BatchFits, RecordMatchesHost, Opening, Closing, Goto, external
<1>8. Covered'
  BY <1>1, <1>2, <1>3 DEF Covered, BudgetCommitted, Goto, external
<1>9. FailedIsFrozen'
  <2>. SUFFICES ASSUME run'.status = "FAILED" PROVE Frozen(run', b, pages)
    BY DEF FailedIsFrozen
  <2>1. CASE run.status = "FAILED"
    BY <1>1, <1>2, <1>3, <2>1 DEF FailedIsFrozen, Frozen
  <2>2. CASE AccountingFinal(run, b, pages)
    <3>1. Frozen(run, b, pages)
      BY <1>1, <1>2, <2>2, FinalIsFrozen DEF PagesFit, PageFits
    <3>. QED BY <1>3, <3>1 DEF Frozen
  <2>. QED BY <1>2, <2>1, <2>2 DEF Moved
<1>10. ~Undisturbed
  BY DEF Undisturbed
<1>. QED BY <1>3, <1>5, <1>6, <1>7, <1>8, <1>9, <1>10

LEMMA PreflightStep == ASSUME IInv, Preflight PROVE IInv'
<1>1. CASE Goto("reserving") /\ UNCHANGED <<run, batch, faults>>
  BY <1>1, PreflightAnsweredStep DEF Preflight, durable
<1>2. CASE ~(Goto("reserving") /\ UNCHANGED <<run, batch, faults>>)
  BY <1>2, PreflightFailedStep DEF Preflight
<1>. QED BY <1>1, <1>2

LEMMA CommitBudgetStep == ASSUME IInv, CommitBudget PROVE IInv'
<1>. USE DEF IInv
<1>1. /\ pages' = pages /\ host' = host /\ provider' = provider /\ faults' = faults
      /\ tick' = tick /\ job' = job /\ instruction' = instruction /\ seenBudget' = seenBudget
      /\ pc = "reserving" /\ pc' = "callReserve" /\ ~batch.reserved
  BY DEF CommitBudget, Advancing, At, Goto, external, BatchFits, Opening
<1>2. \/ BudgetCommitted /\ run' = run /\ batch' = batch
      \/ /\ ~BudgetCommitted /\ run.status = "EXECUTING" /\ Units <= run.budget - run.committed
         /\ run' = [run EXCEPT !.committed = @ + Units]
         /\ batch' = [batch EXCEPT !.step = "RESERVED", !.authorization = "PENDING",
                                   !.settlement = "NOT_READY", !.committed = Units]
  BY DEF CommitBudget
<1>3. /\ run' \in RunRow /\ run'.committed <= run'.budget /\ RecoveryFits(run')
      /\ run'.committed >= Units /\ run'.status = run.status
      /\ Dead(run) => Dead(run')
      /\ run' # run => run'.committed = run.committed + Units
  <2>1. CASE run' = run /\ BudgetCommitted
    BY <2>1 DEF TypeOK, Covered
  <2>2. CASE run' = [run EXCEPT !.committed = @ + Units] /\ Units <= run.budget - run.committed
             /\ run.status = "EXECUTING"
    <3>0. run.committed \in Nat /\ run.budget \in Nat /\ run.budget <= MaxBudget
      BY BatchAssumption DEF TypeOK, RunRow
    <3>2. run.committed + Units <= run.budget
      BY <2>2, <3>0, UnitsType
    <3>1. run.committed + Units \in 0..MaxBudget /\ run.committed + Units >= Units
      BY <3>0, <3>2, UnitsType, BatchAssumption
    <3>3. /\ run' \in RunRow /\ run'.committed = run.committed + Units /\ run'.budget = run.budget
          /\ run'.status = run.status /\ run'.pendingFailure = run.pendingFailure
          /\ run'.recovery = run.recovery
      BY <2>2, <3>1 DEF TypeOK, RunRow
    <3>. QED BY <3>1, <3>2, <3>3 DEF RecoveryFits, Dead
  <2>. QED BY <1>2, <2>1, <2>2
<1>4. /\ batch' \in BatchRow /\ batch'.reserved = batch.reserved
      /\ BudgetCommitted'
  <2>1. CASE batch' = batch /\ BudgetCommitted
    BY <2>1 DEF TypeOK, BudgetCommitted
  <2>2. CASE batch' = [batch EXCEPT !.step = "RESERVED", !.authorization = "PENDING",
                                    !.settlement = "NOT_READY", !.committed = Units]
    <3>1. Units \in 0..Units
      BY UnitsType
    <3>2. batch' \in BatchRow /\ batch'.reserved = batch.reserved /\ batch'.step = "RESERVED"
      BY <2>2, <3>1 DEF TypeOK, BatchRow
    <3>. QED BY <3>2 DEF BudgetCommitted
  <2>. QED BY <1>2, <2>1, <2>2
<1>5. TypeOK'
  BY <1>1, <1>3, <1>4 DEF TypeOK, Points
<1>6. PagesFit'
  BY <1>1, <1>4, PagesStay
<1>7. BatchFits' /\ RecordMatchesHost'
  BY <1>1, <1>4 DEF BatchFits, RecordMatchesHost, Opening, Closing
<1>8. Covered'
  BY <1>3 DEF Covered
<1>9. FailedIsFrozen'
  <2>1. run.status # "FAILED"
    BY <1>1, <1>2, UnitsType DEF FailedIsFrozen, Frozen, Covered
  <2>. QED BY <1>3, <2>1 DEF FailedIsFrozen
<1>10. ASSUME Undisturbed PROVE UInv'
  <2>1. FailureIsTold'
    BY <1>1 DEF FailureIsTold, After, Closing
  <2>2. SealedAtEnd'
    BY <1>1, <1>3, <1>10 DEF SealedAtEnd, Sealed, UInv, UnitsIn, Closing
  <2>3. run'.committed \in {0, Units}
    <3>1. run.committed \in {0, Units} /\ (run.committed # 0 => Dead(run) \/ BudgetCommitted)
      BY <1>1, <1>10 DEF UInv, CommittedIsExact
    <3>2. CASE run' = run
      BY <3>1, <3>2
    <3>3. CASE run' # run
      <4>1. run.committed = 0
        BY <1>2, <3>1, <3>3 DEF Dead
      <4>. QED BY <1>3, <3>3, <4>1, UnitsType
    <3>. QED BY <3>2, <3>3
  <2>4. CommittedIsExact'
    BY <1>1, <1>4, <2>3 DEF CommittedIsExact
  <2>. QED BY <2>1, <2>2, <2>4 DEF UInv
<1>. QED BY <1>3, <1>5, <1>6, <1>7, <1>8, <1>9, <1>10

LEMMA HostReservesStep == ASSUME IInv, HostReserves PROVE IInv'
<1>. USE DEF IInv
<1>1. /\ run' = run /\ batch' = batch /\ pages' = pages /\ provider' = provider
      /\ tick' = tick /\ job' = job /\ instruction' = instruction /\ seenBudget' = seenBudget
      /\ pc = "callReserve" /\ ~batch.reserved
  BY DEF HostReserves, Advancing, At, Goto, durable, BatchFits, Opening
<1>2. host.state # "finalized" /\ host \in HostRow
  BY <1>1 DEF BatchFits, TypeOK
<1>3. \/ host' = Held /\ pc' = "reserved" /\ faults' = faults
      \/ host' = host /\ host.state = "none" /\ pc' = "refused" /\ faults' = faults
      \/ host' \in {host, Held} /\ pc' = "reserveUnknown" /\ faults' \in 0..MaxFaults
  BY BatchAssumption DEF HostReserves, Goto, Fault, TypeOK
<1>4. Held \in HostRow /\ Held.state = "held"
  BY <1>2 DEF Held, HostRow
<1>5. TypeOK'
  BY <1>1, <1>2, <1>3, <1>4 DEF TypeOK, Points
<1>6. PagesFit'
  BY <1>1, PagesStay
<1>7. BatchFits' /\ RecordMatchesHost'
  BY <1>1, <1>2, <1>3, <1>4 DEF BatchFits, RecordMatchesHost, Opening, Closing
<1>8. Covered' /\ FailedIsFrozen'
  BY <1>1 DEF Covered, FailedIsFrozen
<1>9. ASSUME Undisturbed PROVE UInv'
  <2>1. FailureIsTold'
    BY <1>3 DEF FailureIsTold, After, Closing
  <2>2. SealedAtEnd'
    BY <1>2, <1>3, <1>4 DEF SealedAtEnd, Closing
  <2>3. CommittedIsExact'
    BY <1>1, <1>9 DEF CommittedIsExact, UInv, SettlementFinal, BudgetCommitted
  <2>. QED BY <2>1, <2>2, <2>3 DEF UInv
<1>. QED BY <1>1, <1>5, <1>6, <1>7, <1>8, <1>9

LEMMA RecordReservedStep == ASSUME IInv, RecordReserved PROVE IInv'
<1>. USE DEF IInv
<1>1. /\ run' = run /\ pages' = pages /\ host' = host /\ provider' = provider /\ faults' = faults
      /\ tick' = tick /\ instruction' = instruction /\ seenBudget' = seenBudget
      /\ pc = "reserved" /\ pc' = "dispatching" /\ ~batch.reserved
      /\ job' = [p \in Pages |-> IF pages[p].status \in Unsubmitted THEN "submit" ELSE "none"]
  BY DEF RecordReserved, Advancing, At, StartJobs, external, BatchFits, Opening
<1>2. host.state # "finalized" /\ host.state # "none" /\ run.committed >= Units
  BY <1>1 DEF BatchFits, Covered
<1>3. /\ batch' \in BatchRow /\ batch'.reserved /\ batch'.authorization = "RESERVED"
      /\ batch'.step = "RUNNING" /\ ~SettlementFinal(batch')
  <2>1. Units \in 0..Units
    BY UnitsType
  <2>. QED BY <2>1 DEF RecordReserved, TypeOK, BatchRow, SettlementFinal
<1>4. TypeOK'
  BY <1>1, <1>3 DEF TypeOK, Points, Jobs
<1>5. PagesFit'
  BY <1>1, <1>3, PagesStay
<1>6. BatchFits' /\ RecordMatchesHost'
  BY <1>1, <1>2, <1>3 DEF BatchFits, RecordMatchesHost, Opening, Closing
<1>7. Covered'
  BY <1>1, <1>2 DEF Covered
<1>8. FailedIsFrozen'
  <2>1. run.status # "FAILED"
    BY <1>1, <1>2, UnitsType DEF FailedIsFrozen, Frozen
  <2>. QED BY <1>1, <2>1 DEF FailedIsFrozen
<1>9. ASSUME Undisturbed PROVE UInv'
  <2>1. FailureIsTold'
    BY <1>1 DEF FailureIsTold, After, Closing
  <2>2. SealedAtEnd'
    BY <1>1, <1>2 DEF SealedAtEnd, Closing
  <2>3. run.committed = Units
    BY <1>1, <1>2, <1>9, UnitsType DEF CommittedIsExact, UInv
  <2>4. CommittedIsExact'
    BY <1>1, <1>3, <2>3 DEF CommittedIsExact
  <2>. QED BY <2>1, <2>2, <2>4 DEF UInv
<1>. QED BY <1>1, <1>4, <1>5, <1>6, <1>7, <1>8, <1>9

LEMMA RecordRefusedStep == ASSUME IInv, RecordRefused PROVE IInv'
<1>. USE DEF IInv
<1>1. /\ pages' = pages /\ host' = host /\ provider' = provider /\ faults' = faults
      /\ tick' = tick /\ instruction' = instruction /\ seenBudget' = seenBudget /\ job' = job
      /\ pc = "refused" /\ pc' = "submitted" /\ ~batch.reserved
  BY DEF RecordRefused, Advancing, At, Goto, external, BatchFits, Opening
<1>2. host.state = "none" /\ run.committed >= Units
  BY <1>1 DEF BatchFits, Covered
<1>3. run.status # "FAILED"
  BY <1>1, <1>2, UnitsType DEF FailedIsFrozen, Frozen
<1>4. /\ run' \in RunRow /\ run'.committed <= run'.budget /\ RecoveryFits(run')
      /\ run'.status \notin {"EXECUTING", "FAILED"} /\ run'.committed = run.committed - Units
      /\ Dead(run) => Dead(run')
  <2>1. run.committed \in 0..MaxBudget /\ run.budget \in 0..MaxBudget /\ run.committed <= run.budget
    BY DEF TypeOK, RunRow
  <2>2. run.committed - Units \in 0..MaxBudget /\ run.committed - Units <= run.budget
    BY <1>2, <2>1, UnitsType, BatchAssumption
  <2>3. run' = [run EXCEPT !.committed = run.committed - Units,
                           !.status = IF run.status = "EXECUTING" THEN "PAUSED" ELSE run.status]
    BY DEF RecordRefused, TypeOK, RunRow
  <2>4. /\ run' \in RunRow /\ run'.committed = run.committed - Units /\ run'.budget = run.budget
        /\ run'.status = (IF run.status = "EXECUTING" THEN "PAUSED" ELSE run.status)
        /\ run'.recovery = run.recovery /\ run'.pendingFailure = run.pendingFailure
    BY <2>2, <2>3 DEF TypeOK, RunRow
  <2>. QED BY <1>3, <2>2, <2>4 DEF RecoveryFits, Dead
<1>5. /\ batch' \in BatchRow /\ ~batch'.reserved /\ batch'.authorization = "REJECTED"
      /\ batch'.step = "FAILED"
  <2>1. 0 \in 0..Units
    BY UnitsType
  <2>. QED BY <1>1, <2>1 DEF RecordRefused, TypeOK, BatchRow
<1>6. TypeOK'
  BY <1>1, <1>4, <1>5 DEF TypeOK, Points
<1>7. PagesFit'
  BY <1>1, <1>5, PagesStay
<1>8. BatchFits' /\ RecordMatchesHost'
  BY <1>1, <1>2, <1>5 DEF BatchFits, RecordMatchesHost, Opening, Closing
<1>9. Covered'
  BY <1>1, <1>2, <1>5 DEF Covered, BudgetCommitted
<1>10. FailedIsFrozen'
  BY <1>4 DEF FailedIsFrozen
<1>11. ASSUME Undisturbed PROVE UInv'
  <2>1. FailureIsTold'
    BY <1>1, <1>4 DEF FailureIsTold
  <2>2. SealedAtEnd'
    BY <1>1, <1>2 DEF SealedAtEnd, Closing
  <2>3. run'.committed = 0
    BY <1>1, <1>2, <1>4, <1>11, UnitsType DEF CommittedIsExact, UInv
  <2>4. CommittedIsExact'
    BY <1>5, <2>3 DEF CommittedIsExact
  <2>. QED BY <2>1, <2>2, <2>4 DEF UInv
<1>. QED BY <1>4, <1>6, <1>7, <1>8, <1>9, <1>10, <1>11

LEMMA RecordReserveUnknownStep == ASSUME IInv, RecordReserveUnknown PROVE IInv'
<1>. USE DEF IInv
<1>1. /\ pages' = pages /\ host' = host /\ provider' = provider /\ faults' = faults
      /\ tick' = tick /\ instruction' = instruction /\ seenBudget' = seenBudget /\ job' = job
      /\ pc = "reserveUnknown" /\ pc' = "submitted" /\ ~batch.reserved
      /\ run' = BeginRecovery(run, batch', pages, "RETRYABLE")
  BY DEF RecordReserveUnknown, Advancing, At, Goto, external, BatchFits, Opening
<1>2. run.committed >= Units
  BY <1>1 DEF Covered
<1>3. /\ batch' \in BatchRow /\ ~batch'.reserved /\ batch'.authorization = "UNKNOWN"
      /\ batch'.step = "RESERVATION_UNKNOWN"
  BY <1>1 DEF RecordReserveUnknown, TypeOK, BatchRow
<1>4. Moved(run, run', batch', pages) /\ run'.status # "EXECUTING"
  BY <1>1, RecoveryMoves DEF TypeOK
<1>5. run' \in RunRow /\ run'.committed = run.committed /\ run'.committed <= run'.budget
      /\ RecoveryFits(run')
  BY <1>4, MovedRun
<1>6. run'.status # "FAILED"
  <2>1. run.status # "FAILED"
    BY <1>1, <1>2, UnitsType DEF FailedIsFrozen, Frozen
  <2>2. ~AccountingFinal(run, batch', pages)
    BY <1>3 DEF AccountingFinal, DefinitivePreflightRejection
  <2>. QED BY <1>4, <2>1, <2>2 DEF Moved
<1>7. TypeOK'
  BY <1>1, <1>3, <1>5 DEF TypeOK, Points
<1>8. PagesFit'
  BY <1>1, <1>3, PagesStay
<1>9. BatchFits' /\ RecordMatchesHost'
  BY <1>1, <1>3 DEF BatchFits, RecordMatchesHost, Opening, Closing
<1>10. Covered'
  BY <1>2, <1>5 DEF Covered
<1>11. FailedIsFrozen'
  BY <1>6 DEF FailedIsFrozen
<1>12. ASSUME Undisturbed PROVE UInv'
  <2>1. FailureIsTold'
    BY <1>1, <1>4 DEF FailureIsTold
  <2>2. host.state # "finalized"
    BY <1>1 DEF BatchFits
  <2>3. SealedAtEnd'
    BY <1>1, <2>2 DEF SealedAtEnd, Closing
  <2>4. CommittedIsExact'
    BY <1>1, <1>3, <1>5, <1>12 DEF CommittedIsExact, UInv, BudgetCommitted
  <2>. QED BY <2>1, <2>3, <2>4 DEF UInv
<1>. QED BY <1>5, <1>7, <1>8, <1>9, <1>10, <1>11, <1>12

-----------------------------------------------------------------------------
(* The steps of a page. *)

\* A page that is being worked on and has not ended keeps the Run from failing.
LEMMA PageIsOpen ==
  ASSUME IInv, NEW p \in Pages, job[p] # "none", pages[p].status \notin Ended
  PROVE  run.status # "FAILED" /\ ~Sealed
<1>1. batch.reserved
  BY DEF IInv, PagesFit, PageFits
<1>. QED BY <1>1 DEF IInv, FailedIsFrozen, Frozen, Sealed

\* Nothing but the status of the page and its job changes.
LEMMA PageTurns ==
  ASSUME IInv, NEW p \in Pages, NEW status \in PageStatuses \ {"FAILED"}, NEW name \in Jobs,
         SetPage(p, status), Job(p, name), UNCHANGED <<run, batch, host, provider>>,
         faults' \in 0..MaxFaults, job[p] # "none", run.status # "FAILED", ~Sealed,
         status \in Released => provider[p] \in {"none", "failedFree"},
         status = "FAILED_CHARGED" => provider[p] = "failedCharged",
         status \in {"COMPLETED", "COMPLETED_AFTER_CANCEL"} => provider[p] = "completed",
         status \in {"NONE", "RESERVED"} => provider[p] = "none",
         \/ name = "none"
         \/ name = "refresh" /\ status \in PendingMedia
         \/ name = "mark" /\ status = "RESERVED"
         \/ name = "send" /\ status = "SUBMITTING" /\ provider[p] = "none"
  PROVE  IInv'
<1>. DEFINE page == [pages[p] EXCEPT !.status = status]
<1>1. page \in PageRow /\ page.status = status /\ page.submitted = pages[p].submitted
  BY DEF IInv, TypeOK, PageRow
<1>2. pages' = [pages EXCEPT ![p] = page]
  BY DEF SetPage, IInv, TypeOK
<1>. HIDE DEF page
<1>3. provider' = [provider EXCEPT ![p] = provider[p]] /\ provider[p] \in Tasks
  BY DEF IInv, TypeOK
<1>4. pages'[p] = page /\ job'[p] = name /\ provider'[p] = provider[p]
  BY <1>2 DEF Job, IInv, TypeOK
<1>5. PageFits(p) /\ batch.reserved
  BY DEF IInv, PagesFit, PageFits
<1>6. PageFits(p)'
  BY <1>1, <1>4, <1>5 DEF PageFits
<1>7. JobFits(p)'
  BY <1>1, <1>4 DEF JobFits
<1>8. Moved(run, run', batch, pages')
  BY MovesNot DEF IInv, TypeOK
<1>. QED
  BY <1>1, <1>2, <1>3, <1>6, <1>7, <1>8, PageMoves DEF Job

\* A failure of the page, recorded with the recovery of the Run.
LEMMA PageFails ==
  ASSUME IInv, NEW p \in Pages, NEW status \in MediaFailure, NEW disposition \in Dispositions,
         NEW submitted \in BOOLEAN, RecordFailure(p, status, disposition, submitted),
         Job(p, "none"), UNCHANGED <<batch, external>>, faults' \in 0..MaxFaults,
         job[p] # "none", pages[p].status \notin Ended,
         status \in Released => provider[p] \in {"none", "failedFree"},
         status = "FAILED" /\ ~submitted => provider[p] = "none",
         status = "FAILED_CHARGED" => provider[p] = "failedCharged",
         submitted => provider[p] # "none"
  PROVE  IInv'
<1>. DEFINE page == [status |-> status, disposition |-> disposition, submitted |-> submitted]
<1>1. page \in PageRow /\ page.status = status /\ page.submitted = submitted
  BY DEF PageRow, PageStatuses, MediaFailure, PendingMedia, Released, Settled
<1>2. pages' = [pages EXCEPT ![p] = page]
  BY DEF RecordFailure
<1>. HIDE DEF page
<1>3. provider' = [provider EXCEPT ![p] = provider[p]] /\ provider[p] \in Tasks /\ host' = host
  BY DEF IInv, TypeOK, external
<1>4. pages'[p] = page /\ job'[p] = "none" /\ provider'[p] = provider[p]
  BY <1>2 DEF Job, IInv, TypeOK, external
<1>5. PageFits(p) /\ batch.reserved
  BY DEF IInv, PagesFit, PageFits
<1>6. status \notin {"NONE", "RESERVED", "COMPLETED", "COMPLETED_AFTER_CANCEL"}
  BY DEF MediaFailure
<1>7. PageFits(p)'
  BY <1>1, <1>4, <1>5, <1>6 DEF PageFits
<1>8. JobFits(p)'
  BY <1>4 DEF JobFits
<1>9. Moved(run, run', batch, pages') /\ run'.status # "EXECUTING"
  BY RecoveryMoves DEF RecordFailure, IInv, TypeOK
<1>10. run.status # "FAILED" /\ ~Sealed
  BY PageIsOpen
<1>11. "none" \in Jobs
  BY DEF Jobs
<1>. QED
  BY <1>1, <1>2, <1>3, <1>7, <1>8, <1>9, <1>10, <1>11, PageMoves DEF Job

LEMMA PrepareStep == ASSUME IInv, NEW p \in Pages, Prepare(p) PROVE IInv'
<1>1. job[p] = "submit" /\ PageFits(p) /\ UNCHANGED <<run, batch, host, provider>>
      /\ faults' = faults /\ faults' \in 0..MaxFaults /\ {"mark", "refresh", "none"} \subseteq Jobs
  BY DEF Prepare, IInv, PagesFit, TypeOK, external, Jobs
<1>2. CASE /\ pages[p].status \in {"NONE", "RESERVED"} \/ RetryAllowed(p)
           /\ SetPage(p, "RESERVED") /\ Job(p, "mark")
  <2>1. run.status # "FAILED" /\ ~Sealed
    <3>1. CASE pages[p].status \in {"NONE", "RESERVED"}
      BY <1>1, <3>1, PageIsOpen DEF Ended, Settled, Released
    <3>2. CASE RetryAllowed(p)
      BY <3>2 DEF RetryAllowed, Sealed, Dead
    <3>. QED BY <1>2, <3>1, <3>2
  <2>2. provider[p] = "none"
    BY <1>1, <1>2 DEF PageFits, RetryAllowed
  <2>3. "RESERVED" \in PageStatuses \ {"FAILED"} /\ "RESERVED" \notin Released
    BY DEF PageStatuses, Released
  <2>. QED BY <1>1, <1>2, <2>1, <2>2, <2>3, PageTurns
<1>3. ASSUME NEW name \in Jobs, Job(p, name), pages' = pages, name \in {"none", "refresh"},
             name = "refresh" => pages[p].status \in PendingMedia
      PROVE  IInv'
  <2>1. pages' = [pages EXCEPT ![p] = pages[p]] /\ provider' = [provider EXCEPT ![p] = provider[p]]
        /\ pages[p] \in PageRow /\ provider[p] \in Tasks
    BY <1>1, <1>3 DEF IInv, TypeOK
  <2>2. job'[p] = name
    BY <1>3 DEF Job, IInv, TypeOK
  <2>3. batch.reserved
    BY <1>1 DEF PageFits
  <2>4. PageFits(p)' /\ JobFits(p)'
    BY <1>1, <1>3, <2>2, <2>3 DEF PageFits, JobFits
  <2>5. Moved(run, run', batch, pages')
    BY <1>1, MovesNot DEF IInv, TypeOK
  <2>. QED BY <1>1, <1>3, <2>1, <2>4, <2>5, PageMoves DEF Job
<1>. QED BY <1>1, <1>2, <1>3 DEF Prepare, PendingMedia

LEMMA MarkSubmittingStep == ASSUME IInv, NEW p \in Pages, MarkSubmitting(p) PROVE IInv'
<1>1. /\ job[p] = "mark" /\ pages[p].status = "RESERVED" /\ provider[p] = "none"
      /\ UNCHANGED <<run, batch, host, provider>> /\ faults' \in 0..MaxFaults
      /\ SetPage(p, "SUBMITTING") /\ Job(p, "send")
  BY DEF MarkSubmitting, IInv, PagesFit, PageFits, JobFits, TypeOK, external
<1>2. run.status # "FAILED" /\ ~Sealed
  BY <1>1, PageIsOpen DEF Ended, Settled, Released
<1>3. "SUBMITTING" \in PageStatuses \ {"FAILED"} /\ "SUBMITTING" \notin Released /\ "send" \in Jobs
  BY DEF PageStatuses, PendingMedia, Released, Jobs
<1>. QED BY <1>1, <1>2, <1>3, PageTurns

LEMMA SendStep == ASSUME IInv, NEW p \in Pages, Send(p) PROVE IInv'
<1>1. /\ job[p] = "send" /\ pages[p].status = "SUBMITTING" /\ provider[p] = "none"
      /\ PageFits(p) /\ batch.reserved
      /\ UNCHANGED <<run, batch, pages, host>>
  BY DEF Send, IInv, PagesFit, PageFits, JobFits, durable
<1>2. PICK name \in {"accepted", "refused", "failed", "unknown"}, task \in Tasks :
        /\ Job(p, name) /\ provider' = [provider EXCEPT ![p] = task] /\ faults' \in 0..MaxFaults
        /\ name = "refused" => task = "none"
        /\ name = "failed" => task \in {"failedFree", "failedCharged"}
  <2>1. provider = [provider EXCEPT ![p] = "none"] /\ faults \in 0..MaxFaults
    BY <1>1 DEF IInv, TypeOK
  <2>2. {"none", "running", "failedFree", "failedCharged"} \subseteq Tasks
    BY DEF Tasks
  <2>3. Fault("UNKNOWN") => faults' \in 0..MaxFaults
    BY <2>1, BatchAssumption DEF Fault
  <2>. QED BY <1>1, <2>1, <2>2, <2>3 DEF Send
<1>3. name \in Jobs /\ job'[p] = name /\ provider'[p] = task
  BY <1>2 DEF Job, Jobs, IInv, TypeOK
<1>4. pages' = [pages EXCEPT ![p] = pages[p]] /\ pages[p] \in PageRow
  BY <1>1 DEF IInv, TypeOK
<1>5. PageFits(p)'
  BY <1>1, <1>3 DEF PageFits, Released
<1>6. JobFits(p)'
  BY <1>1, <1>2, <1>3 DEF JobFits
<1>7. Moved(run, run', batch, pages')
  BY <1>1, MovesNot DEF IInv, TypeOK
<1>. QED
  BY <1>1, <1>2, <1>3, <1>4, <1>5, <1>6, <1>7, PageMoves DEF Job

\* markDefiniteFailure, markUnknown, and the failures of an accepted task.
LEMMA FailureSteps ==
  ASSUME IInv, NEW p \in Pages, Job(p, "none"), UNCHANGED <<batch, external>>,
         faults' \in 0..MaxFaults, job[p] # "none", pages[p].status \notin Ended,
         \/ \E disposition \in Dispositions, submitted \in BOOLEAN :
              /\ DefiniteFailure(p, disposition, submitted)
              /\ provider[p] = IF submitted THEN "failedFree" ELSE "none"
         \/ MarkUnknown(p)
         \/ /\ provider[p] \in {"failedFree", "failedCharged"}
            /\ ResultFailure(p) \/ BillingUnknown(p)
  PROVE  IInv'
<1>1. CASE \E disposition \in Dispositions, submitted \in BOOLEAN :
              /\ DefiniteFailure(p, disposition, submitted)
              /\ provider[p] = IF submitted THEN "failedFree" ELSE "none"
  <2>1. PICK disposition \in Dispositions, submitted \in BOOLEAN :
              /\ DefiniteFailure(p, disposition, submitted)
              /\ provider[p] = IF submitted THEN "failedFree" ELSE "none"
    BY <1>1
  <2>2. PICK status \in {"FAILED", "FAILED_NOT_CHARGED"} :
          RecordFailure(p, status, disposition, submitted)
    BY <2>1 DEF DefiniteFailure
  <2>3. status \in MediaFailure
    BY DEF MediaFailure
  <2>4. submitted \in BOOLEAN /\ (submitted => provider[p] = "failedFree")
        /\ (~submitted => provider[p] = "none")
    BY <2>1
  <2>. QED BY <2>2, <2>3, <2>4, PageFails
<1>2. CASE MarkUnknown(p)
  <2>1. RecordFailure(p, "SUBMISSION_UNKNOWN", "RETRYABLE", FALSE)
    BY <1>2 DEF MarkUnknown
  <2>2. "SUBMISSION_UNKNOWN" \in MediaFailure \ Released /\ "RETRYABLE" \in Dispositions
        /\ FALSE \in BOOLEAN
    BY DEF MediaFailure, Released, Dispositions
  <2>. QED BY <2>1, <2>2, PageFails
<1>3. ASSUME provider[p] \in {"failedFree", "failedCharged"}, ResultFailure(p) \/ BillingUnknown(p)
      PROVE  IInv'
  <2>1. PICK disposition \in Dispositions,
             status \in {"FAILED_CHARGED", "FAILED_NOT_CHARGED", "BILLING_UNKNOWN"} :
          /\ RecordFailure(p, status, disposition, TRUE)
          /\ status = "FAILED_CHARGED" => provider[p] = "failedCharged"
          /\ status = "FAILED_NOT_CHARGED" => provider[p] # "failedCharged"
    BY <1>3 DEF ResultFailure, BillingUnknown
  <2>2. status \in MediaFailure /\ (status \in Released => status = "FAILED_NOT_CHARGED")
    BY DEF MediaFailure, Released
  <2>3. /\ TRUE \in BOOLEAN /\ provider[p] # "none"
        /\ status \in Released => provider[p] = "failedFree"
    BY <1>3, <2>1, <2>2
  <2>. QED BY <2>1, <2>2, <2>3, PageFails
<1>. QED BY <1>1, <1>2, <1>3

LEMMA RecordSubmissionStep == ASSUME IInv, NEW p \in Pages, RecordSubmission(p) PROVE IInv'
<1>0. faults' = faults \/ Fault("UNKNOWN")
  BY DEF RecordSubmission, ResultFailure, BillingUnknown
<1>1. /\ Job(p, "none") /\ UNCHANGED <<batch, external>> /\ host' = host /\ provider' = provider
      /\ pages[p].status = "SUBMITTING" /\ pages[p].status \notin Ended
      /\ job[p] # "none" /\ job[p] \in {"accepted", "refused", "failed", "unknown"}
      /\ faults' \in 0..MaxFaults
  <2>1. faults' \in 0..MaxFaults
    BY <1>0, BatchAssumption DEF IInv, TypeOK, Fault
  <2>2. job[p] \in {"accepted", "refused", "failed", "unknown"}
    BY DEF RecordSubmission
  <2>3. pages[p].status = "SUBMITTING"
    BY <2>2 DEF IInv, PagesFit, JobFits
  <2>. QED BY <2>1, <2>2, <2>3 DEF RecordSubmission, external, Ended, Settled, Released
<1>2. CASE SetPage(p, "WAITING") /\ UNCHANGED <<run, faults>>
  <2>1. run.status # "FAILED" /\ ~Sealed
    BY <1>1, PageIsOpen
  <2>2. "WAITING" \in PageStatuses \ {"FAILED"} /\ "WAITING" \notin Released /\ "none" \in Jobs
    BY DEF PageStatuses, PendingMedia, Released, Jobs
  <2>. QED BY <1>1, <1>2, <2>1, <2>2, PageTurns
<1>3. CASE /\ job[p] = "refused"
           /\ \E disposition \in Dispositions : DefiniteFailure(p, disposition, FALSE)
  <2>1. provider[p] = "none" /\ FALSE \in BOOLEAN
    BY <1>3 DEF IInv, PagesFit, JobFits
  <2>. QED BY <1>1, <1>3, <2>1, FailureSteps
<1>4. CASE job[p] = "failed" /\ (ResultFailure(p) \/ BillingUnknown(p))
  <2>1. provider[p] \in {"failedFree", "failedCharged"}
    BY <1>4 DEF IInv, PagesFit, JobFits
  <2>. QED BY <1>1, <1>4, <2>1, FailureSteps
<1>5. CASE MarkUnknown(p)
  BY <1>1, <1>5, FailureSteps
<1>. QED BY <1>2, <1>3, <1>4, <1>5 DEF RecordSubmission

LEMMA LookupStep == ASSUME IInv, NEW p \in Pages, Lookup(p) PROVE IInv'
<1>1. /\ UNCHANGED <<batch, external>> /\ host' = host /\ provider' = provider
      /\ pages[p].status \notin Ended /\ job[p] # "none" /\ PageFits(p)
      /\ faults' \in 0..MaxFaults /\ pages[p].submitted \in BOOLEAN
  BY BatchAssumption DEF Lookup, IInv, PagesFit, TypeOK, PageRow, external, Ended,
     Settled, Released, Fault
<1>2. CASE SetPage(p, "WAITING") /\ Job(p, "refresh") /\ UNCHANGED <<run, faults>>
  <2>1. run.status # "FAILED" /\ ~Sealed
    BY <1>1, PageIsOpen
  <2>2. "WAITING" \in PageStatuses \ {"FAILED"} /\ "WAITING" \notin Released /\ "refresh" \in Jobs
        /\ "WAITING" \in PendingMedia
    BY DEF PageStatuses, PendingMedia, Released, Jobs
  <2>. QED BY <1>1, <1>2, <2>1, <2>2, PageTurns
<1>3. CASE /\ provider[p] = "none"
           /\ DefiniteFailure(p, "RETRYABLE", pages[p].submitted) /\ Job(p, "none")
  <2>1. ~pages[p].submitted /\ "RETRYABLE" \in Dispositions
    BY <1>1, <1>3 DEF PageFits, Dispositions
  <2>. QED BY <1>1, <1>3, <2>1, FailureSteps
<1>4. CASE MarkUnknown(p) /\ Job(p, "none")
  BY <1>1, <1>4, FailureSteps
<1>. QED BY <1>2, <1>3, <1>4 DEF Lookup

LEMMA InspectStep == ASSUME IInv, NEW p \in Pages, Inspect(p) PROVE IInv'
<1>0. faults' = faults \/ Fault("UNKNOWN")
  BY DEF Inspect, ResultFailure, BillingUnknown
<1>1. /\ UNCHANGED <<batch, external>> /\ host' = host /\ provider' = provider
      /\ pages[p].status \in {"WAITING", "BILLING_UNKNOWN"} /\ pages[p].status \notin Ended
      /\ job[p] # "none" /\ Job(p, "none") /\ faults \in 0..MaxFaults /\ faults' \in 0..MaxFaults
      /\ pages[p].status \in PageStatuses \ {"FAILED"} /\ pages[p].status \notin Released
      /\ "none" \in Jobs
  <2>1. faults \in 0..MaxFaults /\ faults' \in 0..MaxFaults
    BY <1>0, BatchAssumption DEF IInv, TypeOK, Fault
  <2>2. pages[p].status \in {"WAITING", "BILLING_UNKNOWN"}
    BY DEF Inspect
  <2>. QED
    BY <2>1, <2>2 DEF Inspect, external, Ended, Settled, Released, Jobs, PageStatuses, PendingMedia
<1>2. run.status # "FAILED" /\ ~Sealed
  BY <1>1, PageIsOpen
<1>3. CASE UNCHANGED <<run, pages, faults>>
  <2>1. SetPage(p, pages[p].status)
    BY <1>3 DEF SetPage, IInv, TypeOK, PageRow
  <2>. QED BY <1>1, <1>2, <1>3, <2>1, PageTurns
<1>4. CASE provider[p] = "completed" /\ Completed(p) /\ UNCHANGED <<run, faults>>
  <2>1. PICK status \in {"COMPLETED", "COMPLETED_AFTER_CANCEL"} : SetPage(p, status)
    BY <1>4 DEF Completed
  <2>2. status \in PageStatuses \ {"FAILED"} /\ status \notin Released
    BY DEF PageStatuses, Settled, Released
  <2>. QED BY <1>1, <1>2, <1>4, <2>1, <2>2, PageTurns
<1>5. CASE /\ provider[p] = "failedFree"
           /\ \E disposition \in Dispositions : DefiniteFailure(p, disposition, TRUE)
  <2>1. TRUE \in BOOLEAN
    OBVIOUS
  <2>. QED BY <1>1, <1>5, <2>1, FailureSteps
<1>6. CASE /\ provider[p] \in {"failedFree", "failedCharged"}
           /\ ResultFailure(p) \/ BillingUnknown(p)
  BY <1>1, <1>6, FailureSteps
<1>7. CASE MarkUnknown(p)
  BY <1>1, <1>7, FailureSteps
<1>. QED BY <1>3, <1>4, <1>5, <1>6, <1>7 DEF Inspect

-----------------------------------------------------------------------------
(* The steps about the finalization. *)

LEMMA DecideFinalizationStep == ASSUME IInv, DecideFinalization PROVE IInv'
<1>. USE DEF IInv
<1>1. /\ run' = run /\ batch' = batch /\ pages' = pages /\ host' = host /\ provider' = provider
      /\ tick' = tick /\ job' = job /\ seenBudget' = seenBudget /\ faults' = faults
      /\ pc = "finalizing"
  BY DEF DecideFinalization, At, durable, external
<1>2. \/ /\ ToFinalize /\ pc' = "callFinalize"
         /\ instruction' = [settled |-> UnitsIn(Settled), released |-> UnitsIn(Released)]
      \/ pc' = "finalized" /\ instruction' = instruction
  BY DEF DecideFinalization
<1>3. TypeOK'
  <2>1. instruction' \in [settled: 0..Units, released: 0..Units]
    <3>1. UnitsIn(Settled) \in 0..Units /\ UnitsIn(Released) \in 0..Units
      BY UnitsInType
    <3>. QED BY <1>2, <3>1 DEF TypeOK
  <2>. QED BY <1>1, <1>2, <2>1 DEF TypeOK, Points
<1>4. PagesFit'
  BY <1>1, PagesStay
<1>5. BatchFits' /\ RecordMatchesHost'
  BY <1>1, <1>2 DEF BatchFits, RecordMatchesHost, Opening, Closing, ToFinalize, SettlementFinal
<1>6. Covered' /\ FailedIsFrozen'
  BY <1>1, <1>2 DEF Covered, FailedIsFrozen, SettlementFinal, BudgetCommitted
<1>7. ASSUME Undisturbed PROVE UInv'
  <2>1. FailureIsTold'
    BY <1>1, <1>2, <1>7 DEF FailureIsTold, UInv, After, Closing
  <2>2. ToFinalize => Sealed
    <3>. SUFFICES ASSUME ToFinalize PROVE Sealed
      OBVIOUS
    <3>1. \A p \in Pages : pages[p].status \in Ended
      BY DEF ToFinalize, FinalizationReady, Ended
    <3>2. ASSUME NEW p \in Pages, pages[p].status = "FAILED" PROVE Dead(run)
      <4>1. run.status # "EXECUTING"
        BY <1>1, <1>7, <3>2 DEF FailureIsTold, UInv, After
      <4>2. run.status = "RECOVERING" => run.pendingFailure
        BY <3>2 DEF ToFinalize, FinalizationReady, RecoveryActive, RecoveryFits
      <4>. QED BY <4>1, <4>2 DEF Dead, TypeOK, RunRow
    <3>. QED BY <3>1, <3>2 DEF Sealed
  <2>3. SealedAtEnd'
    BY <1>1, <1>2, <1>7, <2>2 DEF SealedAtEnd, UInv, Sealed, UnitsIn, Closing
  <2>4. CommittedIsExact'
    BY <1>1, <1>7 DEF CommittedIsExact, UInv, SettlementFinal, BudgetCommitted
  <2>. QED BY <2>1, <2>3, <2>4 DEF UInv
<1>. QED BY <1>1, <1>3, <1>4, <1>5, <1>6, <1>7

LEMMA HostFinalizesStep == ASSUME IInv, HostFinalizes PROVE IInv'
<1>. USE DEF IInv
<1>1. /\ run' = run /\ batch' = batch /\ pages' = pages /\ provider' = provider
      /\ tick' = tick /\ job' = job /\ instruction' = instruction /\ seenBudget' = seenBudget
      /\ pc = "callFinalize" /\ batch.reserved /\ ~SettlementFinal(batch) /\ host.state # "none"
  BY DEF HostFinalizes, At, Goto, durable, BatchFits, Closing
<1>2. /\ host' \in {host, Executed} /\ faults' \in 0..MaxFaults
      /\ \/ pc' = "recordFinalized" /\ host' = Executed
         \/ pc' = "finalizeUnknown"
  BY BatchAssumption DEF HostFinalizes, Goto, Fault, TypeOK
<1>3. Executed \in HostRow /\ Executed.state = "finalized" /\ Executed' = Executed
      /\ Executed.settled = instruction.settled /\ Executed.released = instruction.released
  BY <1>1 DEF Executed, HostRow, TypeOK
<1>4. TypeOK'
  BY <1>1, <1>2, <1>3 DEF TypeOK, Points
<1>5. PagesFit'
  BY <1>1, PagesStay
<1>6. BatchFits' /\ RecordMatchesHost'
  BY <1>1, <1>2, <1>3 DEF BatchFits, RecordMatchesHost, Opening, Closing, SettlementFinal
<1>7. Covered' /\ FailedIsFrozen'
  BY <1>1, <1>2 DEF Covered, FailedIsFrozen, SettlementFinal
<1>8. ASSUME Undisturbed PROVE UInv'
  <2>1. FailureIsTold'
    BY <1>1, <1>2, <1>8 DEF FailureIsTold, UInv, After, Closing
  <2>2. /\ Sealed
        /\ instruction = [settled |-> UnitsIn(Settled), released |-> UnitsIn(Released)]
        /\ host.state = "finalized" =>
             host.settled = UnitsIn(Settled) /\ host.released = UnitsIn(Released)
    BY <1>1, <1>8 DEF SealedAtEnd, UInv, Closing
  <2>3. SealedAtEnd'
    BY <1>1, <1>2, <1>3, <2>2 DEF SealedAtEnd, Sealed, UnitsIn
  <2>4. CommittedIsExact'
    BY <1>1, <1>8 DEF CommittedIsExact, UInv, SettlementFinal
  <2>. QED BY <2>1, <2>3, <2>4 DEF UInv
<1>. QED BY <1>1, <1>4, <1>5, <1>6, <1>7, <1>8

LEMMA RecordFinalizedStep == ASSUME IInv, RecordFinalized PROVE IInv'
<1>. USE DEF IInv
<1>1. /\ pages' = pages /\ host' = host /\ provider' = provider /\ faults' = faults
      /\ tick' = tick /\ job' = job /\ instruction' = instruction /\ seenBudget' = seenBudget
      /\ pc = "recordFinalized" /\ pc' = "finalized"
      /\ batch.reserved /\ ~SettlementFinal(batch) /\ host = Executed
  BY DEF RecordFinalized, At, Goto, external, BatchFits, Closing
<1>2. /\ batch.authorization = "RESERVED" /\ run.committed >= Units /\ run.status # "FAILED"
  BY <1>1 DEF BatchFits, Covered, FailedIsFrozen, Frozen
<1>3. instruction.settled \in 0..Units /\ instruction.released \in 0..Units
  BY DEF TypeOK
<1>4. /\ batch' \in BatchRow /\ batch'.reserved /\ batch'.authorization = "RESERVED"
      /\ batch'.step = "COMPLETED" /\ SettlementFinal(batch')
      /\ batch'.settled = instruction.settled /\ batch'.released = instruction.released
  BY <1>1, <1>2, <1>3 DEF RecordFinalized, TypeOK, BatchRow, SettlementFinal
<1>5. /\ run' \in RunRow /\ run'.committed <= run'.budget /\ RecoveryFits(run')
      /\ run'.status = run.status /\ run'.committed = run.committed - instruction.released
      /\ Dead(run) => Dead(run')
  <2>1. run.committed \in 0..MaxBudget /\ run.budget \in 0..MaxBudget /\ run.committed <= run.budget
    BY DEF TypeOK, RunRow
  <2>. DEFINE rest == run.committed - instruction.released
  <2>2. rest \in 0..MaxBudget /\ rest <= run.budget
    BY <1>2, <1>3, <2>1, UnitsType, BatchAssumption
  <2>3. run' = [run EXCEPT !.committed = rest]
    BY DEF RecordFinalized, TypeOK, RunRow
  <2>. HIDE DEF rest
  <2>4. /\ run' \in RunRow /\ run'.committed = rest /\ run'.budget = run.budget
        /\ run'.status = run.status /\ run'.recovery = run.recovery
        /\ run'.pendingFailure = run.pendingFailure
    BY <2>2, <2>3 DEF TypeOK, RunRow
  <2>5. RecoveryFits(run') /\ (Dead(run) => Dead(run'))
    BY <2>4 DEF RecoveryFits, Dead
  <2>. QED BY <2>2, <2>4, <2>5 DEF rest
<1>6. TypeOK'
  BY <1>1, <1>4, <1>5 DEF TypeOK, Points
<1>7. PagesFit'
  BY <1>1, <1>4, PagesStay
<1>8. BatchFits' /\ RecordMatchesHost'
  BY <1>1, <1>4 DEF BatchFits, RecordMatchesHost, Opening, Closing, Executed
<1>9. Covered'
  BY <1>1, <1>4 DEF Covered, BudgetCommitted, Executed
<1>10. FailedIsFrozen'
  BY <1>2, <1>5 DEF FailedIsFrozen
<1>11. ASSUME Undisturbed PROVE UInv'
  <2>1. FailureIsTold'
    BY <1>1, <1>4, <1>5, <1>11 DEF FailureIsTold, UInv, After, Closing
  <2>2. Sealed /\ instruction = [settled |-> UnitsIn(Settled), released |-> UnitsIn(Released)]
        /\ host.settled = UnitsIn(Settled) /\ host.released = UnitsIn(Released)
    BY <1>1, <1>11 DEF SealedAtEnd, UInv, Closing, Executed
  <2>3. SealedAtEnd'
    BY <1>1, <1>5, <2>2 DEF SealedAtEnd, Sealed, UnitsIn, Closing
  <2>4. run.committed = Units
    BY <1>1, <1>11 DEF CommittedIsExact, UInv
  <2>5. instruction.settled + instruction.released = Units
    BY <2>2, UnitsSplit DEF Sealed
  <2>6. run'.committed = batch'.settled
    BY <1>3, <1>4, <1>5, <2>4, <2>5, UnitsType
  <2>7. CommittedIsExact'
    BY <1>4, <2>6 DEF CommittedIsExact
  <2>. QED BY <2>1, <2>3, <2>7 DEF UInv
<1>. QED BY <1>5, <1>6, <1>7, <1>8, <1>9, <1>10, <1>11

LEMMA RecordFinalizeUnknownStep == ASSUME IInv, RecordFinalizeUnknown PROVE IInv'
<1>. USE DEF IInv
<1>1. /\ pages' = pages /\ host' = host /\ provider' = provider /\ faults' = faults
      /\ tick' = tick /\ job' = job /\ instruction' = instruction /\ seenBudget' = seenBudget
      /\ pc = "finalizeUnknown" /\ pc' = "finalized"
      /\ batch.reserved /\ ~SettlementFinal(batch)
      /\ run' = BeginRecovery(run, batch', pages, "RETRYABLE")
  BY DEF RecordFinalizeUnknown, At, Goto, external, BatchFits, Closing
<1>2. batch.authorization = "RESERVED" /\ run.committed >= Units /\ run.status # "FAILED"
  BY <1>1 DEF BatchFits, Covered, FailedIsFrozen, Frozen
<1>3. /\ batch' \in BatchRow /\ batch'.reserved /\ batch'.authorization = "RESERVED"
      /\ batch'.step = "BILLING_UNKNOWN" /\ ~SettlementFinal(batch')
  BY <1>1, <1>2 DEF RecordFinalizeUnknown, TypeOK, BatchRow, SettlementFinal
<1>4. Moved(run, run', batch', pages) /\ run'.status # "EXECUTING"
  BY <1>1, RecoveryMoves DEF TypeOK
<1>5. run' \in RunRow /\ run'.committed = run.committed /\ run'.committed <= run'.budget
      /\ RecoveryFits(run') /\ (Dead(run) => Dead(run'))
  BY <1>4, MovedRun DEF Moved
<1>6. run'.status # "FAILED"
  <2>1. ~AccountingFinal(run, batch', pages)
    BY <1>3 DEF AccountingFinal, DefinitivePreflightRejection
  <2>. QED BY <1>2, <1>4, <2>1 DEF Moved
<1>7. TypeOK'
  BY <1>1, <1>3, <1>5 DEF TypeOK, Points
<1>8. PagesFit'
  BY <1>1, <1>3, PagesStay
<1>9. BatchFits' /\ RecordMatchesHost'
  BY <1>1, <1>3 DEF BatchFits, RecordMatchesHost, Opening, Closing
<1>10. Covered'
  BY <1>2, <1>5 DEF Covered
<1>11. FailedIsFrozen'
  BY <1>6 DEF FailedIsFrozen
<1>12. ASSUME Undisturbed PROVE UInv'
  <2>1. FailureIsTold'
    BY <1>1, <1>4 DEF FailureIsTold
  <2>2. SealedAtEnd'
    BY <1>1, <1>5, <1>12 DEF SealedAtEnd, Sealed, UnitsIn, UInv, Closing
  <2>3. CommittedIsExact'
    BY <1>1, <1>3, <1>5, <1>12 DEF CommittedIsExact, UInv
  <2>. QED BY <2>1, <2>2, <2>3 DEF UInv
<1>. QED BY <1>5, <1>7, <1>8, <1>9, <1>10, <1>11, <1>12

-----------------------------------------------------------------------------
(* Users, the passing of time and the provider. *)

LEMMA PauseStep == ASSUME IInv, Pause PROVE IInv'
  BY RunChanges DEF Pause, UserAction, IInv, TypeOK, RunRow, RecoveryFits, Dead

LEMMA ResumeStep == ASSUME IInv, Resume PROVE IInv'
<1>1. ~Undisturbed
  BY DEF Resume, UserAction, Undisturbed
<1>. QED BY <1>1, RunChanges DEF Resume, UserAction, IInv, TypeOK, RunRow, RecoveryFits

LEMMA CancelStep == ASSUME IInv, Cancel PROVE IInv'
  BY RunChanges DEF Cancel, UserAction, IInv, TypeOK, RunRow, RecoveryFits, Dead

LEMMA AddBudgetStep == ASSUME IInv, AddBudget PROVE IInv'
<1>1. run \in RunRow /\ run.committed <= run.budget /\ RecoveryFits(run) /\ faults' \in 0..MaxFaults
      /\ UNCHANGED <<batch, pages, external, worker>>
  BY DEF AddBudget, UserAction, IInv, TypeOK
<1>. DEFINE budget == run.budget + TopUp
<1>2. budget \in 0..MaxBudget /\ run.committed <= budget
  BY <1>1, BatchAssumption DEF AddBudget, RunRow
<1>3. run' = [run EXCEPT !.budget = budget]
  BY <1>1 DEF AddBudget, RunRow
<1>. HIDE DEF budget
<1>4. /\ run' \in RunRow /\ run'.budget = budget /\ run'.committed = run.committed
      /\ run'.status = run.status /\ run'.recovery = run.recovery
      /\ run'.pendingFailure = run.pendingFailure
  BY <1>1, <1>2, <1>3 DEF RunRow
<1>5. RecoveryFits(run') /\ (Dead(run) => Dead(run'))
  BY <1>1, <1>4 DEF RecoveryFits, Dead
<1>. QED BY <1>1, <1>2, <1>4, <1>5, RunChanges

LEMMA RetryDelayStep == ASSUME IInv, RetryDelayElapses PROVE IInv'
  BY RunChanges DEF RetryDelayElapses, IInv, TypeOK, RunRow, RecoveryFits, Dead

LEMMA ProviderEndsStep == ASSUME IInv, NEW p \in Pages, ProviderEnds(p) PROVE IInv'
<1>. USE DEF IInv
<1>1. /\ run' = run /\ batch' = batch /\ pages' = pages /\ host' = host /\ tick' = tick /\ pc' = pc
      /\ job' = job /\ instruction' = instruction /\ seenBudget' = seenBudget /\ faults' = faults
      /\ provider[p] = "running"
  BY DEF ProviderEnds, durable, worker
<1>2. PICK task \in {"completed", "failedFree", "failedCharged"} :
        provider' = [provider EXCEPT ![p] = task]
  BY DEF ProviderEnds
<1>3. TypeOK'
  BY <1>1, <1>2 DEF TypeOK, Tasks
<1>4. PagesFit'
  <2>. SUFFICES ASSUME NEW q \in Pages PROVE PageFits(q)' /\ JobFits(q)'
    BY DEF PagesFit
  <2>1. PageFits(q) /\ JobFits(q) /\ provider'[q] = IF q = p THEN task ELSE provider[q]
    BY <1>2 DEF PagesFit, TypeOK
  <2>. QED BY <1>1, <2>1 DEF PageFits, JobFits, Released
<1>5. BatchFits' /\ RecordMatchesHost' /\ Covered' /\ FailedIsFrozen'
  BY <1>1 DEF BatchFits, RecordMatchesHost, Covered, FailedIsFrozen, SettlementFinal,
              BudgetCommitted, Executed
<1>6. Undisturbed => UInv'
  BY <1>1 DEF UInv, FailureIsTold, SealedAtEnd, Sealed, UnitsIn, CommittedIsExact,
              SettlementFinal, BudgetCommitted
<1>. QED BY <1>1, <1>3, <1>4, <1>5, <1>6

-----------------------------------------------------------------------------
(* The invariant, and what it implies. *)

LEMMA InitIInv == Init => IInv
<1>. SUFFICES ASSUME Init PROVE IInv
  OBVIOUS
<1>1. /\ 0 \in 0..MaxBudget /\ 0 \in 0..Units /\ 0 \in 0..MaxAttempts /\ 0 \in 0..MaxFaults
      /\ InitialBudget \in 0..MaxBudget /\ 0 <= InitialBudget
  BY UnitsType, BatchAssumption
<1>2. run \in RunRow /\ run.committed <= run.budget
  BY <1>1 DEF Init, RunRow
<1>3. batch \in BatchRow /\ host \in HostRow
  BY <1>1 DEF Init, BatchRow, HostRow
<1>4. pages \in [Pages -> PageRow]
  BY DEF Init, PageRow, PageStatuses
<1>5. TypeOK
  BY <1>1, <1>2, <1>3, <1>4 DEF Init, TypeOK, Tasks, Jobs, Points, NoInstruction
<1>6. PagesFit
  BY DEF Init, PagesFit, PageFits, JobFits, Released
<1>7. BatchFits /\ RecordMatchesHost /\ Covered /\ FailedIsFrozen /\ RecoveryFits(run)
  BY DEF Init, BatchFits, RecordMatchesHost, Covered, FailedIsFrozen, RecoveryFits, Opening,
         Closing, BudgetCommitted
<1>8. UInv
  BY DEF Init, UInv, FailureIsTold, SealedAtEnd, CommittedIsExact, After, Closing
<1>. QED BY <1>5, <1>6, <1>7, <1>8 DEF IInv

LEMMA WorkerStepKeeps == ASSUME IInv, WorkerStep PROVE IInv'
<1>1. ASSUME NEW p \in Pages, PageStep(p) PROVE IInv'
  BY <1>1, PrepareStep, MarkSubmittingStep, SendStep, RecordSubmissionStep, LookupStep, InspectStep
     DEF PageStep
<1>. QED
  BY <1>1, StartTickStep, StartTerminalStep, ResumeRecoveryStep, ReconciliationOnlyStep,
     SubmissionBlockedStep, NothingToSubmitStep, PlanSubmissionStep, PreflightStep,
     PauseForBudgetStep, CommitBudgetStep, CommitBudgetThrowsStep, HostReservesStep,
     RecordReservedStep, RecordRefusedStep, RecordReserveUnknownStep, EndDispatchStep,
     StartRefreshStep, RefreshSkippedStep, EndRefreshStep, DecideFinalizationStep,
     HostFinalizesStep, RecordFinalizedStep, RecordFinalizeUnknownStep, EndExecutionStep,
     EndTerminalStep
     DEF WorkerStep

LEMMA EnvironmentKeeps == ASSUME IInv, Environment PROVE IInv'
  BY FaultSteps, PauseStep, ResumeStep, CancelStep, AddBudgetStep, RetryDelayStep, ProviderEndsStep
     DEF Environment

LEMMA StutterKeeps == ASSUME IInv, UNCHANGED vars PROVE IInv'
<1>1. UNCHANGED <<batch, pages, external>> /\ UNCHANGED worker /\ run' = run
      /\ faults' \in 0..MaxFaults
  BY DEF vars, durable, IInv, TypeOK
<1>. QED BY <1>1, RunChanges DEF IInv, TypeOK

LEMMA Invariance == Spec => []IInv
<1>1. IInv /\ [Next]_vars => IInv'
  BY WorkerStepKeeps, EnvironmentKeeps, StutterKeeps DEF Next
<1>. QED BY InitIInv, <1>1, PTL DEF Spec

\* Every variable keeps its type, for any set of pages, budget and bounds; in
\* particular the Run never commits more than its budget.  (reserveBudget)
THEOREM TypeCorrect == Spec => []TypeOK
<1>1. IInv => TypeOK
  BY DEF IInv
<1>. QED BY <1>1, Invariance, PTL

\* No image task exists before the host has authorized the batch, and none is
\* submitted for a page that has one: whatever users, host, provider, crashes
\* and exceptions do.  (submitBlueprintImages, submitSlideImage)
THEOREM PagesSubmittedOnce == Spec => []SubmittedOnce
<1>1. IInv => SubmittedOnce
  BY DEF IInv, PagesFit, PageFits, JobFits, BatchFits, SubmittedOnce,
         AuthorizedBeforeSubmission, NeverResubmitted
<1>. QED BY <1>1, Invariance, PTL

\* The ledgers of the Run, the batch and the host agree while the authorization
\* is held, once it is settled, and when the Run has failed.
\* (reserveGenerationBatch, finalizeGenerationBatch, failVisualDeckV4Transaction)
THEOREM LedgersKeepAgreeing == Spec => []LedgersAgree
<1>1. ASSUME IInv PROVE LedgersAgree
  <2>. USE <1>1 DEF IInv
  <2>1. HoldIsCommitted
    BY DEF HoldIsCommitted, Covered
  <2>2. ASSUME run.status = "FAILED"
        PROVE  /\ host.state # "held"
               /\ \A p \in Pages : provider[p] # "running"
               /\ host.state = "finalized" => run.committed = host.settled
    <3>1. CASE ~batch.reserved /\ run.committed = 0 /\ \A p \in Pages : pages[p].status = "NONE"
      <4>1. \A p \in Pages : provider[p] = "none"
        BY <3>1 DEF PagesFit, PageFits
      <4>. QED BY <3>1, <4>1, <2>1, UnitsType DEF HoldIsCommitted, BatchFits
    <3>2. CASE /\ batch.reserved /\ SettlementFinal(batch) /\ run.committed = batch.settled
               /\ \A p \in Pages : pages[p].status \in Ended
      <4>1. \A p \in Pages : provider[p] # "running"
        BY <3>2 DEF PagesFit, PageFits, Ended, Settled, Released
      <4>. QED BY <3>2, <4>1 DEF RecordMatchesHost
    <3>. QED BY <2>2, <3>1, <3>2 DEF FailedIsFrozen, Frozen
  <2>. QED BY <2>1, <2>2 DEF LedgersAgree, FailedIsFinal
<1>. QED BY <1>1, Invariance, PTL

\* Where no one resumes a Run and the host answers every preflight, a page is
\* only submitted under an authorization the host still holds, whatever is
\* lost, crashes or throws.  (batchFinalization, submitSlideImage)
THEOREM SubmissionsAreHeld == ASSUME Undisturbed PROVE Spec => []SubmittedUnderHold
<1>1. ASSUME IInv, NEW p \in Pages, Submitting(p) PROVE host.state = "held"
  <2>1. batch.reserved /\ pages[p].status \in {"RESERVED", "SUBMITTING"}
    BY <1>1 DEF Submitting, IInv, PagesFit, PageFits, JobFits
  <2>2. ~Sealed
    BY <2>1 DEF Sealed, Ended, Settled, Released
  <2>3. host.state \notin {"none", "finalized"}
    BY <1>1, <2>1, <2>2 DEF IInv, BatchFits, UInv, SealedAtEnd
  <2>. QED BY <1>1, <2>3 DEF IInv, TypeOK, HostRow
<1>2. IInv => SubmittedUnderHold
  BY <1>1 DEF SubmittedUnderHold
<1>. QED BY <1>2, Invariance, PTL

\* Where no one resumes a Run and the host answers every preflight, the estimate
\* is committed once, a repeated finalization repeats its instruction, and what is
\* settled is what the provider charged, whatever is lost, crashes or throws.
\* (reserveGenerationBatch, batchFinalization, finalizeGenerationBatch)
THEOREM SettlementStaysExact == ASSUME Undisturbed PROVE Spec => []SettlementIsExact
<1>1. ASSUME IInv PROVE SettlementIsExact
  <2>. USE <1>1 DEF IInv
  <2>1. UInv
    OBVIOUS
  <2>2. CommittedOnce
    BY <2>1, UnitsType DEF UInv, CommittedIsExact, CommittedOnce, TypeOK, BatchRow
  <2>3. InstructionIsStable
    BY <2>1 DEF UInv, SealedAtEnd, InstructionIsStable, Executed, Closing, TypeOK, HostRow
  <2>4. ASSUME batch.reserved, SettlementFinal(batch) PROVE batch.settled = Charged
    <3>1. host.state = "finalized" /\ host.settled = batch.settled
      BY <2>4 DEF RecordMatchesHost
    <3>2. Sealed /\ host.settled = UnitsIn(Settled)
      BY <2>1, <3>1 DEF UInv, SealedAtEnd
    <3>3. \A p \in Pages : pages[p].status \in Settled
                             <=> provider[p] \in {"completed", "failedCharged"}
      BY <3>2 DEF Sealed, PagesFit, PageFits, Ended, Settled, Released
    <3>4. {p \in Pages : pages[p].status \in Settled}
            = {p \in Pages : provider[p] \in {"completed", "failedCharged"}}
      BY <3>3
    <3>. QED BY <3>1, <3>2, <3>4 DEF UnitsIn, Charged
  <2>. QED BY <2>2, <2>3, <2>4 DEF SettlementIsExact, ChargesAreSettled
<1>. QED BY <1>1, Invariance, PTL
=============================================================================

--------------------------- MODULE GenerationBatch ---------------------------
(***************************************************************************)
(* The image batch of a V4 Run and its single host authorization:          *)
(* reserve the whole batch, submit every page under its own idempotency    *)
(* key, collect the results, and finalize the authorization with one       *)
(* settle/release instruction (src/src/core/generation-batch.ts, driven by *)
(* slide-generation-coordinator.ts and media-step-runner.ts).              *)
(*                                                                         *)
(* One Run in its EXECUTING stage, one batch of scope INITIAL, reservation *)
(* accounting, one unit per page.  The Run lease (module RunLease) gives   *)
(* the Run a single worker; users act at any moment, the host budget and   *)
(* the image provider are external and idempotent per key.  A repository   *)
(* transaction is one step and so is an external call; what a call         *)
(* answered is known to the worker only, and a crash loses it.             *)
(***************************************************************************)
EXTENDS Integers, FiniteSets

CONSTANTS
  Pages,            \* the pages of the deck
  InitialBudget,    \* budgetUnits the Run starts with
  TopUp,            \* units an ADD_BUDGET brings
  MaxBudget,        \* bound: budgetUnits never grows past it
  MaxAttempts,      \* MAX_TECHNICAL_RECOVERY_ATTEMPTS, 5 in the code
  MaxFaults,        \* bound: crashes, exceptions and unknown answers
  FaultKinds,       \* the kinds of fault enabled
  UserActions,      \* the user actions enabled
  PreflightAnswers  \* what the finalization preflight may answer

Units == Cardinality(Pages)

ASSUME BatchAssumption ==
  /\ IsFiniteSet(Pages) /\ Pages # {}
  /\ InitialBudget \in Nat /\ TopUp \in Nat /\ MaxBudget \in Nat
  /\ InitialBudget <= MaxBudget
  /\ MaxAttempts \in Nat \ {0} /\ MaxFaults \in Nat
  /\ FaultKinds \subseteq {"CRASH", "FATAL", "UNKNOWN"}
  /\ UserActions \subseteq {"PAUSE", "RESUME", "CANCEL", "ADD_BUDGET"}
  /\ PreflightAnswers \subseteq {"OK", "UNKNOWN", "REJECTED"}

Dispositions == {"RETRYABLE", "NON_RETRYABLE"}

\* Page step statuses, by what the batch code makes of them.
Settled == {"COMPLETED", "COMPLETED_AFTER_CANCEL", "FAILED_CHARGED"}
Released == {"FAILED", "FAILED_NOT_CHARGED"}
MediaFailure == {"FAILED", "FAILED_NOT_CHARGED", "FAILED_CHARGED",
                 "SUBMISSION_UNKNOWN", "BILLING_UNKNOWN"}
PendingMedia == {"SUBMITTING", "WAITING", "SUBMISSION_UNKNOWN", "BILLING_UNKNOWN"}
PageStatuses == {"NONE", "RESERVED"} \cup PendingMedia \cup Settled \cup Released

VARIABLES
  run,         \* the Run row: status, budget, technicalRecovery, pendingTerminalFailure
  batch,       \* the generate_image_batch step and its accounting
  pages,       \* the generate_slide_image step of each page
  host,        \* external: the authorization of the batch at the host
  provider,    \* external: the image task of each page
  tick,        \* what the worker's tick is about
  pc,          \* where the worker is
  job,         \* what the worker is doing for each page
  instruction, \* the finalization the worker decided on
  seenBudget,  \* the uncommitted budget of the Run snapshot it decides with
  faults

durable == <<run, batch, pages>>
external == <<host, provider>>
worker == <<tick, pc, job, instruction, seenBudget>>
vars == <<durable, external, worker, faults>>

RunRow == [status: {"EXECUTING", "RECOVERING", "PAUSED", "PAGE_REVIEW", "CANCELLED", "FAILED"},
           budget: 0..MaxBudget, committed: 0..MaxBudget,
           recovery: {"none", "active", "due", "inactive"}, attempt: 0..MaxAttempts,
           pendingFailure: BOOLEAN]

BatchRow == [step: {"NONE", "RUNNING", "RESERVED", "RESERVATION_UNKNOWN", "BILLING_UNKNOWN",
                    "FAILED", "COMPLETED"},
             authorization: {"PENDING", "RESERVED", "REJECTED", "UNKNOWN"},
             settlement: {"NOT_READY", "PENDING", "SETTLED", "RELEASED", "UNKNOWN"},
             committed: 0..Units, settled: 0..Units, released: 0..Units, reserved: BOOLEAN]

PageRow == [status: PageStatuses, disposition: Dispositions \cup {"NONE"}, submitted: BOOLEAN]

HostRow == [state: {"none", "held", "finalized"}, settled: 0..Units, released: 0..Units]

Tasks == {"none", "running", "completed", "failedFree", "failedCharged"}

Jobs == {"none", "refresh", "submit", "mark", "send", "accepted", "refused", "failed", "unknown"}

Points == {"idle", "reconciling", "preflight", "reserving", "callReserve", "reserved",
           "refused", "reserveUnknown", "dispatching", "submitted", "refreshing",
           "finalizing", "callFinalize", "recordFinalized", "finalizeUnknown", "finalized"}

TypeOK ==
  /\ run \in RunRow /\ run.committed <= run.budget
  /\ batch \in BatchRow
  /\ pages \in [Pages -> PageRow]
  /\ host \in HostRow
  /\ provider \in [Pages -> Tasks]
  /\ tick \in {"none", "advance", "reconcile", "terminal"}
  /\ pc \in Points
  /\ job \in [Pages -> Jobs]
  /\ instruction \in [settled: 0..Units, released: 0..Units]
  /\ seenBudget \in 0..MaxBudget
  /\ faults \in 0..MaxFaults

NoInstruction == [settled |-> 0, released |-> 0]

Init ==
  /\ run = [status |-> "EXECUTING", budget |-> InitialBudget, committed |-> 0,
            recovery |-> "none", attempt |-> 0, pendingFailure |-> FALSE]
  /\ batch = [step |-> "NONE", authorization |-> "PENDING", settlement |-> "NOT_READY",
              committed |-> 0, settled |-> 0, released |-> 0, reserved |-> FALSE]
  /\ pages = [p \in Pages |-> [status |-> "NONE", disposition |-> "NONE", submitted |-> FALSE]]
  /\ host = [state |-> "none", settled |-> 0, released |-> 0]
  /\ provider = [p \in Pages |-> "none"]
  /\ tick = "none" /\ pc = "idle"
  /\ job = [p \in Pages |-> "none"]
  /\ instruction = NoInstruction
  /\ seenBudget = 0
  /\ faults = 0

-----------------------------------------------------------------------------
(* What the transactions compute. *)

SettlementFinal(b) == b.settlement \in {"SETTLED", "RELEASED"}

\* A finalization preflight that was refused before anything was committed.
DefinitivePreflightRejection(b) ==
  /\ b.step = "FAILED" /\ ~b.reserved
  /\ b.authorization = "REJECTED" /\ b.settlement = "RELEASED"
  /\ b.committed = 0

\* deriveV4TerminalAccounting: accountingStatus is FINAL.
AccountingFinal(r, b, pg) ==
  IF b.step = "NONE" \/ DefinitivePreflightRejection(b)
    THEN r.committed = 0 /\ \A p \in Pages : pg[p].status = "NONE"
    ELSE /\ b.step = "COMPLETED" /\ SettlementFinal(b)
         /\ \A p \in Pages : pg[p].status \in Settled \cup Released
         /\ b.settled = r.committed

\* failVisualDeckV4Transaction: FAILED only once the accounting is final.  A
\* Run already in recovery cannot enter it again (the transaction throws).
FailRun(r, b, pg) ==
  IF r.status \notin {"EXECUTING", "RECOVERING"} \/ r.pendingFailure THEN r
  ELSE IF AccountingFinal(r, b, pg) THEN [r EXCEPT !.status = "FAILED"]
  ELSE IF r.status = "RECOVERING" THEN r
  ELSE [r EXCEPT !.status = "RECOVERING", !.recovery = "active",
                 !.attempt = 1, !.pendingFailure = TRUE]

\* Variant: a retry forgets how many there were before.
BeginRecoveryUncounted(r, b, pg, disposition) ==
  IF r.status # "EXECUTING" THEN r
  ELSE IF disposition = "RETRYABLE" /\ 1 < MaxAttempts
    THEN [r EXCEPT !.status = "RECOVERING", !.recovery = "active", !.attempt = 1]
  ELSE FailRun([r EXCEPT !.recovery = "inactive", !.attempt = 1], b, pg)

\* beginTechnicalRecovery, with the attempt count of recoveryState.
BeginRecovery(r, b, pg, disposition) ==
  LET attempt == IF r.recovery = "none" THEN 1 ELSE r.attempt + 1
  IN IF r.status # "EXECUTING" THEN r
     ELSE IF disposition = "RETRYABLE" /\ attempt < MaxAttempts
       THEN [r EXCEPT !.status = "RECOVERING", !.recovery = "active", !.attempt = attempt]
     ELSE FailRun([r EXCEPT !.recovery = "inactive",
                            !.attempt = IF attempt < MaxAttempts THEN attempt ELSE MaxAttempts],
                  b, pg)

\* reconcileVisualDeckV4TerminalState; a cancelled Run cannot become FAILED.
ReconcileTerminal(r, b, pg) ==
  IF r.pendingFailure /\ r.status = "RECOVERING" /\ AccountingFinal(r, b, pg)
    THEN [r EXCEPT !.status = "FAILED", !.pendingFailure = FALSE, !.recovery = "inactive"]
    ELSE r

\* requireHuman of a V4 page whose failure is technical, as all of them are.
RequireHuman(r, b, pg, p) ==
  ReconcileTerminal(BeginRecovery(r, b, pg, pg[p].disposition), b, pg)

\* The step status refreshGenerationBatch derives from the accounting.
Refreshed(b) ==
  IF b.step = "NONE" THEN b
  ELSE [b EXCEPT !.step = IF SettlementFinal(b) THEN "COMPLETED"
                          ELSE IF b.authorization = "UNKNOWN" THEN "RESERVATION_UNKNOWN"
                          ELSE IF b.settlement = "UNKNOWN" THEN "BILLING_UNKNOWN"
                          ELSE "RUNNING"]

RecoveryActive == run.recovery \in {"active", "due"}

\* batchFinalization returns an instruction: every page is terminal, and none
\* of them waits for the retry of a recovery in progress.
FinalizationReady ==
  /\ \A p \in Pages : pages[p].status \in Settled \cup Released
  /\ RecoveryActive /\ ~run.pendingFailure => \A p \in Pages : pages[p].status # "FAILED"

UnitsIn(statuses) == Cardinality({p \in Pages : pages[p].status \in statuses})

-----------------------------------------------------------------------------
(* The tick. *)

AllDone == \A p \in Pages : job[p] = "none"

At(point) == pc = point /\ AllDone

Fault(kind) == kind \in FaultKinds /\ faults < MaxFaults /\ faults' = faults + 1

Goto(point) == pc' = point /\ UNCHANGED <<tick, job, instruction, seenBudget>>

\* Dispatch the named job for the pages of the given statuses.
StartJobs(point, name, statuses) ==
  /\ pc' = point
  /\ job' = [p \in Pages |-> IF pages[p].status \in statuses THEN name ELSE "none"]
  /\ UNCHANGED <<tick, instruction, seenBudget>>

EndTick ==
  /\ tick' = "none" /\ pc' = "idle"
  /\ job' = [p \in Pages |-> "none"]
  /\ instruction' = NoInstruction
  /\ seenBudget' = 0

Runnable == run.status \in {"EXECUTING", "RECOVERING"}

\* advanceRun for a runnable Run, the media reconciliation tick for another
\* one with pending media or an unknown batch settlement.  PAGE_REVIEW is
\* runnable too, and belongs to the next stage.  Both begin with
\* reconcilePendingRun.
StartTick ==
  /\ pc = "idle"
  /\ \/ Runnable /\ tick' = "advance"
     \/ /\ run.status \in {"PAUSED", "CANCELLED", "FAILED"}
        /\ batch.step = "BILLING_UNKNOWN" \/ \E p \in Pages : pages[p].status \in PendingMedia
        /\ tick' = "reconcile"
  /\ pc' = "reconciling"
  /\ job' = [p \in Pages |-> IF pages[p].status \in PendingMedia THEN "refresh" ELSE "none"]
  /\ UNCHANGED <<durable, external, instruction, seenBudget, faults>>

TerminalReconcilable ==
  IF tick = "reconcile" THEN run.status \in {"CANCELLED", "FAILED"}
                        ELSE run.status = "RECOVERING" /\ run.pendingFailure

\* reconcileTerminalGenerationBatch, up to the finalization of the batch.
StartTerminalReconciliation ==
  /\ At("reconciling") /\ TerminalReconcilable
  /\ batch' = Refreshed(batch)
  /\ tick' = "terminal" /\ pc' = "finalizing"
  /\ UNCHANGED <<run, pages, external, job, instruction, seenBudget, faults>>

\* resumeTechnicalRecovery: a durable operation of its own, ending the tick.
ResumeRecovery ==
  /\ At("reconciling") /\ tick = "advance"
  /\ run.status = "RECOVERING" /\ run.recovery = "due" /\ ~run.pendingFailure
  /\ run' = [run EXCEPT !.status = "EXECUTING", !.recovery = "inactive"]
  /\ EndTick
  /\ UNCHANGED <<batch, pages, external, faults>>

\* Nothing else to do for the Run in this tick.
ReconciliationOnly ==
  /\ At("reconciling") /\ ~TerminalReconcilable
  /\ \/ tick = "reconcile"
     \/ ~Runnable
     \/ run.status = "RECOVERING" /\ run.recovery # "due"
  /\ EndTick
  /\ UNCHANGED <<durable, external, faults>>

-----------------------------------------------------------------------------
(* submitBlueprintImages: the batch. *)

Advancing(point) == At(point) /\ tick = "advance"

Blocking(p) == pages[p].status \in {"FAILED_NOT_CHARGED", "FAILED_CHARGED", "BILLING_UNKNOWN"}

\* Pages with no accepted task: a FAILED page is one whose technical failure
\* is retried under the key it had.
Unsubmitted == {"NONE", "RESERVED", "SUBMITTING", "SUBMISSION_UNKNOWN", "FAILED"}

ReadyToSubmit == Advancing("reconciling") /\ run.status = "EXECUTING"

SubmissionBlocked ==
  /\ ReadyToSubmit
  /\ \E p \in Pages : Blocking(p) /\ run' = RequireHuman(run, batch, pages, p)
  /\ Goto("submitted")
  /\ UNCHANGED <<batch, pages, external, faults>>

NothingToSubmit ==
  /\ ReadyToSubmit
  /\ \A p \in Pages : ~Blocking(p) /\ pages[p].status \notin Unsubmitted
  /\ batch' = Refreshed(batch)
  /\ Goto("submitted")
  /\ UNCHANGED <<run, pages, external, faults>>

\* ensureGenerationBatch, from the snapshot of the Run read here.  A batch
\* that has its reservation goes straight to the pages.
PlanSubmission ==
  /\ ReadyToSubmit
  /\ \A p \in Pages : ~Blocking(p)
  /\ \E p \in Pages : pages[p].status \in Unsubmitted
  /\ batch' = IF batch.step = "NONE" THEN [batch EXCEPT !.step = "RUNNING"] ELSE batch
  /\ seenBudget' = run.budget - run.committed
  /\ IF batch.reserved
       THEN /\ pc' = "dispatching"
            /\ job' = [p \in Pages |-> IF pages[p].status \in Unsubmitted THEN "submit" ELSE "none"]
       ELSE pc' = "preflight" /\ UNCHANGED job
  /\ UNCHANGED <<run, pages, external, tick, instruction, faults>>

\* preflightGenerationBatchFinalization.  A failed preflight rejects the
\* authorization and keeps committedUnits and the budget of the Run.
Preflight ==
  /\ Advancing("preflight")
  /\ \/ /\ "OK" \in PreflightAnswers
        /\ Goto("reserving")
        /\ UNCHANGED <<run, batch, faults>>
     \/ \E answer \in PreflightAnswers \ {"OK"} :
          LET rejected == answer = "REJECTED"
              b == [batch EXCEPT !.step = "FAILED", !.authorization = "REJECTED",
                                 !.settlement = IF rejected THEN "RELEASED" ELSE "NOT_READY",
                                 !.released = IF rejected THEN Units ELSE 0]
          IN /\ batch' = b
             /\ run' = BeginRecovery(run, b, pages, IF rejected THEN "NON_RETRYABLE" ELSE "RETRYABLE")
             /\ Goto("submitted")
             /\ Fault("UNKNOWN")
  /\ UNCHANGED <<pages, external>>

\* The batch has committed budget of the Run and waits for the host's answer.
BudgetCommitted == batch.step \in {"RESERVED", "RESERVATION_UNKNOWN"}

\* pauseForBudget, decided on the snapshot.
PauseForBudget ==
  /\ Advancing("reserving")
  /\ ~BudgetCommitted /\ Units > seenBudget
  /\ run' = IF run.status = "EXECUTING" THEN [run EXCEPT !.status = "PAUSED"] ELSE run
  /\ Goto("submitted")
  /\ UNCHANGED <<batch, pages, external, faults>>

\* Variant: nothing compares the estimate with the budget.
CommitBudgetUnguarded ==
  /\ Advancing("reserving")
  /\ run.status = "EXECUTING"
  /\ run' = IF BudgetCommitted THEN run ELSE [run EXCEPT !.committed = @ + Units]
  /\ batch' = [batch EXCEPT !.step = "RESERVED", !.authorization = "PENDING",
                            !.settlement = "NOT_READY", !.committed = Units]
  /\ Goto("callReserve")
  /\ UNCHANGED <<pages, external, faults>>

\* The first transaction of reserveGenerationBatch, on the current Run.
CommitBudget ==
  /\ Advancing("reserving")
  /\ \/ /\ BudgetCommitted
        /\ UNCHANGED <<run, batch>>
        /\ Goto("callReserve")
     \/ /\ ~BudgetCommitted /\ Units <= seenBudget
        /\ run.status = "EXECUTING" /\ Units <= run.budget - run.committed
        /\ run' = [run EXCEPT !.committed = @ + Units]
        /\ batch' = [batch EXCEPT !.step = "RESERVED", !.authorization = "PENDING",
                                  !.settlement = "NOT_READY", !.committed = Units]
        /\ Goto("callReserve")
  /\ UNCHANGED <<pages, external, faults>>

\* reserveBudget throws on a Run that was paused or cancelled meanwhile, and
\* failVisualDeckV4Run leaves such a Run alone.
CommitBudgetThrows ==
  /\ Advancing("reserving")
  /\ ~BudgetCommitted /\ Units <= seenBudget
  /\ run.status # "EXECUTING"
  /\ EndTick
  /\ UNCHANGED <<durable, external, faults>>

\* External: reserveBatch.  A held authorization is returned again for its key.
Held == IF host.state = "none" THEN [host EXCEPT !.state = "held"] ELSE host

HostReserves ==
  /\ Advancing("callReserve")
  /\ \/ host' = Held /\ Goto("reserved") /\ UNCHANGED faults
     \/ host.state = "none" /\ UNCHANGED <<host, faults>> /\ Goto("refused")
     \/ host' \in {host, Held} /\ Goto("reserveUnknown") /\ Fault("UNKNOWN")
  /\ UNCHANGED <<durable, provider>>

RecordReserved ==
  /\ Advancing("reserved")
  /\ batch' = [batch EXCEPT !.step = "RUNNING", !.reserved = TRUE, !.committed = Units,
                            !.authorization = "RESERVED", !.settlement = "PENDING"]
  /\ StartJobs("dispatching", "submit", Unsubmitted)
  /\ UNCHANGED <<run, pages, external, faults>>

\* NOT_RESERVED gives the budget back, and the Run waits for more budget.
RecordRefused ==
  /\ Advancing("refused")
  /\ run' = [run EXCEPT !.committed = @ - Units,
                        !.status = IF @ = "EXECUTING" THEN "PAUSED" ELSE @]
  /\ batch' = [batch EXCEPT !.step = "FAILED", !.authorization = "REJECTED",
                            !.settlement = "NOT_READY", !.committed = 0]
  /\ Goto("submitted")
  /\ UNCHANGED <<pages, external, faults>>

\* Variant: an unknown answer is taken for an authorization.
RecordUnknownAsReserved ==
  /\ Advancing("reserveUnknown")
  /\ batch' = [batch EXCEPT !.step = "RUNNING", !.reserved = TRUE, !.committed = Units,
                            !.authorization = "RESERVED", !.settlement = "PENDING"]
  /\ StartJobs("dispatching", "submit", Unsubmitted)
  /\ UNCHANGED <<run, pages, external, faults>>

RecordReserveUnknown ==
  /\ Advancing("reserveUnknown")
  /\ batch' = [batch EXCEPT !.step = "RESERVATION_UNKNOWN", !.authorization = "UNKNOWN"]
  /\ run' = BeginRecovery(run, batch', pages, "RETRYABLE")
  /\ Goto("submitted")
  /\ UNCHANGED <<pages, external, faults>>

-----------------------------------------------------------------------------
(* MediaStepRunner: one page.  The pages of a dispatch run concurrently. *)

Job(p, name) == job' = [job EXCEPT ![p] = name] /\ UNCHANGED <<tick, pc, instruction, seenBudget>>

SetPage(p, status) == pages' = [pages EXCEPT ![p].status = status]

\* Variant: a retry that does not ask whether the task had been accepted.
RetryAllowedUnchecked(p) ==
  pages[p].status = "FAILED" /\ run.recovery = "inactive" /\ run.status = "EXECUTING"

\* canRetryReleasedV4Submission of prepare.
RetryAllowed(p) ==
  /\ pages[p].status = "FAILED" /\ ~pages[p].submitted
  /\ run.recovery = "inactive" /\ run.status = "EXECUTING"

Prepare(p) ==
  /\ job[p] = "submit"
  /\ \/ /\ pages[p].status \in {"NONE", "RESERVED"} \/ RetryAllowed(p)
        /\ SetPage(p, "RESERVED") /\ Job(p, "mark")
     \/ /\ pages[p].status \in {"SUBMITTING", "SUBMISSION_UNKNOWN"}
        /\ Job(p, "refresh") /\ UNCHANGED pages
     \/ /\ pages[p].status = "FAILED" /\ ~RetryAllowed(p)
        /\ Job(p, "none") /\ UNCHANGED pages
  /\ UNCHANGED <<run, batch, external, faults>>

MarkSubmitting(p) ==
  /\ job[p] = "mark"
  /\ SetPage(p, "SUBMITTING")
  /\ Job(p, "send")
  /\ UNCHANGED <<run, batch, external, faults>>

\* External: images.submit.  The provider accepts the task, refuses it,
\* accepts it and fails at once, or its answer is lost.
Send(p) ==
  LET accepted == IF provider[p] = "none" THEN [provider EXCEPT ![p] = "running"] ELSE provider
  IN /\ job[p] = "send"
     /\ \/ provider' = accepted /\ Job(p, "accepted") /\ UNCHANGED faults
        \/ provider[p] = "none" /\ UNCHANGED <<provider, faults>> /\ Job(p, "refused")
        \/ /\ provider[p] = "none"
           /\ \E task \in {"failedFree", "failedCharged"} : provider' = [provider EXCEPT ![p] = task]
           /\ Job(p, "failed") /\ UNCHANGED faults
        \/ provider' \in {provider, accepted} /\ Job(p, "unknown") /\ Fault("UNKNOWN")
     /\ UNCHANGED <<durable, host>>

\* A failure of the page and the technical recovery that begins with it.
RecordFailure(p, status, disposition, submitted) ==
  /\ pages' = [pages EXCEPT ![p] = [status |-> status, disposition |-> disposition,
                                    submitted |-> submitted]]
  /\ run' = BeginRecovery(run, batch, pages', disposition)

\* markDefiniteFailure
DefiniteFailure(p, disposition, submitted) ==
  RecordFailure(p, IF run.status = "CANCELLED" THEN "FAILED_NOT_CHARGED" ELSE "FAILED",
                disposition, submitted)

\* Variant: an unknown answer is taken for a failure that cost nothing.
MarkUnknownAsFailed(p) == RecordFailure(p, "FAILED", "RETRYABLE", FALSE)

\* markUnknown: the page keeps its key and waits for a lookup.
MarkUnknown(p) == RecordFailure(p, "SUBMISSION_UNKNOWN", "RETRYABLE", FALSE)

\* markResultFailure of an accepted task that failed: charged, not charged, ...
ResultFailure(p) ==
  /\ \E disposition \in Dispositions :
       RecordFailure(p, IF provider[p] = "failedCharged" THEN "FAILED_CHARGED"
                                                        ELSE "FAILED_NOT_CHARGED",
                     disposition, TRUE)
  /\ UNCHANGED faults

\* ... or the provider does not tell.
BillingUnknown(p) ==
  /\ \E disposition \in Dispositions : RecordFailure(p, "BILLING_UNKNOWN", disposition, TRUE)
  /\ Fault("UNKNOWN")

RecordSubmission(p) ==
  /\ \/ job[p] = "accepted" /\ SetPage(p, "WAITING") /\ UNCHANGED <<run, faults>>
     \/ /\ job[p] = "refused"
        /\ \E disposition \in Dispositions : DefiniteFailure(p, disposition, FALSE)
        /\ UNCHANGED faults
     \/ job[p] = "failed" /\ (ResultFailure(p) \/ BillingUnknown(p))
     \/ job[p] = "unknown" /\ MarkUnknown(p) /\ UNCHANGED faults
  /\ Job(p, "none")
  /\ UNCHANGED <<batch, external>>

\* recoverUnacknowledgedSubmission asks the provider for the original key.
Lookup(p) ==
  /\ job[p] = "refresh" /\ pages[p].status \in {"SUBMITTING", "SUBMISSION_UNKNOWN"}
  /\ \/ /\ provider[p] # "none"
        /\ SetPage(p, "WAITING") /\ Job(p, "refresh")
        /\ UNCHANGED <<run, faults>>
     \/ /\ provider[p] = "none"
        /\ DefiniteFailure(p, "RETRYABLE", pages[p].submitted) /\ Job(p, "none")
        /\ UNCHANGED faults
     \/ MarkUnknown(p) /\ Job(p, "none") /\ Fault("UNKNOWN")
  /\ UNCHANGED <<batch, external>>

\* markCompleted
Completed(p) ==
  SetPage(p, IF run.status = "CANCELLED" THEN "COMPLETED_AFTER_CANCEL" ELSE "COMPLETED")

\* refreshSlideImage of a page whose task the provider has accepted.
Inspect(p) ==
  /\ job[p] = "refresh" /\ pages[p].status \in {"WAITING", "BILLING_UNKNOWN"}
  /\ \/ provider[p] = "running" /\ UNCHANGED <<run, pages, faults>>
     \/ provider[p] = "completed" /\ Completed(p) /\ UNCHANGED <<run, faults>>
     \/ /\ provider[p] = "failedFree"
        /\ \E disposition \in Dispositions : DefiniteFailure(p, disposition, TRUE)
        /\ UNCHANGED faults
     \/ provider[p] = "failedCharged" /\ ResultFailure(p)
     \/ provider[p] \in {"failedFree", "failedCharged"} /\ BillingUnknown(p)
     \/ MarkUnknown(p) /\ Fault("UNKNOWN")
  /\ Job(p, "none")
  /\ UNCHANGED <<batch, external>>

-----------------------------------------------------------------------------
(* After the dispatch: refreshBlueprintImages and finalizeGenerationBatch. *)

Failing == {p \in Pages : pages[p].status \in MediaFailure}

\* Every dispatched page has answered; a failed one moves the Run into
\* recovery, unless the user has paused or cancelled it.
EndDispatch ==
  /\ Advancing("dispatching")
  /\ IF Failing = {} \/ run.status \in {"PAUSED", "CANCELLED"}
       THEN UNCHANGED run
       ELSE \E p \in Failing : run' = RequireHuman(run, batch, pages, p)
  /\ batch' = Refreshed(batch)
  /\ Goto("submitted")
  /\ UNCHANGED <<pages, external, faults>>

StartRefresh ==
  /\ Advancing("submitted") /\ run.status = "EXECUTING"
  /\ StartJobs("refreshing", "refresh", {"WAITING"})
  /\ UNCHANGED <<durable, external, faults>>

RefreshSkipped ==
  /\ Advancing("submitted") /\ run.status # "EXECUTING"
  /\ EndTick
  /\ UNCHANGED <<durable, external, faults>>

EndRefresh ==
  /\ Advancing("refreshing")
  /\ batch' = Refreshed(batch)
  /\ Goto("finalizing")
  /\ UNCHANGED <<run, pages, external, faults>>

ToFinalize == batch.reserved /\ ~SettlementFinal(batch) /\ FinalizationReady

\* The transaction of finalizeGenerationBatch that reads the instruction.
DecideFinalization ==
  /\ At("finalizing")
  /\ IF ToFinalize
       THEN /\ pc' = "callFinalize"
            /\ instruction' = [settled |-> UnitsIn(Settled), released |-> UnitsIn(Released)]
       ELSE pc' = "finalized" /\ UNCHANGED instruction
  /\ UNCHANGED <<durable, external, tick, job, seenBudget, faults>>

\* External: finalizeBatch.  The host executes the first instruction of the
\* key; another instruction under the same key is an error.
Executed == [state |-> "finalized", settled |-> instruction.settled,
             released |-> instruction.released]

HostFinalizes ==
  /\ At("callFinalize")
  /\ \/ /\ host.state = "held" \/ host = Executed
        /\ host' = Executed /\ Goto("recordFinalized") /\ UNCHANGED faults
     \/ host.state = "finalized" /\ host # Executed
        /\ UNCHANGED <<host, faults>> /\ Goto("finalizeUnknown")
     \/ host' \in {host, IF host.state = "held" THEN Executed ELSE host}
        /\ Goto("finalizeUnknown") /\ Fault("UNKNOWN")
  /\ UNCHANGED <<durable, provider>>

RecordFinalized ==
  /\ At("recordFinalized")
  /\ batch' = [batch EXCEPT !.step = "COMPLETED", !.committed = instruction.settled,
                            !.settled = instruction.settled, !.released = instruction.released,
                            !.settlement = IF instruction.settled = 0 THEN "RELEASED" ELSE "SETTLED"]
  /\ run' = [run EXCEPT !.committed = @ - instruction.released]
  /\ Goto("finalized")
  /\ UNCHANGED <<pages, external, faults>>

\* Variant: an unknown answer is taken for an execution.
RecordUnknownAsFinalized ==
  /\ At("finalizeUnknown")
  /\ Goto("recordFinalized")
  /\ UNCHANGED <<durable, external, faults>>

RecordFinalizeUnknown ==
  /\ At("finalizeUnknown")
  /\ batch' = [batch EXCEPT !.step = "BILLING_UNKNOWN", !.settlement = "UNKNOWN"]
  /\ run' = BeginRecovery(run, batch', pages, "RETRYABLE")
  /\ Goto("finalized")
  /\ UNCHANGED <<pages, external, faults>>

\* The end of refreshBlueprintImages.
EndExecution ==
  /\ Advancing("finalized")
  /\ IF Failing # {}
       THEN \E p \in Failing : run' = RequireHuman(run, batch, pages, p)
       ELSE run' = IF /\ SettlementFinal(batch)
                      /\ \A p \in Pages : pages[p].status = "COMPLETED"
                      /\ run.status = "EXECUTING"
                     THEN [run EXCEPT !.status = "PAGE_REVIEW"]
                     ELSE run
  /\ EndTick
  /\ UNCHANGED <<batch, pages, external, faults>>

\* The end of reconcileTerminalGenerationBatch.
EndTerminalReconciliation ==
  /\ At("finalized") /\ tick = "terminal"
  /\ run' = ReconcileTerminal(run, batch, pages)
  /\ EndTick
  /\ UNCHANGED <<batch, pages, external, faults>>

-----------------------------------------------------------------------------
(* Failures of the worker, and the environment. *)

\* An operation of advanceRun throws: failVisualDeckV4Run(WORKER_FATAL).
WorkerFatal ==
  /\ pc # "idle" /\ AllDone /\ tick # "reconcile"
  /\ run' = FailRun(run, batch, pages)
  /\ EndTick
  /\ Fault("FATAL")
  /\ UNCHANGED <<batch, pages, external>>

\* The process dies, or the tick of a Run that is not runnable throws.
Crash ==
  /\ pc # "idle"
  /\ EndTick
  /\ Fault("CRASH")
  /\ UNCHANGED <<durable, external>>

UserAction(action) ==
  /\ action \in UserActions
  /\ UNCHANGED <<batch, pages, external, worker, faults>>

Pause ==
  /\ UserAction("PAUSE")
  /\ run.status = "EXECUTING"
  /\ run' = [run EXCEPT !.status = "PAUSED"]

Resume ==
  /\ UserAction("RESUME")
  /\ run.status = "PAUSED"
  /\ run' = [run EXCEPT !.status = "EXECUTING"]

Cancel ==
  /\ UserAction("CANCEL")
  /\ run.status \in {"EXECUTING", "RECOVERING", "PAUSED"}
  /\ run' = [run EXCEPT !.status = "CANCELLED"]

AddBudget ==
  /\ UserAction("ADD_BUDGET")
  /\ run.status \in {"EXECUTING", "RECOVERING", "PAUSED"}
  /\ run.budget + TopUp <= MaxBudget
  /\ run' = [run EXCEPT !.budget = @ + TopUp]

\* The retry delay of the recovery is over.
RetryDelayElapses ==
  /\ run.status = "RECOVERING" /\ run.recovery = "active" /\ ~run.pendingFailure
  /\ run' = [run EXCEPT !.recovery = "due"]
  /\ UNCHANGED <<batch, pages, external, worker, faults>>

\* External: the provider ends a task.
ProviderEnds(p) ==
  /\ provider[p] = "running"
  /\ \E task \in {"completed", "failedFree", "failedCharged"} :
       provider' = [provider EXCEPT ![p] = task]
  /\ UNCHANGED <<durable, host, worker, faults>>

PageStep(p) ==
  \/ Prepare(p) \/ MarkSubmitting(p) \/ Send(p) \/ RecordSubmission(p)
  \/ Lookup(p) \/ Inspect(p)

WorkerStep ==
  \/ StartTick \/ StartTerminalReconciliation \/ ResumeRecovery \/ ReconciliationOnly
  \/ SubmissionBlocked \/ NothingToSubmit \/ PlanSubmission \/ Preflight
  \/ PauseForBudget \/ CommitBudget \/ CommitBudgetThrows
  \/ HostReserves \/ RecordReserved \/ RecordRefused \/ RecordReserveUnknown
  \/ \E p \in Pages : PageStep(p)
  \/ EndDispatch \/ StartRefresh \/ RefreshSkipped \/ EndRefresh
  \/ DecideFinalization \/ HostFinalizes \/ RecordFinalized \/ RecordFinalizeUnknown
  \/ EndExecution \/ EndTerminalReconciliation

Environment ==
  \/ WorkerFatal \/ Crash
  \/ Pause \/ Resume \/ Cancel \/ AddBudget
  \/ RetryDelayElapses
  \/ \E p \in Pages : ProviderEnds(p)

Next == WorkerStep \/ Environment

Spec == Init /\ [][Next]_vars

(***************************************************************************)
(* The worker keeps ticking, a delay passes, and the provider ends every   *)
(* task.  Faults are bounded, so a worker that keeps stepping is not kept  *)
(* busy by them.  Nothing is assumed of users.                             *)
(***************************************************************************)
FairSpec ==
  /\ Spec
  /\ WF_vars(WorkerStep)
  /\ WF_vars(RetryDelayElapses)
  /\ \A p \in Pages : WF_vars(ProviderEnds(p))

-----------------------------------------------------------------------------
(* Safety, whatever users, host, provider, crashes and exceptions do. *)

\* Before any image task exists, the host has authorized the whole batch
\* ("runs before any concurrent image submission", reserveGenerationBatch).
AuthorizedBeforeSubmission == (\E p \in Pages : provider[p] # "none") => host.state # "none"

\* The worker never calls the provider for a page whose task was accepted
\* before, however its answer was lost ("never submit a second image task").
NeverResubmitted == \A p \in Pages : job[p] = "send" => provider[p] = "none"

\* Every image task is authorized before it exists and submitted once, whatever
\* is lost, retried or interrupted.  (submitBlueprintImages, submitSlideImage)
SubmittedOnce == AuthorizedBeforeSubmission /\ NeverResubmitted

\* While the host holds the authorization, the Run has at least that much
\* budget committed: an unknown answer never frees it.
HoldIsCommitted == host.state = "held" => run.committed >= Units

\* Once the batch records its settlement, the host has executed exactly that
\* instruction: lost answers, replays and retried pages never make the two
\* ledgers disagree (finalizeGenerationBatch).
RecordMatchesHost ==
  batch.reserved /\ SettlementFinal(batch) =>
    host = [state |-> "finalized", settled |-> batch.settled, released |-> batch.released]

\* A Run is FAILED only when nothing is left open: no authorization held, no
\* task running, and the units it still commits are those settled at the host.
FailedIsFinal ==
  run.status = "FAILED" =>
    /\ host.state # "held"
    /\ \A p \in Pages : provider[p] # "running"
    /\ host.state = "finalized" => run.committed = host.settled

\* The ledgers of the Run, the batch and the host agree while the authorization
\* is held, once it is settled, and when the Run has failed.
\* (reserveGenerationBatch, finalizeGenerationBatch, failVisualDeckV4Transaction)
LedgersAgree == HoldIsCommitted /\ RecordMatchesHost /\ FailedIsFinal

(* Safety of a Run nobody pauses, with a host that answers every preflight.  *)
(* Outside these limits each of the following four fails.                     *)

Submitting(p) == job[p] \in {"mark", "send"}

\* A page is submitted under an authorization the host still holds ("Releasing
\* it here would make recovery submit against a finalized host reservation").
SubmittedUnderHold == \A p \in Pages : Submitting(p) => host.state = "held"

\* What the batch settles is what the provider charged for.
Charged == Cardinality({p \in Pages : provider[p] \in {"completed", "failedCharged"}})

ChargesAreSettled == batch.reserved /\ SettlementFinal(batch) => batch.settled = Charged

\* The Run commits the estimate of its one batch at most once ("safe to
\* replay", reserveGenerationBatch).
CommittedOnce == run.committed <= Units

\* A finalization that is repeated repeats its first instruction.
InstructionIsStable == pc = "callFinalize" /\ host.state = "finalized" => host = Executed

\* The estimate is committed once, the finalization says the same thing however
\* often it is sent, and what it settles is what the provider charged.
\* (reserveGenerationBatch, batchFinalization, finalizeGenerationBatch)
SettlementIsExact == CommittedOnce /\ InstructionIsStable /\ ChargesAreSettled

(* Liveness, under FairSpec. *)

\* A pending terminal failure that waits for a page nobody dispatches.
Stranded == run.pendingFailure /\ \E p \in Pages : pages[p].status \in {"NONE", "RESERVED"}

\* An authorization the host holds is settled or released, unless the user
\* cancels the Run or its failure is stranded.
HoldEnds == host.state = "held" ~> host.state = "finalized" \/ run.status = "CANCELLED" \/ Stranded

\* The Run leaves the execution stage: recoveries are bounded by MaxAttempts.
ExecutionEnds == <>(~Runnable \/ Stranded)

\* Both: neither the Run nor the money the host holds for it is left where only an
\* administrator would find it.  (beginTechnicalRecovery, finalizeGenerationBatch)
ExecutionSettles == HoldEnds /\ ExecutionEnds

=============================================================================

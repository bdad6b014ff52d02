------------------------------ MODULE UsageV2 ------------------------------
(***************************************************************************)
(* Usage V2: how a V4 Run of the tenant frameflow accounts for its image   *)
(* operations.  Every operation asks the host for a permit, every accepted *)
(* one is reported through an outbox of numbered events, and the bill of a *)
(* Run that has ended is closed (src/src/core/usage-v2-coordinator.ts,     *)
(* called by media-step-runner.ts, admin-operations.ts and the worker).    *)
(*                                                                         *)
(* The worker holds the Run lease (module RunLease) and drives the pages   *)
(* concurrently; an administrator acts on one step at a time, without the  *)
(* lease; users act at any moment.  All share the flush lock of the        *)
(* process.  A repository transaction is one step and so is an external    *)
(* call; what one call answered is lost in a crash.                        *)
(*                                                                         *)
(* Abstracted: the reviews between drawing and delivering are one step     *)
(* (module RunLifecycle), the batch is its local reservation (module       *)
(* GenerationBatch has the host one), delays have always passed.  Runs of  *)
(* the older presentation modes have no Usage V2, so the NEEDS_HUMAN path  *)
(* of a rejected event is without effect and left out.                     *)
(***************************************************************************)
EXTENDS RunPolicy, Sequences, FiniteSets

CONSTANTS
  Pages,         \* the pages of the deck, one image operation each
  MaxFaults,     \* bound: crashes, lost calls and refusals
  FaultKinds,    \* the kinds of fault enabled
  UserActions,   \* the user actions enabled
  AdminActions,  \* the administrator actions enabled
  MaxAdmin,      \* bound: administrator actions begun
  Endings,       \* how image tasks may end at the provider
  MaxFailed      \* bound: tasks that have ended otherwise than completed

ASSUME UsageAssumption ==
  /\ IsFiniteSet(Pages) /\ Pages # {}
  /\ MaxFaults \in Nat /\ MaxAdmin \in Nat /\ MaxFailed \in Nat
  /\ FaultKinds \subseteq {"CRASH", "LOST", "REJECTED", "CAP", "DENIED", "REVIEW_REQUIRED"}
  /\ UserActions \subseteq {"PAUSE", "RESUME", "CANCEL"}
  /\ AdminActions \subseteq {"REINSPECT", "MARK_CHARGED", "MARK_NOT_CHARGED"}
  /\ Endings \subseteq {"completed", "refused", "failed", "unknown"}

VARIABLES
  run,       \* the Run row; settled is derived when a transaction needs it
  pages,     \* the generate_slide_image step of each page
  batch,     \* the local reservation of the batch
  outbox,    \* the report_usage_v2 steps
  host,      \* external: the ledger of the host, and whether the bill is closed
  provider,  \* external: the image task of each page
  job,       \* what each client of the coordinator is in the middle of
  flush,     \* the holder of the flush lock, and the last event it listed
  admin,     \* the admin_reconciliation step
  faults     \* faults so far

vars == <<run, pages, batch, outbox, host, provider, job, flush, admin, faults>>

Worker == "worker"
Admin == "admin"
Nobody == "nobody"
ASSUME ClientAssumption == Pages \cap {Worker, Admin, Nobody} = {}

Clients == Pages \cup {Worker, Admin}
Events == Pages \X {"OBSERVED", "RESOLVED"}

\* cause: the technical failure of the step, or why the host refused a permit.
\* op: the step carries the id of the Provider operation.
NoPage == [st |-> "NONE", op |-> FALSE, permit |-> "NONE", cause |-> "NONE"]
NoEvent == [state |-> "NONE", seq |-> 0, billing |-> "UNKNOWN"]
Resting == [at |-> "idle", then |-> "done", kind |-> "none", news |-> "UNKNOWN"]
NoAction(begun) == [action |-> "NONE", on |-> Nobody, begun |-> begun]

Init ==
  /\ run = [status |-> "EXECUTING", resume |-> "NONE", pending |-> "NONE", failed |-> "NONE",
            disposition |-> "PENDING", finalization |-> "NONE", recovery |-> NoRecovery,
            settled |-> FALSE]
  /\ pages = [p \in Pages |-> NoPage]
  /\ batch = "NONE"
  /\ outbox = [e \in Events |-> NoEvent]
  /\ host = [ledger |-> <<>>, closed |-> FALSE]
  /\ provider = [p \in Pages |-> "none"]
  /\ job = [c \in Clients |-> Resting]
  /\ flush = [by |-> Nobody, upto |-> 0]
  /\ admin = NoAction(0)
  /\ faults = 0

-----------------------------------------------------------------------------
\* Shared vocabulary.

At(c, at) == job[c].at = at
\* A client that is done rests; an action of the administrator is completed first.
Goto(c, at) ==
  [job EXCEPT ![c] = IF at = "done" /\ (c # Admin \/ admin.action = "NONE") THEN Resting
                     ELSE [@ EXCEPT !.at = at]]
\* The client flushes the outbox and goes on to then.
ThenFlush(c, then) == [job EXCEPT ![c].at = "flushing", ![c].then = then]
Fault(kind) == kind \in FaultKinds /\ faults < MaxFaults /\ faults' = faults + 1

\* The page a client works on.
Subject(c) == IF c = Admin THEN admin.on ELSE c

\* Variant: a submission that was under way is not looked up.
PendingMediaSent(page) == page.st = "WAITING" \/ (page.st = "BILLING_UNKNOWN" /\ page.op)

\* isPendingMediaReconciliationStep
PendingMedia(page) ==
  \/ page.st \in {"SUBMITTING", "WAITING", "SUBMISSION_UNKNOWN"}
  \/ page.st = "BILLING_UNKNOWN" /\ page.op

Technical == {"RETRYABLE", "NON_RETRYABLE"}
Succeeded == {"COMPLETED", "COMPLETED_AFTER_CANCEL"}
Settled == Succeeded \cup {"FAILED_CHARGED"}
Released == {"FAILED", "FAILED_NOT_CHARGED"}

\* Over the rows of a transaction: the terminal accounting is FINAL.
Accounted(pg, b) ==
  IF b = "NONE" THEN \A p \in Pages : pg[p].st = "NONE"
  ELSE b = "FINAL" /\ \A p \in Pages : pg[p].st \in Settled \cup Released

\* op(r) for the row r with its accounting, which is derived and not stored.
Settling(r, pg, b) == [r EXCEPT !.settled = Accounted(pg, b)]
Stored(r) == [r EXCEPT !.settled = FALSE]

\* beginTechnicalRecovery, which leaves a Run in no recoverable phase alone.
TechnicalFailure(disposition, pg, b) ==
  IF Recoverable(run) THEN Stored(BeginRecovery(Settling(run, pg, b), disposition)) ELSE run

ConcludeFailure(r, pg, b) ==
  IF CanReconcile(Settling(r, pg, b)) THEN Stored(Reconcile(Settling(r, pg, b))) ELSE r

FailWith(code, pg, b) ==
  IF CanFail(Settling(run, pg, b)) THEN Stored(Fail(Settling(run, pg, b), code)) ELSE run

-----------------------------------------------------------------------------
\* The outbox (enqueueEvent, flushEvents, updateOutbox, rejectOutbox).

\* Variant: the sequence does not start at one.
NextSeqLate == 2 + Cardinality({e \in Events : outbox[e].state # "NONE"})

NextSeq == 1 + Cardinality({e \in Events : outbox[e].state # "NONE"})

Enqueued(e, billing) ==
  [outbox EXCEPT ![e] = [state |-> "PENDING", seq |-> NextSeq, billing |-> billing]]

HasRejection == \E e \in Events : outbox[e].state = "REJECTED"
Undelivered == {e \in Events : outbox[e].state = "PENDING"}
OutboxDelivered == \A e \in Events : outbox[e].state \in {"NONE", "ACKNOWLEDGED"}

\* Only the closing of the bill looks at what a flush returned.
FlushReturns(c, delivered) ==
  LET next == IF job[c].then = "closing" /\ ~delivered THEN "done" ELSE job[c].then
  IN job' = [Goto(c, next) EXCEPT ![c].then = "done"]

\* A rejected event stops the outbox until an administrator has it sent again.
FlushNothing(c) ==
  /\ At(c, "flushing") /\ flush.by = Nobody
  /\ HasRejection \/ Undelivered = {}
  /\ FlushReturns(c, ~HasRejection)
  /\ UNCHANGED <<run, pages, batch, outbox, host, provider, flush, admin, faults>>

\* withRunLock, and the list of the steps.
BeginFlush(c) ==
  /\ At(c, "flushing") /\ flush.by = Nobody
  /\ ~HasRejection /\ Undelivered # {}
  /\ flush' = [by |-> c, upto |-> NextSeq - 1]
  /\ UNCHANGED <<run, pages, batch, outbox, host, provider, job, admin, faults>>

Listed == {e \in Undelivered : outbox[e].seq <= flush.upto}
\* Variant: the flush sends any listed event.
AnyToSend == CHOOSE e \in Listed : \A f \in Listed : outbox[e].seq >= outbox[f].seq

\* The oldest listed event.
NextToSend == CHOOSE e \in Listed : \A f \in Listed : outbox[e].seq <= outbox[f].seq

\* External: ingestEvent, idempotent per event id.
TakenByHost(e) ==
  LET entry == [seq |-> outbox[e].seq, page |-> e[1], kind |-> e[2]]
  IN IF \E i \in 1..Len(host.ledger) : host.ledger[i] = entry THEN host
     ELSE [host EXCEPT !.ledger = Append(@, entry)]

Release(delivered) ==
  /\ flush' = [by |-> Nobody, upto |-> 0]
  /\ FlushReturns(flush.by, delivered)

Sending == flush.by # Nobody /\ Listed # {}

EventAcknowledged ==
  /\ Sending
  /\ host' = TakenByHost(NextToSend)
  /\ outbox' = [outbox EXCEPT ![NextToSend].state = "ACKNOWLEDGED"]
  /\ IF Cardinality(Listed) = 1 THEN Release(TRUE) ELSE UNCHANGED <<job, flush>>
  /\ UNCHANGED <<run, pages, batch, provider, admin, faults>>

\* The answer is lost, before or after the host took the event.
EventLost ==
  /\ Sending /\ Fault("LOST")
  /\ host' \in {host, TakenByHost(NextToSend)}
  /\ Release(FALSE)
  /\ UNCHANGED <<run, pages, batch, outbox, provider, admin>>

EventRejected ==
  /\ Sending /\ Fault("REJECTED")
  /\ outbox' = [outbox EXCEPT ![NextToSend].state = "REJECTED"]
  /\ run' = IF Recoverable(run)
            THEN FailWith("TECHNICAL_CONFIGURATION_REQUIRED", pages, batch) ELSE run
  /\ Release(FALSE)
  /\ UNCHANGED <<pages, batch, host, provider, admin>>

-----------------------------------------------------------------------------
\* Reporting an operation: a transaction looks for the event, another adds it.

\* The second of two concurrent reports finds another event under its id: the
\* times differ, and the Run fails with a NON_RETRYABLE conflict.  The verdict
\* of an administrator only throws.
IdentityConflict(c) ==
  /\ run' = IF job[c].kind = "verdict" THEN run
            ELSE TechnicalFailure("NON_RETRYABLE", pages, batch)
  /\ pages' = IF job[c].kind = "verdict" THEN pages
              ELSE [pages EXCEPT ![Subject(c)].cause = "NON_RETRYABLE"]
  /\ job' = IF job[c].kind = "verdict" THEN [job EXCEPT ![c] = Resting] ELSE Goto(c, "done")
  /\ UNCHANGED outbox

AddEvent(c, kind, then) ==
  LET e == <<Subject(c), kind>>
  IN IF outbox[e].state # "NONE" THEN IdentityConflict(c)
     ELSE /\ outbox' = Enqueued(e, IF kind = "OBSERVED" /\ job[c].kind = "refresh"
                                   THEN "UNKNOWN" ELSE job[c].news)
          /\ job' = ThenFlush(c, then)
          /\ UNCHANGED <<run, pages>>

AfterObserved(c) == IF job[c].kind = "send" THEN "done" ELSE "inspect"

\* recordProviderSubmission looks for the event in a transaction of its own,
\* here one step with the read or the write before it.
FindObserved(c) ==
  IF outbox[<<Subject(c), "OBSERVED">>].state # "NONE"
  THEN ThenFlush(c, AfterObserved(c)) ELSE Goto(c, "add_observed")

AddObserved(c) ==
  /\ At(c, "add_observed")
  /\ AddEvent(c, "OBSERVED", AfterObserved(c))
  /\ UNCHANGED <<batch, host, provider, flush, admin, faults>>

\* recordProviderResult: only an operation whose charge is open is resolved, and
\* a persisted resolution stands.  The look at the outbox is one step with the
\* inspection that brought the news.
Resolving(c, client) ==
  LET p == Subject(c)
  IN [job EXCEPT ![c] =
       IF outbox[<<p, "OBSERVED">>].state = "NONE" THEN Resting  \* USAGE_V2_OBSERVED_REQUIRED
       ELSE IF outbox[<<p, "OBSERVED">>].billing = "UNKNOWN" /\ client.news # "UNKNOWN"
                 /\ outbox[<<p, "RESOLVED">>].state = "NONE"
            THEN [client EXCEPT !.at = "add_resolved"]
       ELSE [client EXCEPT !.at = "flushing", !.then = "mark"]]

\* For the verdict of an administrator.
FindResolved ==
  /\ At(Admin, "resolve") /\ job' = Resolving(Admin, job[Admin])
  /\ UNCHANGED <<run, pages, batch, outbox, host, provider, flush, admin, faults>>

AddResolved(c) ==
  /\ At(c, "add_resolved")
  /\ AddEvent(c, "RESOLVED", "mark")
  /\ UNCHANGED <<batch, host, provider, flush, admin, faults>>

-----------------------------------------------------------------------------
\* The page steps (media-step-runner.ts).

KeepTechnical(p, cause) == IF pages[p].cause \in Technical THEN pages[p].cause ELSE cause
Unsuccessful == IF run.status = "CANCELLED" THEN "FAILED_NOT_CHARGED" ELSE "FAILED"

\* A marking writes the page and, for a technical failure, begins the recovery.
Mark(p, st, cause) ==
  /\ pages' = [pages EXCEPT ![p].st = st, ![p].cause = cause]
  /\ run' = IF cause \in Technical THEN TechnicalFailure(cause, pages', batch) ELSE run

MarkUnknown(p, st) == Mark(p, st, "RETRYABLE")

\* The page image of an operation the provider ended.
MarkEnded(p, news) ==
  CASE news = "CHARGED" ->
         /\ pages' = [pages EXCEPT ![p].st =
              IF @ \in Succeeded THEN @
              ELSE IF run.status = "CANCELLED" THEN "COMPLETED_AFTER_CANCEL" ELSE "COMPLETED"]
         /\ UNCHANGED run
    [] news = "NOT_CHARGED" -> Mark(p, Unsuccessful, "RETRYABLE")
    [] news = "UNKNOWN" -> Mark(p, "BILLING_UNKNOWN", "RETRYABLE")

\* The rows a step of a page leaves alone.
KeepUsage == UNCHANGED <<batch, outbox, host, flush, admin>>

Retriable(page) ==
  /\ page.st = "FAILED" /\ run.status = "EXECUTING"
  /\ \/ page.cause = "CAP" /\ ~page.op
     \/ page.cause \in Technical /\ run.recovery.phase # "NONE" /\ ~run.recovery.active

\* prepare: a new step, a retry of a released one, or what the step is already.
Prepare(p) ==
  /\ At(p, "prepare")
  /\ IF pages[p].st = "NONE" \/ Retriable(pages[p])
       THEN pages' = [pages EXCEPT ![p].st = "RESERVED"] /\ job' = Goto(p, "authorize")
       ELSE /\ job' = CASE pages[p].st \in {"RESERVED", "RESERVATION_UNKNOWN"} -> Goto(p, "authorize")
                        [] pages[p].st \in {"SUBMITTING", "SUBMISSION_UNKNOWN"} ->
                             [job EXCEPT ![p].at = "read", ![p].kind = "refresh"]
                        [] OTHER -> Goto(p, "done")
            /\ UNCHANGED pages
  /\ UNCHANGED <<run, provider, faults>> /\ KeepUsage

\* authorizeMediaOperation asks the host unless the step holds its answer; the
\* answer and what submitSlideImage makes of it are one step here.
Permitted(p) ==
  /\ pages' = [pages EXCEPT ![p].permit = "GRANTED"]
  /\ job' = Goto(p, "submitting") /\ UNCHANGED run

Refused(p, permit, cause) ==
  /\ pages' = [pages EXCEPT ![p].permit = permit, ![p].st = Unsuccessful,
                            ![p].cause = KeepTechnical(p, cause)]
  /\ run' = IF pages'[p].cause \in Technical
            THEN TechnicalFailure(pages'[p].cause, pages', batch) ELSE run
  /\ job' = Goto(p, "done")

\* pauseForUsageAuthorizationCap
CapReached(p) ==
  /\ pages' = [pages EXCEPT ![p].st = Unsuccessful, ![p].cause = KeepTechnical(p, "CAP")]
  /\ run' = IF run.status = "EXECUTING" THEN To(run, "PAUSED") ELSE run
  /\ job' = Goto(p, "done")

Authorize(p) ==
  /\ At(p, "authorize")
  /\ LET held == pages[p].permit
     IN \/ held \in {"NONE", "GRANTED"} /\ Permitted(p) /\ UNCHANGED faults
        \/ held = "DENIED" /\ Refused(p, "DENIED", "DENIED") /\ UNCHANGED faults
        \/ held = "REJECTED" /\ Refused(p, "REJECTED", "NON_RETRYABLE") /\ UNCHANGED faults
        \/ held = "NONE" /\ Fault("CAP") /\ CapReached(p)
        \/ held = "NONE" /\ Fault("DENIED") /\ Refused(p, "DENIED", "DENIED")
        \/ held = "NONE" /\ Fault("REJECTED") /\ Refused(p, "REJECTED", "NON_RETRYABLE")
        \/ held = "NONE" /\ Fault("LOST") /\ MarkUnknown(p, "RESERVATION_UNKNOWN")
           /\ job' = Goto(p, "done")
  /\ UNCHANGED provider /\ KeepUsage

MarkSubmitting(p) ==
  /\ At(p, "submitting")
  /\ pages' = [pages EXCEPT ![p].st =
       IF @ \in {"WAITING", "COMPLETED"} THEN @ ELSE "SUBMITTING"]
  /\ job' = Goto(p, "send")
  /\ UNCHANGED <<run, provider, faults>> /\ KeepUsage

\* The tasks that have ended otherwise than completed are bounded.
NotTooManyFailed ==
  Cardinality({q \in Pages : provider'[q] \in {"refused", "failed", "unknown"}}) <= MaxFailed

\* External: the provider is idempotent per key; a refused task may be run again.
Accepted(p) ==
  provider' = [provider EXCEPT ![p] = IF @ \in {"none", "refused"} THEN "running" ELSE @]

SendAccepted(p) ==
  /\ At(p, "send")
  /\ Accepted(p)
  /\ job' = [job EXCEPT ![p].at = "accepted",
                        ![p].news = IF provider[p] = "completed" THEN "CHARGED" ELSE "UNKNOWN"]
  /\ UNCHANGED <<run, pages, faults>> /\ KeepUsage

SendRefused(p) ==
  /\ At(p, "send") /\ Fault("REJECTED") /\ provider[p] \in {"none", "refused"}
  /\ Mark(p, Unsuccessful, "RETRYABLE")
  /\ job' = Goto(p, "done")
  /\ UNCHANGED provider /\ KeepUsage

\* The operation is named by an answer that leaves open whether it was taken, or
\* says that it failed: the step has its id, and no event reports it yet.
SendDoubted(p) ==
  /\ At(p, "send") /\ provider[p] \in {"none", "refused"}
  /\ \E end \in Endings \cap {"unknown", "failed"} :
       /\ provider' = [provider EXCEPT ![p] = end]
       /\ pages' = [pages EXCEPT ![p].op = TRUE, ![p].cause = "RETRYABLE",
            ![p].st = IF end = "unknown" THEN "SUBMISSION_UNKNOWN" ELSE "BILLING_UNKNOWN"]
  /\ NotTooManyFailed
  /\ run' = TechnicalFailure("RETRYABLE", pages', batch)
  /\ job' = Goto(p, "done")
  /\ UNCHANGED faults /\ KeepUsage

SendLost(p) ==
  /\ At(p, "send") /\ Fault("LOST")
  /\ Accepted(p) \/ UNCHANGED provider
  /\ MarkUnknown(p, "SUBMISSION_UNKNOWN")
  /\ job' = Goto(p, "done")
  /\ KeepUsage

\* markWaiting
Waiting(p) == [pages EXCEPT ![p].st = "WAITING", ![p].op = TRUE]

MarkWaiting(p) ==
  /\ At(p, "accepted")
  /\ pages' = Waiting(p) /\ job' = FindObserved(p)
  /\ UNCHANGED <<run, provider, faults>> /\ KeepUsage

\* refreshSlideImage
Read(c) ==
  /\ At(c, "read")
  /\ LET page == pages[Subject(c)]
     IN job' = CASE page.st = "SUBMISSION_UNKNOWN" -> Goto(c, "lookup")
                 [] page.st = "SUBMITTING" /\ ~page.op -> Goto(c, "lookup")
                 [] page.st \in {"WAITING", "BILLING_UNKNOWN"} /\ page.op -> FindObserved(c)
                 [] OTHER -> Goto(c, "done")
  /\ UNCHANGED <<run, pages, provider, faults>> /\ KeepUsage

\* recoverUnacknowledgedSubmission: the lookup under the original key; a task
\* that was found is refreshed.
Lookup(c) ==
  LET p == Subject(c)
  IN /\ At(c, "lookup")
     /\ CASE provider[p] \in {"running", "completed", "failed"} ->
               pages' = Waiting(p) /\ job' = Goto(c, "read") /\ UNCHANGED run
          [] provider[p] = "refused" ->
               Mark(p, Unsuccessful, "RETRYABLE") /\ job' = Goto(c, "done")
          [] OTHER -> MarkUnknown(p, "SUBMISSION_UNKNOWN") /\ job' = Goto(c, "done")
     /\ UNCHANGED <<provider, faults>> /\ KeepUsage

\* What an inspection says of the charge.
News(p) ==
  CASE provider[p] = "completed" -> "CHARGED"
    [] provider[p] = "refused" -> "NOT_CHARGED"
    [] OTHER -> "UNKNOWN"

Inspect(c) ==
  LET p == Subject(c)
  IN /\ At(c, "inspect")
     /\ CASE provider[p] \in {"none", "running"} -> job' = Goto(c, "done") /\ UNCHANGED <<run, pages>>
          [] provider[p] = "unknown" ->
               MarkUnknown(p, "SUBMISSION_UNKNOWN") /\ job' = Goto(c, "done")
          [] OTHER -> job' = Resolving(c, [job[c] EXCEPT !.news = News(p)]) /\ UNCHANGED <<run, pages>>
     /\ UNCHANGED <<provider, faults>> /\ KeepUsage

MarkResult(c) ==
  /\ At(c, "mark") /\ job[c].kind # "verdict"
  /\ MarkEnded(Subject(c), job[c].news)
  /\ job' = Goto(c, "done")
  /\ UNCHANGED <<provider, faults>> /\ KeepUsage

\* External: the image tasks, which end where nobody can tell any earlier.
Asking(c) == job[c].at \in {"send", "lookup", "inspect"}
ProviderEnds(p) ==
  /\ \E c \in Pages \cup {Admin} : Subject(c) = p /\ Asking(c)
  /\ \/ provider[p] = "running" /\ \E end \in Endings : provider' = [provider EXCEPT ![p] = end]
     \/ provider[p] = "unknown" /\ \E end \in {"completed", "refused"} :
          provider' = [provider EXCEPT ![p] = end]
  /\ NotTooManyFailed
  /\ UNCHANGED <<run, pages, batch, outbox, host, job, flush, admin, faults>>

-----------------------------------------------------------------------------
\* The batch (finalizeUsageV2GenerationBatch).

\* batchFinalization and usageV2BatchOutboxReady.  A page is retried while the Run
\* recovers and no failure waits; its code is then one of technicalFailureDisposition.
PageFinal(p) ==
  \/ pages[p].st \in Settled \cup {"FAILED_NOT_CHARGED"}
  \/ /\ pages[p].st = "FAILED"
     /\ ~(run.recovery.active /\ run.pending = "NONE" /\ pages[p].cause \in Technical)

PageReported(p) ==
  pages[p].op =>
    /\ outbox[<<p, "OBSERVED">>].state = "ACKNOWLEDGED"
    /\ \/ outbox[<<p, "OBSERVED">>].billing # "UNKNOWN"
       \/ outbox[<<p, "RESOLVED">>].state = "ACKNOWLEDGED"

FinalizedBatch ==
  IF batch = "HELD" /\ OutboxDelivered /\ \A p \in Pages : PageFinal(p) /\ PageReported(p)
  THEN "FINAL" ELSE batch

\* enqueueUsageV2RunFinalization, when the Run ends.
Ended(r, status) == [To(r, status) EXCEPT !.finalization = Queue(@)]

-----------------------------------------------------------------------------
\* The worker (tick and advanceRun in mock-runtime.ts).

Launch(ps, at, kind, then) ==
  job' = [c \in Clients |-> IF c \in ps THEN [Resting EXCEPT !.at = at, !.kind = kind]
                            ELSE IF c = Worker THEN [job[c] EXCEPT !.at = "waiting", !.then = then]
                            ELSE job[c]]

Idle(c) == At(c, "idle")
KeepMedia == UNCHANGED <<pages, outbox, host, provider, flush, admin, faults>>

PendingPages == {p \in Pages : PendingMedia(pages[p])}
Runnable == run.status \in {"EXECUTING", "RECOVERING", "PAGE_REVIEW", "DELIVERING"}
Unreconciled == PendingPages # {} \/ Undelivered # {} \/ run.finalization = "QUEUED"

\* Either lane of a tick begins by refreshing the pending pages; the lane of
\* the Runs that wait for someone or have ended only reconciles.
StartTick ==
  /\ Idle(Worker) /\ (Runnable \/ Unreconciled)
  /\ Launch(PendingPages, "read", "refresh", IF Runnable THEN "flush" ELSE "reconcile")
  /\ UNCHANGED <<run, batch>> /\ KeepMedia

\* mapWithConcurrency: the worker goes on when the jobs of all pages are done.
JobsDone ==
  /\ At(Worker, "waiting") /\ \A p \in Pages : Idle(p)
  /\ job' = IF job[Worker].then = "flush" THEN ThenFlush(Worker, "advance")
            ELSE Goto(Worker, job[Worker].then)
  /\ UNCHANGED <<run, batch>> /\ KeepMedia

\* reconcileTerminalGenerationBatch
TerminalBatch ==
  \/ run.status \in {"CANCELLED", "FAILED"}
  \/ run.status = "RECOVERING" /\ run.pending # "NONE"

ReconcileTerminal ==
  /\ At(Worker, "reconcile")
  /\ batch' = IF TerminalBatch THEN FinalizedBatch ELSE batch
  /\ run' = IF TerminalBatch THEN ConcludeFailure(run, pages, batch') ELSE run
  /\ job' = ThenFlush(Worker, "check")
  /\ KeepMedia

\* A recovery is resumed, or its failure concluded, in a tick of its own.
AdvanceRecovery ==
  /\ At(Worker, "advance") /\ run.status = "RECOVERING"
  /\ IF run.pending # "NONE"
       THEN batch' = FinalizedBatch /\ run' = ConcludeFailure(run, pages, batch')
       ELSE /\ run' = IF CanResumeRecovery(run) THEN ResumeRecovery(run) ELSE run
            /\ UNCHANGED batch
  /\ job' = Goto(Worker, "done") /\ KeepMedia

MediaFailure == Released \cup {"FAILED_CHARGED", "BILLING_UNKNOWN", "RESERVATION_UNKNOWN", "SUBMISSION_UNKNOWN"}
MayRetry(page) ==
  /\ page.st = "FAILED"
  /\ page.cause \in Technical \/ (page.cause = "CAP" /\ ~page.op)
Blocking(page) ==
  /\ page.st \in MediaFailure \ {"RESERVATION_UNKNOWN", "SUBMISSION_UNKNOWN"}
  /\ ~MayRetry(page)

\* requireHuman: technical failures recover or fail, the others need a person;
\* where the transition is refused the worker fails the Run.
RequireHuman(p) ==
  LET r == IF pages[p].cause \in Technical
             THEN TechnicalFailure(pages[p].cause, pages, batch)
           ELSE IF CanTransition(run, "NEEDS_HUMAN") THEN To(run, "NEEDS_HUMAN")
           ELSE FailWith("WORKER_FATAL", pages, batch)
  IN run' = ConcludeFailure(r, pages, batch)

AdvanceBlocked ==
  /\ At(Worker, "advance") /\ run.status = "EXECUTING"
  /\ \E p \in Pages : Blocking(pages[p]) /\ RequireHuman(p)
  /\ job' = Goto(Worker, "done")
  /\ UNCHANGED batch /\ KeepMedia

\* submitBlueprintImages: the reservation of the batch is local, then the pages
\* that have no image yet are submitted.
ToSubmit ==
  {p \in Pages : \/ pages[p].st \in {"NONE", "RESERVED", "SUBMITTING", "RESERVATION_UNKNOWN",
                                      "SUBMISSION_UNKNOWN"}
                 \/ MayRetry(pages[p])}

AdvanceSubmission ==
  /\ At(Worker, "advance") /\ run.status = "EXECUTING"
  /\ \A p \in Pages : ~Blocking(pages[p])
  /\ batch' = IF batch = "NONE" THEN "HELD" ELSE batch
  /\ Launch(ToSubmit, "prepare", "send", "submitted")
  /\ UNCHANGED run /\ KeepMedia

AfterSubmission ==
  /\ At(Worker, "submitted")
  /\ LET failed == {p \in Pages : pages[p].st \in MediaFailure}
     IN IF failed # {} /\ run.status \notin {"PAUSED", "CANCELLED"}
          THEN job' = Goto(Worker, "done") /\ \E p \in failed : RequireHuman(p)
        ELSE IF run.status # "EXECUTING" THEN job' = Goto(Worker, "done") /\ UNCHANGED run
        ELSE /\ Launch({p \in Pages : pages[p].st = "WAITING"}, "read", "refresh", "settle")
             /\ UNCHANGED run
  /\ UNCHANGED batch /\ KeepMedia

\* refreshBlueprintImages, once the images are in.
Settle ==
  /\ At(Worker, "settle")
  /\ batch' = FinalizedBatch
  /\ LET failed == {p \in Pages : pages[p].st \in MediaFailure}
     IN IF run.status = "EXECUTING" /\ failed # {} THEN \E p \in failed : RequireHuman(p)
        ELSE run' = IF /\ run.status = "EXECUTING" /\ batch' = "FINAL"
                       /\ \A p \in Pages : pages[p].st = "COMPLETED"
                    THEN To(run, "PAGE_REVIEW") ELSE run
  /\ job' = Goto(Worker, "done") /\ KeepMedia

\* Abstracts the reviews and the packaging.
Deliver ==
  /\ At(Worker, "advance") /\ run.status \in {"PAGE_REVIEW", "DELIVERING"}
  /\ run' = IF run.status = "PAGE_REVIEW" THEN [run EXCEPT !.status = "DELIVERING"]
            ELSE Ended(run, "COMPLETED")
  /\ job' = Goto(Worker, "done")
  /\ UNCHANGED batch /\ KeepMedia

\* The Run moved on between the refresh and the advance.
NothingToAdvance ==
  /\ At(Worker, "advance")
  /\ run.status \notin {"EXECUTING", "RECOVERING", "PAGE_REVIEW", "DELIVERING"}
  /\ job' = Goto(Worker, "done")
  /\ UNCHANGED <<run, batch>> /\ KeepMedia

-----------------------------------------------------------------------------
\* Closing the bill of a Run that has ended (reconcileTerminalRun).

CheckFinalization(c) ==
  /\ At(c, "check")
  /\ job' = IF run.status \in TerminalStates /\ run.finalization = "QUEUED"
            THEN ThenFlush(c, "closing") ELSE Goto(c, "done")
  /\ UNCHANGED <<run, batch>> /\ KeepMedia

ClosingPostponed(c) ==
  /\ At(c, "closing") /\ PendingPages # {}
  /\ job' = Goto(c, "done")
  /\ UNCHANGED <<run, batch>> /\ KeepMedia

RejectedCode == "USAGE_V2_FINALIZATION_REJECTED"

\* restoreCompletedRunAfterFinalization and failCompletedRunForFinalization
Restored(r) ==
  IF r.status = "FAILED" /\ r.failed = RejectedCode
  THEN [r EXCEPT !.status = "COMPLETED", !.failed = "NONE"] ELSE r
FailedCompleted(r) ==
  IF r.status = "COMPLETED" THEN [r EXCEPT !.status = "FAILED", !.failed = RejectedCode] ELSE r

\* External: what the ledger of the host says of its operations.
Received(p, kind) == \E i \in 1..Len(host.ledger) : host.ledger[i].page = p /\ host.ledger[i].kind = kind
Billed == {p \in Pages : \/ Received(p, "RESOLVED")
                         \/ Received(p, "OBSERVED") /\ outbox[<<p, "OBSERVED">>].billing # "UNKNOWN"}
Complete == \A p \in Pages : Received(p, "OBSERVED") => p \in Billed

Closing(c) == At(c, "closing") /\ PendingPages = {} /\ job' = Goto(c, "done")
KeepClosing == UNCHANGED <<pages, batch, outbox, provider, flush, admin>>

BillSettled(c) ==
  /\ Closing(c) /\ Complete
  /\ host' = [host EXCEPT !.closed = TRUE]
  /\ run' = Restored([run EXCEPT !.finalization = "COMPLETED"])
  /\ UNCHANGED faults /\ KeepClosing

\* The host still reconciles, or its answer is lost.
BillOpen(c) ==
  /\ Closing(c)
  /\ \/ ~Complete /\ UNCHANGED <<host, faults>>
     \/ Fault("LOST") /\ host' \in {host, [host EXCEPT !.closed = @ \/ Complete]}
  /\ run' = Restored([run EXCEPT !.finalization = "QUEUED"])
  /\ KeepClosing

BillRefused(c) ==
  /\ Closing(c) /\ Fault("REVIEW_REQUIRED")
  /\ run' = FailedCompleted([run EXCEPT !.finalization = "FAILED"])
  /\ UNCHANGED host /\ KeepClosing

-----------------------------------------------------------------------------
\* The administrator (admin-operations.ts).  Without the Run lease, and one
\* action at a time: the step of an action stays RUNNING until it completes.

\* canResolveAccounting, and the identities a verdict under Usage V2 requires.
CanResolve(page, verdict) ==
  \/ page.st \in {"SUBMISSION_UNKNOWN", "BILLING_UNKNOWN"}
  \/ page.st = "FAILED_CHARGED" /\ verdict = "MARK_CHARGED"

Verdicts == {"MARK_CHARGED", "MARK_NOT_CHARGED"}

Begin(action, on) == admin' = [action |-> action, on |-> on, begun |-> admin.begun + 1]

\* What the call does next.
Reinspecting == [Resting EXCEPT !.at = "read", !.kind = "refresh"]
Judging(verdict) ==
  [Resting EXCEPT !.at = "resolve", !.kind = "verdict",
                  !.news = IF verdict = "MARK_CHARGED" THEN "CHARGED" ELSE "NOT_CHARGED"]

MayBegin(action) ==
  action \in AdminActions /\ admin.begun < MaxAdmin /\ admin.action = "NONE" /\ Idle(Admin)
KeepAdmin == UNCHANGED <<host, provider, flush, faults>>

\* act with REINSPECT, of a page.
ReinspectPage(p) ==
  /\ MayBegin("REINSPECT")
  /\ pages[p].st \in {"WAITING", "BILLING_UNKNOWN"} /\ pages[p].op
  /\ Begin("REINSPECT", p)
  /\ job' = [job EXCEPT ![Admin] = Reinspecting]
  /\ UNCHANGED <<run, pages, batch, outbox>> /\ KeepAdmin

\* act with REINSPECT, of a rejected event or of the finalization: the step of the
\* action is written first.
Retries == {"RETRY_OBSERVED", "RETRY_RESOLVED", "RETRY_FINALIZATION"}
RetryOf(e) == IF e[2] = "OBSERVED" THEN "RETRY_OBSERVED" ELSE "RETRY_RESOLVED"
Retrying == [Resting EXCEPT !.at = "retry"]

BeginRetryEvent(e) ==
  /\ MayBegin("REINSPECT") /\ outbox[e].state = "REJECTED"
  /\ Begin(RetryOf(e), e[1])
  /\ job' = [job EXCEPT ![Admin] = Retrying]
  /\ UNCHANGED <<run, pages, batch, outbox>> /\ KeepAdmin

BeginRetryFinalization ==
  /\ MayBegin("REINSPECT") /\ run.finalization = "FAILED"
  /\ Begin("RETRY_FINALIZATION", Nobody)
  /\ job' = [job EXCEPT ![Admin] = Retrying]
  /\ UNCHANGED <<run, pages, batch, outbox>> /\ KeepAdmin

RetriesEvent(e) ==
  admin.action = RetryOf(e) /\ admin.on = e[1] /\ outbox[e].state = "REJECTED"
RetriesFinalization == admin.action = "RETRY_FINALIZATION" /\ run.finalization = "FAILED"

\* retryRejectedEvent
RetryEvent(e) ==
  /\ At(Admin, "retry") /\ RetriesEvent(e)
  /\ outbox' = [outbox EXCEPT ![e].state = "PENDING"]
  /\ job' = ThenFlush(Admin, "done")
  /\ UNCHANGED <<run, pages, batch, admin>> /\ KeepAdmin

\* retryRejectedFinalization
RetryFinalization ==
  /\ At(Admin, "retry") /\ RetriesFinalization
  /\ run' = [run EXCEPT !.finalization = "QUEUED"]
  /\ job' = Goto(Admin, "check")
  /\ UNCHANGED <<pages, batch, outbox, admin>> /\ KeepAdmin

\* act with MARK_CHARGED or MARK_NOT_CHARGED.
BeginVerdict(p, verdict) ==
  /\ MayBegin(verdict) /\ batch # "NONE"
  /\ pages[p].op /\ CanResolve(pages[p], verdict)
  /\ Begin(verdict, p)
  /\ job' = [job EXCEPT ![Admin] = Judging(verdict)]
  /\ UNCHANGED <<run, pages, batch, outbox>> /\ KeepAdmin

\* The call is repeated under its key after it was cut short or threw; it is
\* refused when the step is no longer one to inspect, or to retry: the action
\* then stays RUNNING, and no other may begin.
Act ==
  /\ admin.action # "NONE" /\ Idle(Admin)
  /\ \/ admin.action \in Verdicts /\ job' = [job EXCEPT ![Admin] = Judging(admin.action)]
     \/ /\ admin.action = "REINSPECT" /\ pages[admin.on].st \in {"WAITING", "BILLING_UNKNOWN"}
        /\ job' = [job EXCEPT ![Admin] = Reinspecting]
     \/ /\ RetriesFinalization \/ \E e \in Events : RetriesEvent(e)
        /\ job' = [job EXCEPT ![Admin] = Retrying]
  /\ UNCHANGED <<run, batch>> /\ KeepMedia

\* resolveBatchAccounting, which throws when the page has moved on.
ResolveAccounting ==
  LET p == admin.on
      desired == IF admin.action = "MARK_CHARGED" THEN "FAILED_CHARGED" ELSE "FAILED_NOT_CHARGED"
  IN /\ At(Admin, "mark") /\ job[Admin].kind = "verdict"
     /\ IF pages[p].st = desired \/ CanResolve(pages[p], admin.action)
          THEN pages' = [pages EXCEPT ![p].st = desired] /\ job' = Goto(Admin, "refinalize")
          ELSE job' = [job EXCEPT ![Admin] = Resting] /\ UNCHANGED pages
     /\ UNCHANGED <<run, batch, outbox, admin>> /\ KeepAdmin

RefinalizeBatch ==
  /\ At(Admin, "refinalize")
  /\ batch' = FinalizedBatch /\ job' = Goto(Admin, "done")
  /\ UNCHANGED run /\ KeepMedia

CompleteAction ==
  /\ At(Admin, "done") /\ admin.action # "NONE"
  /\ admin' = NoAction(admin.begun)
  /\ job' = [job EXCEPT ![Admin] = Resting]
  /\ UNCHANGED <<run, pages, batch, outbox>> /\ KeepAdmin

-----------------------------------------------------------------------------
\* Users, and the process.

User(action) ==
  /\ action \in UserActions
  /\ CASE action = "PAUSE" -> run.status \in PausableStates /\ run' = To(run, "PAUSED")
       [] action = "RESUME" -> run.status = "PAUSED" /\ run' = To(run, run.resume)
       [] action = "CANCEL" -> CanTransition(run, "CANCELLED") /\ run' = Ended(run, "CANCELLED")
  /\ UNCHANGED <<batch, job>> /\ KeepMedia

Crash ==
  /\ Fault("CRASH") /\ \E c \in Clients : ~Idle(c)
  /\ job' = [c \in Clients |-> Resting]
  /\ flush' = [by |-> Nobody, upto |-> 0]
  /\ UNCHANGED <<run, pages, batch, outbox, host, provider, admin>>

-----------------------------------------------------------------------------
Refresh(c) ==
  Read(c) \/ Lookup(c) \/ Inspect(c) \/ MarkResult(c) \/ AddObserved(c) \/ AddResolved(c)

Submit(p) ==
  \/ Prepare(p) \/ Authorize(p) \/ MarkSubmitting(p)
  \/ SendAccepted(p) \/ SendRefused(p) \/ SendDoubted(p) \/ SendLost(p) \/ MarkWaiting(p)

Send == EventAcknowledged \/ EventLost \/ EventRejected
Flush(c) == FlushNothing(c) \/ BeginFlush(c)

Advance ==
  \/ AdvanceRecovery \/ AdvanceBlocked \/ AdvanceSubmission \/ Deliver \/ NothingToAdvance

Tick ==
  \/ StartTick \/ JobsDone \/ ReconcileTerminal
  \/ Advance \/ AfterSubmission \/ Settle

Close(c) ==
  CheckFinalization(c) \/ ClosingPostponed(c) \/ BillSettled(c) \/ BillOpen(c) \/ BillRefused(c)

AdminNext ==
  \/ \E p \in Pages : ReinspectPage(p)
  \/ \E e \in Events : BeginRetryEvent(e) \/ RetryEvent(e)
  \/ BeginRetryFinalization \/ RetryFinalization
  \/ \E p \in Pages, verdict \in Verdicts : BeginVerdict(p, verdict)
  \/ Act \/ FindResolved \/ ResolveAccounting \/ RefinalizeBatch \/ CompleteAction

Next ==
  \/ \E p \in Pages : Submit(p) \/ ProviderEnds(p)
  \/ \E c \in Pages \cup {Admin} : Refresh(c)
  \/ \E c \in Clients : Flush(c)
  \/ \E c \in {Worker, Admin} : Close(c)
  \/ Send \/ Tick \/ AdminNext \/ Crash
  \/ \E action \in UserActions : User(action)

Spec == Init /\ [][Next]_vars

-----------------------------------------------------------------------------
Codes == FailureCodes \cup {"NONE", "TECHNICAL_CONFIGURATION_REQUIRED", RejectedCode}

\* Every row holds what the transactions can write into it, and an event is
\* numbered within the events of the Run.  (enqueueEvent)
TypeOK ==
  /\ run \in [status : Statuses, resume : Statuses \cup {"NONE"}, pending : Codes, failed : Codes,
              disposition : {"PENDING", "HARD_FAILURE"}, settled : {FALSE}, recovery : Recoveries,
              finalization : {"NONE", "QUEUED", "FAILED", "COMPLETED"}]
  /\ pages \in [Pages -> [op : BOOLEAN,
       st : {"NONE", "RESERVED", "SUBMITTING", "WAITING"} \cup Succeeded \cup MediaFailure,
       permit : {"NONE", "GRANTED", "DENIED", "REJECTED"},
       cause : Technical \cup {"NONE", "CAP", "DENIED"}]]
  /\ batch \in {"NONE", "HELD", "FINAL"}
  /\ outbox \in [Events -> [state : {"NONE", "PENDING", "ACKNOWLEDGED", "REJECTED"},
                            seq : 0..Cardinality(Events),
                            billing : {"UNKNOWN", "CHARGED", "NOT_CHARGED"}]]
  /\ host.closed \in BOOLEAN /\ Len(host.ledger) <= Cardinality(Events)
  /\ provider \in [Pages -> {"none", "running"} \cup {"completed", "refused", "failed", "unknown"}]
  /\ flush.by \in Clients \cup {Nobody}
  /\ admin.action \in {"NONE", "REINSPECT"} \cup Verdicts \cup Retries

Ledger == INSTANCE UsageLedger
  WITH Operations <- Pages, ledger <- host.ledger, billed <- Billed, closed <- host.closed

\* The host receives the events of a Run in the order of their sequence, none
\* twice, none missing, each operation observed before it is resolved, and
\* closes the bill over a ledger without open charges, whatever call is lost or
\* repeated (flushEvents, enqueueEvent, reconcileTerminalRun).
LedgerIsKept == Ledger!Spec

\* When the bill is closed every operation the provider took is in it: none is
\* still unreported behind a lost answer or a crash.
BilledInFull ==
  host.closed => \A p \in Pages : provider[p] \in {"running", "completed", "failed"} => p \in Billed

\* A Run whose pages are reviewed or delivered has reported all its operations
\* to the host, with their charges: the batch that lets it leave the drawing
\* waits for its usage events (finalizeUsageV2GenerationBatch).  With several pages a
\* verdict of an administrator closes the batch without.
DeliveredOnlyReported ==
  run.status \in {"PAGE_REVIEW", "DELIVERING", "COMPLETED"} => OutboxDelivered /\ Billed = Pages

\* Whichever way the drawing ends, what the provider did is on the bill: before the
\* pages go on, and before the bill is closed.  (finalizeUsageV2GenerationBatch,
\* reconcileTerminalRun)
ReportedInFull == BilledInFull /\ DeliveredOnlyReported
=============================================================================

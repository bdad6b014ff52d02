-------------------------- MODULE QuickDeckEvaluation --------------------------
(***************************************************************************)
(* One quick-deck evaluation: plan the deck, submit an image task for      *)
(* every page under its own idempotency key, poll and drain the tasks,     *)
(* package the deck, and remove everything when the job expires            *)
(* (src/src/core/quick-deck-evaluation-service.ts, its recovery and its    *)
(* SQLite adapter; the image gateway is modelled from the answers          *)
(* src/src/adapters/gateway-image-generation.ts distinguishes).            *)
(*                                                                         *)
(* A worker works under a claim, a lease row with its token and an end;    *)
(* every save renews it, and fails once it has run out or been taken over. *)
(* Between two saves a worker has only its own copy of the record.  A      *)
(* network call and the save of what it said are separate steps, except    *)
(* that the answer to a submission is saved as soon as it is there.        *)
(*                                                                         *)
(* SUBMITTED and PROCESSING pages behave alike and are one status here.    *)
(* Which failure code is published, events, billing labels, sizes and      *)
(* hashes are left out; an error code is only present or absent.  The      *)
(* daily and concurrency limits of create concern several jobs and are not *)
(* modelled: the job is there.                                             *)
(***************************************************************************)
EXTENDS Naturals, FiniteSets

CONSTANTS
  Workers,
  PageCount,    \* request.slideCount
  MaxFaults,    \* bound: claims that run out, saves that throw, calls that fail
  MaxRestarts   \* bound: restarts of the process

ASSUME QuickDeckAssumption ==
  PageCount \in Nat \ {0} /\ MaxFaults \in Nat /\ MaxRestarts \in Nat

Pages == 1 .. PageCount
\* Artifacts have numbers: the image of a page has the number of the page.
Preview == PageCount + 1
Pptx == PageCount + 2
Deck == {Preview, Pptx}

VARIABLES
  job,       \* the stored record
  lease,     \* its row in quick_deck_evaluation_leases
  worker,    \* what each worker is doing, with its copy of the record
  store,     \* the artifact store: page images and the deck
  gateway,   \* external: the image task under the key of each page
  sent,      \* how often a submission was sent under the key of each page
  late,      \* the deadlines of the job that have passed
  faults, restarts

vars == <<job, lease, worker, store, gateway, sent, late, faults, restarts>>
outside == <<store, gateway, sent>>

\* art: the artifactId of the page's image is recorded.  op: operationId is.
Page == [st: {"PENDING", "SUBMITTED", "COMPLETED", "FAILED"},
         sub: {"NOT_SUBMITTED", "UNKNOWN", "SUBMITTED"},
         op: BOOLEAN, err: BOOLEAN, art: BOOLEAN]
FreshPage == [st |-> "PENDING", sub |-> "NOT_SUBMITTED",
              op |-> FALSE, err |-> FALSE, art |-> FALSE]

\* due: nextAttemptAt is set.  pending: pendingFailure is set.  drain: drainDeadline
\* is set.  cleanup: cleanupPending.  window: cleanupDeadline is set.  audit:
\* cleanupAuditRequired.  out: the deck artifacts recorded.
Record == [status: {"QUEUED", "PLANNING", "SUBMITTING_IMAGES", "GENERATING",
                    "PACKAGING", "COMPLETED", "FAILED", "EXPIRED"},
           pages: [Pages -> Page], due: BOOLEAN, pending: BOOLEAN, drain: BOOLEAN,
           cleanup: BOOLEAN, window: BOOLEAN, audit: BOOLEAN, out: SUBSET Deck]
NewRecord == [status |-> "QUEUED", pages |-> [p \in Pages |-> FreshPage], due |-> TRUE,
              pending |-> FALSE, drain |-> FALSE, cleanup |-> FALSE, window |-> FALSE,
              audit |-> FALSE, out |-> {}]

PlanningSteps == {"plan", "model", "preflight", "page", "call", "await"}
PollingSteps == {"recover", "interrupted", "inspect", "progress", "preview", "pptx", "deliver"}
ExpirySteps == {"survey", "expire", "remove", "settle"}
Steps == {"idle", "broken", "release"} \cup PlanningSteps \cup PollingSteps \cup ExpirySteps
\* page: the page being submitted (0: none).  todo: artifacts to remove.  open:
\* the cleanup window was open when the expiry was claimed.  missed: something
\* about the cleanup is still unknown.
WorkerState == [at: Steps, rec: Record, page: 0 .. PageCount,
                todo: SUBSET (Pages \cup Deck), open: BOOLEAN, missed: BOOLEAN]
Idle == [at |-> "idle", rec |-> NewRecord, page |-> 0,
         todo |-> {}, open |-> FALSE, missed |-> FALSE]

TypeOK ==
  /\ job \in Record
  /\ lease \in [holder: Workers \cup {"none"}, live: BOOLEAN]
  /\ worker \in [Workers -> WorkerState]
  /\ store \subseteq (Pages \cup Deck)
  /\ gateway \in [Pages -> {"none", "flying", "pending", "unknown", "refused", "done", "failed"}]
  /\ sent \in [Pages -> Nat]
  /\ late \subseteq {"expiry", "drain", "cleanup"}
  /\ faults \in 0 .. MaxFaults /\ restarts \in 0 .. MaxRestarts

Init ==
  /\ job = NewRecord
  /\ lease = [holder |-> "none", live |-> FALSE]
  /\ worker = [w \in Workers |-> Idle]
  /\ store = {}
  /\ gateway = [p \in Pages |-> "none"]
  /\ sent = [p \in Pages |-> 0]
  /\ late = {} /\ faults = 0 /\ restarts = 0

--------------------------------------------------------------------------------
(* Pages and what they say about the job. *)

Terminal(page) == page.st \in {"COMPLETED", "FAILED"}
Unresolved(pages) == \E p \in Pages : ~Terminal(pages[p])
FailureIn(pages) == \E p \in Pages : pages[p].st = "FAILED" \/ pages[p].sub = "UNKNOWN"
ReconciledFailure(rec, pages) == rec.pending \/ FailureIn(pages)

\* A page no submission was started for is given up: no key is submitted late.
Skipped(page) ==
  IF page.st = "PENDING" /\ page.sub = "NOT_SUBMITTED"
  THEN [page EXCEPT !.st = "FAILED", !.err = TRUE] ELSE page
NotAccepted(page) ==
  [page EXCEPT !.st = "FAILED", !.sub = "NOT_SUBMITTED", !.op = FALSE, !.err = TRUE]
AllSubmitted(pages) ==
  \A p \in Pages : pages[p].sub = "SUBMITTED" /\ pages[p].op /\ ~pages[p].err

Failed(rec) == [rec EXCEPT !.status = "FAILED", !.due = FALSE]
Generating(rec) == [rec EXCEPT !.status = "GENERATING", !.due = TRUE]
StartDraining(rec) == [Generating(rec) EXCEPT !.pending = TRUE, !.drain = TRUE]

--------------------------------------------------------------------------------
(* Claims. *)

\* Variant: the lease must run, whoever's token it has.
HoldsAnyToken(w) == lease.live
Holds(w) == lease.holder = w /\ lease.live
Free == lease.holder = "none" \/ ~lease.live
Active == {"QUEUED", "PLANNING", "SUBMITTING_IMAGES", "GENERATING", "PACKAGING"}

Enter(w, step) == worker' = [worker EXCEPT ![w].at = step]
Leave(w) == worker' = [worker EXCEPT ![w] = [Idle EXCEPT !.at = "release"]]

\* The save and the renewal are one transaction; QuickDeckClaimLostError ends
\* the worker's turn.
SaveClaimed(w, rec, step) ==
  /\ IF Holds(w)
     THEN /\ job' = rec
          /\ IF step = "release" THEN Leave(w)
             ELSE worker' = [worker EXCEPT ![w].at = step, ![w].rec = rec]
     ELSE UNCHANGED job /\ Leave(w)
  /\ UNCHANGED <<lease, late, faults, restarts>>

\* Variant: an interrupted submission is planned and submitted again.
FirstStepReplays(status) ==
  IF status \in {"QUEUED", "PLANNING", "SUBMITTING_IMAGES"} THEN "plan" ELSE "inspect"

FirstStep(status) ==
  CASE status = "QUEUED" -> "plan"
    [] status = "PLANNING" -> "interrupted"
    [] status = "SUBMITTING_IMAGES" -> "recover"
    [] OTHER -> "inspect"

ClaimRunnable(w) ==
  /\ worker[w].at = "idle" /\ Free
  /\ job.status \in Active /\ job.due /\ "expiry" \notin late
  /\ lease' = [holder |-> w, live |-> TRUE]
  /\ worker' = [worker EXCEPT ![w].at = FirstStep(job.status), ![w].rec = job]
  /\ UNCHANGED <<job, outside, late, faults, restarts>>

\* Variant: an EXPIRED job is never claimed again.
ClaimExpiredOnce(w) ==
  /\ worker[w].at = "idle" /\ Free
  /\ "expiry" \in late /\ job.status # "EXPIRED"
  /\ lease' = [holder |-> w, live |-> TRUE]
  /\ worker' = [worker EXCEPT ![w].at = "survey", ![w].rec = job, ![w].open = TRUE]
  /\ UNCHANGED <<job, outside, late, faults, restarts>>

ClaimExpired(w) ==
  /\ worker[w].at = "idle" /\ Free
  /\ "expiry" \in late /\ (job.status # "EXPIRED" \/ job.cleanup)
  /\ lease' = [holder |-> w, live |-> TRUE]
  /\ worker' = [worker EXCEPT ![w].at = "survey", ![w].rec = job,
                              ![w].open = ~(job.window /\ "cleanup" \in late)]
  /\ UNCHANGED <<job, outside, late, faults, restarts>>

ReleaseClaim(w) ==
  /\ worker[w].at = "release"
  /\ lease' = IF lease.holder = w THEN [holder |-> "none", live |-> FALSE] ELSE lease
  /\ worker' = [worker EXCEPT ![w] = Idle]
  /\ UNCHANGED <<job, outside, late, faults, restarts>>

--------------------------------------------------------------------------------
(* planAndSubmit. *)

SavePlanning(w) ==
  /\ worker[w].at = "plan"
  /\ SaveClaimed(w, [worker[w].rec EXCEPT !.status = "PLANNING", !.due = TRUE], "model")
  /\ UNCHANGED outside

ModelFails(w) ==
  /\ worker[w].at = "model"
  /\ SaveClaimed(w, Failed(worker[w].rec), "release")
  /\ UNCHANGED outside

ModelAnswers(w) ==
  /\ worker[w].at = "model"
  /\ SaveClaimed(w, [worker[w].rec EXCEPT !.status = "SUBMITTING_IMAGES", !.due = FALSE], "preflight")
  /\ UNCHANGED outside

SavePreflight(w) ==
  /\ worker[w].at = "preflight"
  /\ SaveClaimed(w, [worker[w].rec EXCEPT !.due = TRUE], "page")
  /\ UNCHANGED outside

\* The pages are taken in order; page holds the last one taken.
NextPage(w) == worker[w].page + 1
SkipRemaining(w) ==
  \E p \in 1 .. worker[w].page : worker[w].rec.pages[p].st = "FAILED"

SkipPage(w) ==
  /\ worker[w].at = "page" /\ NextPage(w) \in Pages /\ SkipRemaining(w)
  /\ LET rec == [worker[w].rec EXCEPT !.pages[NextPage(w)] = NotAccepted(@)] IN
     /\ IF Holds(w)
        THEN job' = rec /\ worker' = [worker EXCEPT ![w].rec = rec, ![w].page = @ + 1]
        ELSE UNCHANGED job /\ Leave(w)
     /\ UNCHANGED <<lease, outside, late, faults, restarts>>

\* Only the page that is about to cross the paid boundary becomes uncertain.
MarkPage(w) ==
  /\ worker[w].at = "page" /\ NextPage(w) \in Pages /\ ~SkipRemaining(w)
  /\ LET rec == [worker[w].rec EXCEPT !.pages[NextPage(w)] = [FreshPage EXCEPT !.sub = "UNKNOWN"]] IN
     /\ IF Holds(w)
        THEN /\ job' = rec
             /\ worker' = [worker EXCEPT ![w].rec = rec, ![w].page = @ + 1, ![w].at = "call"]
        ELSE UNCHANGED job /\ Leave(w)
     /\ UNCHANGED <<lease, outside, late, faults, restarts>>

WithPage(w, page) == [worker[w].rec EXCEPT !.pages[worker[w].page] = page]
ThePage(w) == worker[w].rec.pages[worker[w].page]

\* assertModelEligibility refuses before the provider is called.
ModelNotEligible(w) ==
  /\ worker[w].at = "call"
  /\ SaveClaimed(w, WithPage(w, NotAccepted(ThePage(w))), "page")
  /\ UNCHANGED outside

Submit(w) ==
  /\ worker[w].at = "call"
  /\ LET p == worker[w].page IN
     /\ sent' = [sent EXCEPT ![p] = @ + 1]
     /\ gateway' = [gateway EXCEPT ![p] = IF @ = "none" THEN "flying" ELSE @]
  /\ Enter(w, "await")
  /\ UNCHANGED <<job, lease, store, late, faults, restarts>>

\* What acceptedOperationState makes of a task the gateway has on record.
Answered(page, task) ==
  CASE task \in {"pending", "done"} -> [page EXCEPT !.st = "SUBMITTED", !.sub = "SUBMITTED", !.op = TRUE]
    [] task = "unknown" -> [page EXCEPT !.op = TRUE, !.err = TRUE]
    [] task = "refused" -> NotAccepted(page)
    [] OTHER -> [page EXCEPT !.sub = "SUBMITTED", !.op = TRUE, !.err = TRUE]

SubmitAnswered(w) ==
  /\ worker[w].at = "await"
  /\ LET p == worker[w].page IN
     /\ gateway[p] \notin {"none", "flying"}
     /\ SaveClaimed(w, WithPage(w, Answered(ThePage(w), gateway[p])), "page")
  /\ UNCHANGED outside

\* No answer, from the call or from the lookup after it: the request may still arrive.
SubmitUnanswered(w) ==
  /\ worker[w].at = "await"
  /\ SaveClaimed(w, WithPage(w, [ThePage(w) EXCEPT !.err = TRUE]), "page")
  /\ UNCHANGED outside

\* An HTTP refusal: nothing was put on record and nothing will be.
SubmitRejected(w) ==
  /\ worker[w].at = "await"
  /\ LET p == worker[w].page IN
     /\ gateway[p] = "flying"
     /\ gateway' = [gateway EXCEPT ![p] = "none"]
     /\ SaveClaimed(w, WithPage(w, NotAccepted(ThePage(w))), "page")
  /\ UNCHANGED <<store, sent>>

\* The images.submitted event before images.draining saves the same record.
FinishSubmission(w) ==
  /\ worker[w].at = "page" /\ NextPage(w) \notin Pages
  /\ LET rec == worker[w].rec IN
     IF \E p \in Pages : rec.pages[p].err
     THEN SaveClaimed(w, IF Unresolved(rec.pages) THEN StartDraining(rec) ELSE Failed(rec), "release")
     ELSE SaveClaimed(w, Generating(rec), "release")
  /\ UNCHANGED outside

--------------------------------------------------------------------------------
(* Recovery inside a tick. *)

FailInterrupted(w) ==
  /\ worker[w].at = "interrupted"
  /\ SaveClaimed(w, Failed(worker[w].rec), "release")
  /\ UNCHANGED outside

\* recoverSubmissionPersistenceFailure
RecoveredSubmission(rec) ==
  LET pages == [p \in Pages |-> Skipped(rec.pages[p])]
      next == [rec EXCEPT !.pages = pages]
  IN IF ~ReconciledFailure(rec, pages) /\ AllSubmitted(pages)
       THEN [Generating(next) EXCEPT !.pending = FALSE, !.drain = FALSE]
     ELSE IF ~Unresolved(pages) THEN Failed(next)
     ELSE StartDraining(next)

RecoverSubmission(w) ==
  /\ worker[w].at = "recover"
  /\ SaveClaimed(w, RecoveredSubmission(worker[w].rec), "release")
  /\ UNCHANGED outside

\* The catch of tick reads the record again.
Broken(w) ==
  /\ worker[w].at = "broken"
  /\ IF job.status = "SUBMITTING_IMAGES"
     THEN SaveClaimed(w, RecoveredSubmission(job), "release")
     ELSE IF job.status \in Active
     THEN SaveClaimed(w, Failed(job), "release")
     ELSE Leave(w) /\ UNCHANGED <<job, lease, late, faults, restarts>>
  /\ UNCHANGED outside
--------------------------------------------------------------------------------
(* inspectAndPackage. *)

NeedsLookup(page) ==
  /\ ~Terminal(page) /\ page.sub # "NOT_SUBMITTED"
  /\ page.sub = "UNKNOWN" \/ ~page.op
Pollable(page) == ~Terminal(page) /\ page.op /\ page.sub # "UNKNOWN"

\* lookupByIdempotency: a gateway without the key, or unsure, says UNKNOWN.
LookedUp(page, task) ==
  CASE task \in {"pending", "done", "failed"} ->
         [page EXCEPT !.st = "SUBMITTED", !.sub = "SUBMITTED", !.op = TRUE,
                      !.err = @ /\ page.sub # "UNKNOWN"]
    [] task = "refused" -> NotAccepted(page)
    [] OTHER -> page

FailedInspection(page) ==
  [page EXCEPT !.st = "FAILED", !.sub = "SUBMITTED", !.op = TRUE, !.err = TRUE]

\* A task the gateway became unsure of is polled again only after a lookup.
Inspected(page, task) ==
  CASE task = "done" -> [page EXCEPT !.st = "COMPLETED", !.err = FALSE, !.art = TRUE]
    [] task = "failed" -> FailedInspection(page)
    [] task = "refused" -> NotAccepted(page)
    [] task = "unknown" -> [page EXCEPT !.st = "PENDING", !.sub = "UNKNOWN", !.err = TRUE]
    [] OTHER -> page

\* The calls for all pages run together; those outside heard and seen failed,
\* which is no evidence of anything.  inspect stores a finished image; reading
\* it back may throw, and then what was learnt is lost.
Inspect(w) ==
  /\ worker[w].at = "inspect"
  /\ \E heard, seen \in SUBSET Pages :
       LET old == worker[w].rec.pages
           known == [p \in Pages |-> IF p \in heard /\ NeedsLookup(old[p])
                                     THEN LookedUp(old[p], gateway[p]) ELSE old[p]]
           polled == {p \in seen : Pollable(known[p])}
           new == [p \in Pages |-> IF p \in polled THEN Inspected(known[p], gateway[p]) ELSE known[p]]
           stored == {p \in polled : gateway[p] = "done"}
       IN /\ store' = store \cup stored
          /\ \/ /\ worker' = [worker EXCEPT ![w].at = "progress", ![w].rec.pages = new]
                /\ UNCHANGED faults
             \/ /\ stored # {} /\ faults < MaxFaults
                /\ faults' = faults + 1
                /\ Enter(w, "broken")
  /\ UNCHANGED <<job, lease, gateway, sent, late, restarts>>

\* Variant: a timed-out page gets a status of its own.
TimedOutStatus(pages) ==
  [p \in Pages |-> IF Terminal(pages[p]) THEN pages[p]
                   ELSE [pages[p] EXCEPT !.st = "TIMED_OUT", !.err = TRUE]]

TimedOut(pages) ==
  [p \in Pages |-> IF Terminal(pages[p]) THEN pages[p]
                   ELSE [pages[p] EXCEPT !.st = "FAILED", !.err = TRUE]]

KeepPolling(w) ==
  /\ worker[w].at = "progress"
  /\ LET rec == worker[w].rec IN
     /\ Unresolved(rec.pages)
     /\ ~(rec.drain /\ "drain" \in late)
     /\ SaveClaimed(w, IF ReconciledFailure(rec, rec.pages) THEN StartDraining(rec)
                       ELSE [rec EXCEPT !.due = TRUE], "release")
  /\ UNCHANGED outside

DrainTimesOut(w) ==
  /\ worker[w].at = "progress"
  /\ LET rec == worker[w].rec IN
     /\ Unresolved(rec.pages)
     /\ rec.drain /\ "drain" \in late
     /\ SaveClaimed(w, Failed([rec EXCEPT !.pages = TimedOut(@)]), "release")
  /\ UNCHANGED outside

FailResolved(w) ==
  /\ worker[w].at = "progress"
  /\ LET rec == worker[w].rec IN
     /\ ~Unresolved(rec.pages) /\ ReconciledFailure(rec, rec.pages)
     /\ SaveClaimed(w, Failed(rec), "release")
  /\ UNCHANGED outside

StartPackaging(w) ==
  /\ worker[w].at = "progress"
  /\ LET rec == worker[w].rec IN
     /\ ~Unresolved(rec.pages) /\ ~ReconciledFailure(rec, rec.pages)
     /\ SaveClaimed(w, [rec EXCEPT !.status = "PACKAGING", !.due = TRUE], "preview")
  /\ UNCHANGED outside

\* package: an artifact stored by an earlier attempt is used again.  The images
\* loaded for the preview serve the PPTX.
PutPreview(w) ==
  /\ worker[w].at = "preview"
  /\ Preview \in store \/ Pages \subseteq store
  /\ store' = store \cup {Preview}
  /\ Enter(w, "pptx")
  /\ UNCHANGED <<job, lease, gateway, sent, late, faults, restarts>>

PutPptx(w) ==
  /\ worker[w].at = "pptx"
  /\ store' = store \cup {Pptx}
  /\ Enter(w, "deliver")
  /\ UNCHANGED <<job, lease, gateway, sent, late, faults, restarts>>

Deliver(w) ==
  /\ worker[w].at = "deliver"
  /\ SaveClaimed(w, [worker[w].rec EXCEPT !.status = "COMPLETED", !.due = FALSE, !.out = Deck], "release")
  /\ UNCHANGED outside

PackagingFails(w) ==
  /\ worker[w].at \in {"preview", "pptx"}
  /\ SaveClaimed(w, Failed(worker[w].rec), "release")
  /\ UNCHANGED outside

--------------------------------------------------------------------------------
(* expire. *)

\* Nothing is known of the image of such a page.
Uncertain(page) ==
  /\ page.sub # "NOT_SUBMITTED" /\ ~page.art
  /\ ~(page.st = "FAILED" /\ page.sub = "SUBMITTED" /\ page.op)

Settled(page, task) ==
  CASE task = "done" -> [page EXCEPT !.art = TRUE]
    [] task = "refused" -> NotAccepted(page)
    [] task = "failed" -> FailedInspection(page)

\* unread: deck artifacts whose lookup in the store threw.
Survey(w) ==
  /\ worker[w].at = "survey"
  /\ \E heard \in SUBSET Pages, unread \in SUBSET Deck :
       LET rec == worker[w].rec
           open == worker[w].open
           unsure == {p \in Pages : Uncertain(rec.pages[p])}
           answered == {p \in unsure \cap heard : open /\ gateway[p] \in {"done", "refused", "failed"}}
           found == {p \in answered : gateway[p] = "done"}
           deck == (Deck \cap store) \ unread
           missing == unread # {} \/ unsure \ answered # {}
           new == [rec EXCEPT
             !.pages = [p \in Pages |-> IF p \in answered THEN Settled(@[p], gateway[p]) ELSE @[p]],
             !.out = @ \cup deck,
             !.audit = @ \/ (~open /\ missing)]
       IN /\ faults + Cardinality(unread) <= MaxFaults
          /\ faults' = faults + Cardinality(unread)
          /\ store' = store \cup found
          /\ worker' = [worker EXCEPT
               ![w].at = "expire", ![w].rec = new, ![w].missed = open /\ missing,
               ![w].todo = {p \in Pages : new.pages[p].art} \cup new.out]
  /\ UNCHANGED <<job, lease, gateway, sent, late, restarts>>

\* Variant: only what is unknown keeps the cleanup pending.
SaveExpiredAsClean(w) ==
  /\ worker[w].at = "expire"
  /\ SaveClaimed(w, [worker[w].rec EXCEPT !.status = "EXPIRED", !.due = FALSE,
       !.cleanup = worker[w].missed, !.window = worker[w].missed], "remove")
  /\ UNCHANGED outside

\* EXPIRED is saved, and the cleanup made durable, before anything is deleted.
SaveExpired(w) ==
  /\ worker[w].at = "expire"
  /\ LET cleanup == worker[w].missed \/ (worker[w].todo # {} /\ worker[w].open) IN
     SaveClaimed(w, [worker[w].rec EXCEPT !.status = "EXPIRED", !.due = FALSE,
                                          !.cleanup = cleanup, !.window = cleanup], "remove")
  /\ UNCHANGED outside

Remove(w) ==
  /\ worker[w].at = "remove"
  /\ \E a \in worker[w].todo \cap store : store' = store \ {a}
  /\ UNCHANGED <<job, lease, worker, gateway, sent, late, faults, restarts>>

\* What is still there could not be removed.
RemovalDone(w) ==
  /\ worker[w].at = "remove"
  /\ LET left == worker[w].todo \cap store IN
     /\ faults + Cardinality(left) <= MaxFaults
     /\ faults' = faults + Cardinality(left)
     /\ worker' = [worker EXCEPT ![w].at = "settle", ![w].todo = left]
  /\ UNCHANGED <<job, lease, outside, late, restarts>>

SaveCleanup(w) ==
  /\ worker[w].at = "settle"
  /\ LET left == worker[w].todo
         pending == worker[w].missed \/ left # {}
         again == pending /\ worker[w].open
         kept == [p \in Pages |-> [worker[w].rec.pages[p] EXCEPT !.art = @ /\ p \in left]]
     IN SaveClaimed(w, [worker[w].rec EXCEPT
          !.pages = kept, !.out = @ \cap left, !.cleanup = again, !.window = again,
          !.audit = @ \/ (pending /\ ~worker[w].open)], "release")
  /\ UNCHANGED outside

--------------------------------------------------------------------------------
(* Faults, time, restarts and the gateway. *)

\* A save throws: inside a claimed turn tick catches it, elsewhere the turn ends.
SaveThrows(w) ==
  /\ worker[w].at \notin {"idle", "release", "inspect", "survey", "remove"}
  /\ faults < MaxFaults
  /\ faults' = faults + 1
  /\ IF worker[w].at \in ExpirySteps \cup {"broken"} THEN Leave(w)
     ELSE worker' = [worker EXCEPT ![w] = [Idle EXCEPT !.at = "broken"]]
  /\ UNCHANGED <<job, lease, outside, late, restarts>>

ClaimRunsOut ==
  /\ lease.live /\ faults < MaxFaults
  /\ lease' = [lease EXCEPT !.live = FALSE]
  /\ faults' = faults + 1
  /\ UNCHANGED <<job, worker, outside, late, restarts>>

Expires ==
  /\ late' = late \cup {"expiry"}
  /\ UNCHANGED <<job, lease, worker, outside, faults, restarts>>
DrainPasses ==
  /\ job.drain /\ late' = late \cup {"drain"}
  /\ UNCHANGED <<job, lease, worker, outside, faults, restarts>>
CleanupPasses ==
  /\ job.window /\ late' = late \cup {"cleanup"}
  /\ UNCHANGED <<job, lease, worker, outside, faults, restarts>>

\* recoverInterruptedQuickDeckEvaluation
Resumed(rec) ==
  LET pages == [p \in Pages |-> Skipped(rec.pages[p])]
      next == [rec EXCEPT !.pages = pages]
  IN IF rec.status = "SUBMITTING_IMAGES" /\ ~rec.pending /\ AllSubmitted(pages)
       THEN [Generating(next) EXCEPT !.drain = FALSE]
     ELSE IF ~Unresolved(pages) THEN [Failed(next) EXCEPT !.pending = FALSE]
     ELSE IF /\ rec.status = "GENERATING" /\ ~rec.pending
             /\ \A p \in Pages : pages[p].st # "PENDING" \/ pages[p].sub # "UNKNOWN"
       THEN [next EXCEPT !.due = TRUE]
     ELSE StartDraining(next)

Recovered(rec) ==
  CASE rec.status = "PACKAGING" -> [rec EXCEPT !.due = TRUE]
    [] rec.status = "PLANNING" -> [Failed(rec) EXCEPT !.pending = FALSE]
    [] rec.status \in {"SUBMITTING_IMAGES", "GENERATING"} -> Resumed(rec)
    [] OTHER -> rec

\* The process stops anywhere; the next one starts with recoverInterrupted.
Restart ==
  /\ restarts < MaxRestarts
  /\ restarts' = restarts + 1
  /\ worker' = [w \in Workers |-> Idle]
  /\ lease' = [holder |-> "none", live |-> FALSE]
  /\ job' = Recovered(job)
  /\ UNCHANGED <<outside, late, faults>>

\* A finished result expires in the gateway too (done to failed).
GatewayStep(p) ==
  /\ \/ gateway[p] = "flying" /\ gateway' = [gateway EXCEPT ![p] = "pending"]
     \/ /\ gateway[p] \in {"pending", "unknown"}
        /\ \E task \in {"unknown", "refused", "done", "failed"} : gateway' = [gateway EXCEPT ![p] = task]
     \/ gateway[p] = "done" /\ gateway' = [gateway EXCEPT ![p] = "failed"]
  /\ UNCHANGED <<job, lease, worker, store, sent, late, faults, restarts>>

PlanAndSubmit(w) ==
  \/ SavePlanning(w) \/ ModelFails(w) \/ ModelAnswers(w) \/ SavePreflight(w)
  \/ SkipPage(w) \/ MarkPage(w) \/ ModelNotEligible(w) \/ Submit(w)
  \/ SubmitAnswered(w) \/ SubmitUnanswered(w) \/ SubmitRejected(w) \/ FinishSubmission(w)
InspectAndPackage(w) ==
  \/ Inspect(w) \/ KeepPolling(w) \/ DrainTimesOut(w) \/ FailResolved(w) \/ StartPackaging(w)
  \/ PutPreview(w) \/ PutPptx(w) \/ Deliver(w) \/ PackagingFails(w)
Expire(w) == Survey(w) \/ SaveExpired(w) \/ Remove(w) \/ RemovalDone(w) \/ SaveCleanup(w)
Work(w) ==
  \/ ClaimRunnable(w) \/ ClaimExpired(w) \/ ReleaseClaim(w)
  \/ FailInterrupted(w) \/ RecoverSubmission(w) \/ Broken(w)
  \/ PlanAndSubmit(w) \/ InspectAndPackage(w) \/ Expire(w)

Next ==
  \/ \E w \in Workers : Work(w) \/ SaveThrows(w)
  \/ \E p \in Pages : GatewayStep(p)
  \/ ClaimRunsOut \/ Expires \/ DrainPasses \/ CleanupPasses \/ Restart

Spec == Init /\ [][Next]_vars

\* The worker loop ticks for ever, every call it makes has a timeout, and the
\* clock reaches the deadlines.
FairSpec == Spec /\ \A w \in Workers : WF_vars(Work(w))
                 /\ WF_vars(Expires) /\ WF_vars(DrainPasses) /\ WF_vars(CleanupPasses)

--------------------------------------------------------------------------------
(* Correctness. *)

\* The image task of a page is paid for once: whatever is interrupted, lost or
\* taken over, no key is submitted twice.
SubmittedOnce == \A p \in Pages : sent[p] <= 1

\* A page recorded NOT_SUBMITTED, and so not charged, has no task at the gateway
\* and no request under way to it.
NotSubmittedIsTrue ==
  \A p \in Pages : job.pages[p].sub = "NOT_SUBMITTED" => gateway[p] \in {"none", "refused"}

\* A page is in doubt when its submission is unknown and no worker that can
\* still save is waiting for the answer.
InDoubt ==
  /\ \E p \in Pages : job.pages[p].sub = "UNKNOWN"
  /\ ~\E w \in Workers : Holds(w) /\ worker[w].at \in {"call", "await"}

\* A submission that was ever in doubt is an audit risk: the job never
\* completes, even when a later lookup finds the task (reconciledFailure).
DoubtNeverCompletes == [](InDoubt => [](job.status # "COMPLETED"))

\* While a job is COMPLETED its deck can be downloaded: nothing a stale worker
\* or an expiry that lost its claim does has removed any of it.
DownloadReady ==
  job.status = "COMPLETED" =>
    /\ job.out = Deck
    /\ Deck \cup Pages \subseteq store
    /\ \A p \in Pages : job.pages[p].st = "COMPLETED"

\* A worker that lost its claim cannot take a job back from its end: COMPLETED
\* and FAILED only expire, EXPIRED stays.
EndIsFinal ==
  [][job.status \in {"COMPLETED", "FAILED", "EXPIRED"} =>
       job' = job \/ job'.status = "EXPIRED"]_job

\* One worker: once an expired job counts as cleaned up within its window, no
\* preview or PPTX of it is left, wherever packaging or cleanup was cut off.
DeckIsGone ==
  /\ job.status = "EXPIRED" /\ ~job.cleanup /\ ~job.audit
  /\ "cleanup" \notin late
  => Deck \cap store = {}

\* The deck is whole while it is offered, and gone once its job is cleaned up.
\* (package, expire)
DeckIsKept == DownloadReady /\ DeckIsGone

\* The record is honest whoever takes the claim over: what ended stays ended, what was
\* ever in doubt never ends well, and what is written off was never submitted.
\* (saveClaimed, reconciledFailure, recoverOperationIds)
EndsAreHonest == EndIsFinal /\ DoubtNeverCompletes /\ []NotSubmittedIsTrue

\* Every job is eventually expired and its cleanup comes to an end.
EventuallyCleaned == <>[](job.status = "EXPIRED" /\ ~job.cleanup)
================================================================================

---------------------------- MODULE RunLifecycle ----------------------------
(***************************************************************************)
(* The life of one V4 Run: planning, drawing the page, reviewing the page  *)
(* and the deck, revising in bounded rounds, delivering; with technical    *)
(* recovery, the terminal failure that waits for the accounting, the       *)
(* quality policy and the actions of users.  The worker is advanceRun      *)
(* (src/src/runtime/mock-runtime.ts) and the runners it calls.             *)
(*                                                                         *)
(* The lease gives the Run one worker (module RunLease), so worker says    *)
(* what it is in the middle of, and the round of the row it read when it   *)
(* began: users act at any moment, and move the row on under it.  A crash  *)
(* leaves the rows as they are.  A step of the worker is what happens      *)
(* between two calls to something outside the process.  A transaction that *)
(* throws changes nothing, and advanceRun then fails the Run (Throw).      *)
(*                                                                         *)
(* One slide.  The image batch and its authorization are abstracted to the *)
(* image step and run.settled; module GenerationBatch has the detail.      *)
(***************************************************************************)
EXTENDS RunPolicy

\* How the calls of the models may fail.
Call == INSTANCE ContractCall

CONSTANTS
  MaxRounds,   \* maxRevisionRounds of the Run
  MaxReplans,  \* MAX_PLANNING_RETRIES, 2 in the code
  MaxStages,   \* the stages of the V4 planner, each durable
  Automation,  \* the automation levels a Run may be created with
  Compilers,   \* the compilers of the blueprints: this release's chain and older ones
  UserActions  \* the actions users may take

ASSUME LifecycleAssumption ==
  /\ MaxRounds \in Nat /\ MaxReplans \in Nat /\ MaxStages \in Nat
  /\ Automation \subseteq {"SUPERVISED", "BOUNDED_AUTO"} /\ Automation # {}
  /\ Compilers \subseteq Call!Chains /\ Compilers # {}
  /\ UserActions \subseteq
       {"RETRY_PLANNING", "REPLAN", "APPROVE_BLUEPRINT", "REQUEST_BLUEPRINT_REVISION",
        "PAUSE", "RESUME", "CANCEL", "APPROVE_REVISION", "REJECT_REVISION", "SUBMIT_LIMITED_REVISION",
        "ACCEPT_WITH_OVERRIDE", "RETRY_DELIVERY"}

Rounds == 0..MaxRounds
Attempts == 0..MaxReplans
\* HARD is what isHardQualityIssue says of an issue; no policy accepts it.
Levels == {"SOFT", "HARD"}
Dispositions == {"RETRYABLE", "NON_RETRYABLE"}
Failures == Dispositions \cup {"INTERNAL"}

\* issue.detected: of says who found it, n is the attempt or the round.
Issues == [of: {"planning", "page", "deck", "image"}, n: Rounds \cup Attempts, level: Levels]

VARIABLES
  run,     \* the Run row
  steps,   \* the step rows, one field per tool
  issues,  \* the issues detected and not resolved
  worker   \* what the worker is in the middle of

vars == <<run, steps, issues, worker>>

\* real: the step was prepared with the inputs of the round, not with the error
\* that kept them away; the two input hashes differ.
NoReview == [st |-> "NONE", real |-> TRUE, ok |-> FALSE, repair |-> {}]
NoPlan == [st |-> "NONE", origin |-> "NONE", fixes |-> {}]

Resting == [at |-> "idle", round |-> 0]

\* run.accepted: the events say that issues were accepted on the way to an
\* earlier delivery, and say so for ever.

Init ==
  /\ \E level \in Automation, chain \in Compilers :
       run = [status |-> "PLANNING", resume |-> "NONE", recovery |-> NoRecovery,
              pending |-> "NONE", failed |-> "NONE", settled |-> TRUE,
              disposition |-> "PENDING", accepted |-> FALSE, finalization |-> "NONE",
              automation |-> level, chain |-> chain, round |-> 0, attempt |-> 0]
  /\ steps = [planning |-> [a \in Attempts |-> "NONE"],
              stages |-> [a \in Attempts |-> 0],
              exhausted |-> {}, outages |-> {},
              image |-> [r \in Rounds |-> "NONE"],
              page |-> [r \in Rounds |-> "NONE"],
              deck |-> [r \in Rounds |-> NoReview],
              plan |-> [r \in 1..MaxRounds |-> NoPlan],
              apply |-> [r \in 1..MaxRounds |-> "NONE"],
              delivery |-> [r \in Rounds |-> "NONE"],
              repaired |-> {}, broken |-> {}]
  /\ issues = {}
  /\ worker = Resting

-----------------------------------------------------------------------------
\* The worker.

\* A tick of the worker that finds the Run in this status.
At(what) == worker.at = what
Tick(status) == At("idle") /\ run.status = status

\* The worker begins, goes on with, and is done with what it reads the row for.
Goes(what) == worker' = [at |-> what, round |-> run.round]
Continues(what) == worker' = [worker EXCEPT !.at = what]
Idle == worker' = Resting

\* advanceRun catches what a runner throws and fails the Run.
Fatal == IF CanFail(run) THEN Fail(run, "WORKER_FATAL") ELSE run

Throw ==
  /\ run' = Fatal
  /\ Idle
  /\ UNCHANGED <<steps, issues>>

\* A transaction that moves the Run to a status, or throws.
MoveOrThrow(to) ==
  \/ CanTransition(run, to) /\ run' = To(run, to) /\ Idle /\ UNCHANGED <<steps, issues>>
  \/ ~CanTransition(run, to) /\ Throw

\* beginTechnicalRecovery, when the caller has no other outcome for a Run that
\* is in no phase to restore.
RecoverIfPossible(d) == run' = IF Recoverable(run) THEN BeginRecovery(run, d) ELSE run

\* The process ends; the worker that takes the Run over starts a new tick.
Crash == ~At("idle") /\ Idle /\ UNCHANGED <<run, steps, issues>>

-----------------------------------------------------------------------------
\* PLANNING.

PlanningIssue(a) == [of |-> "planning", n |-> a, level |-> "HARD"]

\* clearCompletedPlanningRecovery.
ClearRecovery ==
  IF run.status = "PLANNING" /\ run.recovery.phase = "PLANNING" /\ ~run.recovery.active
  THEN [run EXCEPT !.recovery = NoRecovery] ELSE run

\* The source of the Run cannot be read: the outage is a step of its own.
SourceOutage(d) ==
  /\ Tick("PLANNING")
  /\ steps' = [steps EXCEPT !.outages = @ \cup {run.attempt}]
  /\ run' = BeginRecovery(run, d)
  /\ UNCHANGED <<issues, worker>>

\* The source is read.  A planning step that is complete is replayed, and
\* nothing else happens.
BeginPlanning ==
  LET a == run.attempt
      read == [steps EXCEPT !.outages = @ \ {a}]
  IN /\ Tick("PLANNING")
     /\ run' = IF a \in steps.outages THEN ClearRecovery ELSE run
     /\ IF steps.planning[a] = "COMPLETED"
        THEN steps' = read /\ UNCHANGED worker
        ELSE steps' = [read EXCEPT !.planning[a] = "RUNNING"] /\ Goes("planning")
     /\ UNCHANGED issues

StageCompletes ==
  /\ At("planning") /\ steps.stages[run.attempt] < MaxStages
  /\ steps' = [steps EXCEPT !.stages[run.attempt] = @ + 1]
  /\ run' = ClearRecovery
  /\ UNCHANGED <<issues, worker>>

\* complete; it throws when the Run was cancelled, and so does the fail that
\* answers it.
PlanningCompletes ==
  LET a == run.attempt
      before == {b \in Attempts : b + 1 = a /\ steps.planning[b] = "FAILED"}
  IN /\ At("planning") /\ steps.stages[a] = MaxStages
     /\ \/ /\ CanTransition(run, "EXECUTING")
           /\ run' = To(run, "EXECUTING")
           /\ steps' = [steps EXCEPT !.planning[a] = "COMPLETED"]
           /\ issues' = issues \ {PlanningIssue(b) : b \in {a} \cup before}
           /\ Idle
        \/ ~CanTransition(run, "EXECUTING") /\ Throw

\* fail.  A source that is incomplete and a manuscript whose repair is used up
\* need a person; everything else is technical.
PlanningFails ==
  LET a == run.attempt
      failed == [steps EXCEPT !.planning[a] = "FAILED"]
  IN /\ At("planning")
     /\ \/ /\ run.status = "PLANNING"
           /\ \/ /\ \E d \in Dispositions : run' = BeginRecovery(run, d)
                 /\ steps' = failed
              \/ /\ run' = To(run, "NEEDS_HUMAN")
                 /\ \E used \in {{}, {a}} : steps' = [failed EXCEPT !.exhausted = @ \cup used]
           /\ issues' = issues \cup {PlanningIssue(a)}
           /\ Idle
        \/ run.status # "PLANNING" /\ Throw

-----------------------------------------------------------------------------
\* EXECUTING and REVISING: the image of the round.

ImageIssue(r) == [of |-> "image", n |-> r, level |-> "HARD"]
Unfinished == {"PENDING", "UNKNOWN"}
NothingUnfinished == \A r \in Rounds : steps.image[r] \notin Unfinished
InMediaPhase(r) == r.status \in {"EXECUTING", "REVISING"}

\* revision.completed with a temporary failure of the provider marks the round.
Broken(d) ==
  IF run.status = "REVISING" /\ d = "RETRYABLE" THEN steps.broken \cup {run.round}
                                                ELSE steps.broken

\* The tick of the image phases; in REVISING it comes after the application.
MediaTick ==
  /\ At("idle") /\ InMediaPhase(run)
  /\ run.status = "REVISING" => steps.apply[run.round] = "COMPLETED"

BeginImage ==
  /\ MediaTick /\ steps.image[run.round] = "NONE"
  /\ Goes("media")
  /\ UNCHANGED <<run, steps, issues>>

\* The budget of the Run is short.  What the transaction does with a Run that
\* was paused or cancelled meanwhile differs between the two coordinators.
BudgetShort ==
  /\ At("media") /\ run.settled
  /\ IF run.status = "PAUSED" /\ run.resume = "EXECUTING"
     THEN Idle /\ UNCHANGED <<run, steps, issues>>
     ELSE MoveOrThrow("PAUSED")

\* The authorization holds the batch from its reservation on.
SubmitImage ==
  /\ At("media") /\ InMediaPhase(run)
  /\ steps' = [steps EXCEPT !.image[worker.round] = "PENDING"]
  /\ run' = [run EXCEPT !.settled = FALSE]
  /\ Idle
  /\ UNCHANGED issues

\* The batch is reserved, nothing is submitted: the Run was stopped, or the
\* authorization reached its cap and the Run is paused.
ImageNotSubmitted ==
  /\ At("media")
  /\ run' = [(IF InMediaPhase(run) THEN To(run, "PAUSED") ELSE run) EXCEPT !.settled = FALSE]
  /\ Idle
  /\ UNCHANGED <<steps, issues>>

\* The reservation or the submission fails and nothing was submitted; the next
\* tick of the phase may submit again.
ImageSubmissionFails ==
  /\ At("media")
  /\ \E d \in Dispositions, reserved \in BOOLEAN :
       LET held == [run EXCEPT !.settled = @ /\ ~reserved]
       IN /\ run' = IF Recoverable(held) THEN BeginRecovery(held, d) ELSE held
          /\ steps' = [steps EXCEPT !.broken = Broken(d)]
  /\ Idle
  /\ UNCHANGED issues

\* The provider of a revision cannot edit the image it draws on.
ImageEditUnavailable ==
  /\ MediaTick /\ run.status = "REVISING"
  /\ steps.image[run.round] \notin {"COMPLETED"}
  /\ run' = Fail(run, "IMAGE_EDIT_UNAVAILABLE")
  /\ UNCHANGED <<steps, issues, worker>>

\* A failed image keeps the phase from going on: every tick is one more attempt.
ImageBlocked ==
  /\ MediaTick /\ steps.image[run.round] \in {"UNKNOWN", "FAILED"}
  /\ \E d \in Dispositions :
       /\ run' = BeginRecovery(run, d)
       /\ steps' = [steps EXCEPT !.broken = Broken(d)]
  /\ UNCHANGED <<issues, worker>>

\* reconcilePendingRun, at the start of every tick whatever the status.
AnswerImage == \E r \in Rounds :
  /\ At("idle") /\ steps.image[r] \in Unfinished
  /\ \/ /\ steps' = [steps EXCEPT !.image[r] = "COMPLETED"]
        /\ issues' = issues \ {ImageIssue(r)}
        /\ UNCHANGED run
     \/ /\ \E to \in {"FAILED", "UNKNOWN"}, d \in Dispositions :
             /\ \E broken \in {steps.broken, Broken(d)} :
                  steps' = [steps EXCEPT !.image[r] = to, !.broken = broken]
             /\ RecoverIfPossible(d)
        /\ issues' = issues \cup {ImageIssue(r)}
     \/ /\ steps.image[r] = "UNKNOWN"
        /\ steps' = [steps EXCEPT !.image[r] = "PENDING"]
        /\ UNCHANGED <<run, issues>>
  /\ UNCHANGED worker

\* finalizeGenerationBatch settles or releases what the authorization holds.
SettleAccounting ==
  /\ At("idle") /\ ~run.settled
  /\ NothingUnfinished
  /\ \/ InMediaPhase(run) /\ steps.image[run.round] = "COMPLETED"
     \/ run.status = "RECOVERING" /\ run.pending # "NONE"
     \/ run.status = "CANCELLED"
  /\ run' = [run EXCEPT !.settled = TRUE]
  /\ UNCHANGED <<steps, issues, worker>>

MoveToPageReview ==
  /\ MediaTick /\ steps.image[run.round] = "COMPLETED" /\ run.settled
  /\ run' = To(run, "PAGE_REVIEW")
  /\ steps' = [steps EXCEPT !.repaired =
                 IF run.status = "REVISING" THEN @ \cup {run.round} ELSE @]
  /\ UNCHANGED <<issues, worker>>

-----------------------------------------------------------------------------
\* The quality policy.

PageIssue(r, level) == [of |-> "page", n |-> r, level |-> level]
DeckIssues(r, levels) == {[of |-> "deck", n |-> r, level |-> l] : l \in levels}

Bounded == run.automation = "BOUNDED_AUTO"
Exhausted == Bounded /\ run.round >= MaxRounds

\* issuesWithFailedRevisionExecution: the revision that was to mend it broke off.
OfFailedRevision(i) ==
  \E q \in steps.broken : steps.plan[q].st = "COMPLETED" /\ i \in steps.plan[q].fixes

\* Variant: the severity of the issue is not looked at.
BlockingOfBroken(open) == {i \in open : OfFailedRevision(i)}

\* classifyOpenQualityIssuesForAcceptance: what no policy accepts, among open.
BlockingOf(open) == {i \in open : i.level = "HARD" \/ OfFailedRevision(i)}

\* markAutomatedQualityAcceptance on the way to delivery.
SystemAccepted(r) ==
  [To(r, "DELIVERING") EXCEPT !.disposition = "SYSTEM_POLICY_ACCEPTED", !.accepted = TRUE]

CanAccept == run.status = "DECK_REVIEW" /\ Bounded /\ BlockingOf(issues) = {}

\* Variant: the issues that are accepted stay open.
AcceptUnresolved(code) ==
  /\ run' = IF CanAccept /\ ~run.accepted THEN SystemAccepted(run) ELSE Fail(run, code)
  /\ UNCHANGED issues

\* acceptQualityAndStartDelivery, or the terminal failure.  What was accepted
\* before invalidates the acceptance, after the issues were closed for it.
AcceptOrFail(code) ==
  /\ issues' = IF CanAccept THEN {} ELSE issues
  /\ run' = IF CanAccept /\ ~run.accepted THEN SystemAccepted(run) ELSE Fail(run, code)

-----------------------------------------------------------------------------
\* PAGE_REVIEW.

BeginPage ==
  LET r == run.round IN
  /\ Tick("PAGE_REVIEW")
  /\ IF steps.page[r] \in {"NONE", "RESERVED", "RUNNING"}
     THEN steps' = [steps EXCEPT !.page[r] = "RUNNING"] /\ Goes("page")
     ELSE Goes("decide") /\ UNCHANGED steps
  /\ UNCHANGED <<run, issues>>

\* SOFT is a rejection with qualityImpact NON_BLOCKING_RECOMMENDATION; a page
\* that is not exactly 16:9 counts as HARD.  A step that failed keeps how it did.
PageReviewed ==
  LET r == worker.round IN
  /\ At("page")
  /\ \E verdict \in {"APPROVED"} \cup Levels \cup Call!Failures["page"][run.chain] :
       /\ steps' = [steps EXCEPT !.page[r] = verdict]
       /\ issues' = IF verdict \in Levels THEN issues \cup {PageIssue(r, verdict)} ELSE issues
  /\ Continues("decide")
  /\ UNCHANGED run

ToDeckReview(r) == [To(r, "DECK_REVIEW") EXCEPT !.disposition = "PENDING"]

\* resolveSupersededPageIssues, then moveToDeckReview, each its own transaction.
PageApproved ==
  LET r == worker.round
      plans == {q \in 1..MaxRounds : steps.plan[q].st = "COMPLETED"}
  IN /\ At("decide") /\ steps.page[r] = "APPROVED"
     /\ issues' = IF r \in plans THEN issues \ UNION {steps.plan[q].fixes : q \in plans}
                                 ELSE issues
     /\ run' = IF CanTransition(run, "DECK_REVIEW") THEN ToDeckReview(run) ELSE Fatal
     /\ Idle
     /\ UNCHANGED steps

\* moveToHuman when no verdict was reached: the failed reviews may run again after a
\* technical failure; any other needs a person.
PageReviewFailed ==
  LET failure == steps.page[worker.round]
      technical == failure \in Dispositions /\ Recoverable(run)
  IN /\ At("decide") /\ failure \in Failures
     /\ \/ /\ technical
           /\ run' = BeginRecovery(run, failure)
           /\ steps' = [steps EXCEPT !.page =
                          [q \in Rounds |-> IF @[q] \in Failures THEN "RESERVED" ELSE @[q]]]
           /\ Idle
           /\ UNCHANGED issues
        \/ ~technical /\ MoveOrThrow("NEEDS_HUMAN")

PageRejected == At("decide") /\ steps.page[worker.round] \in {"SOFT", "HARD"}

RevisePage ==
  LET r == worker.round
      CanRevise == /\ run.status = "PAGE_REVIEW" /\ run.round = r
                   /\ steps.plan[r + 1].st = "NONE"
  IN
  /\ PageRejected /\ Bounded /\ r < MaxRounds
  /\ \/ /\ CanRevise
        /\ run' = [To(run, "REVISING") EXCEPT !.round = r + 1]
        /\ steps' = [steps EXCEPT !.plan[r + 1] =
                       [st |-> "COMPLETED", origin |-> "PAGE",
                        fixes |-> {PageIssue(r, steps.page[r])}]]
        /\ Idle
        /\ UNCHANGED issues
     \/ ~CanRevise /\ Throw

\* No round left, no instruction to give, or no room for one more instruction.
RevisionOfPageExhausted ==
  /\ PageRejected /\ Bounded
  /\ \/ /\ BlockingOf(issues) # {}
        /\ run' = Fail(run, IF worker.round >= MaxRounds THEN "QUALITY_REMEDIATION_EXHAUSTED"
                                         ELSE "QUALITY_ISSUE_STATE_INCONSISTENT")
        /\ Idle
     \/ /\ BlockingOf(issues) = {}
        /\ run' = IF CanTransition(run, "DECK_REVIEW") THEN ToDeckReview(run) ELSE Fatal
        /\ Idle
  /\ UNCHANGED <<steps, issues>>

PageToPerson == PageRejected /\ ~Bounded /\ MoveOrThrow("NEEDS_HUMAN")

-----------------------------------------------------------------------------
\* DECK_REVIEW.

\* A failure of the deck review step of round r; a retryable one keeps it
\* running, and any other ends it for good.
FailDeck(r, kind, real) ==
  /\ steps' = [steps EXCEPT !.deck[r] =
                 [NoReview EXCEPT !.st = IF kind = "RETRYABLE" THEN "RUNNING" ELSE "FAILED",
                                  !.real = real]]
  /\ IF kind = "INTERNAL" THEN run' = Fail(run, "TECHNICAL_CONTRACT_INVALID")
                          ELSE RecoverIfPossible(kind)

\* failBeforeStart: what the review needs cannot be read.  The input hash of
\* the step is then made of the error; a step that was prepared with another
\* hash is a conflict.
DeckInputFails ==
  LET step == steps.deck[run.round] IN
  /\ Tick("DECK_REVIEW")
  /\ \/ /\ step.st = "NONE"
        /\ \E kind \in Failures : FailDeck(run.round, kind, FALSE)
        /\ UNCHANGED <<issues, worker>>
     \/ step.st = "RUNNING" /\ ~step.real /\ FailDeck(run.round, "RETRYABLE", FALSE)
        /\ UNCHANGED <<issues, worker>>
     \/ step.st # "NONE" /\ Throw

BeginDeck ==
  LET step == steps.deck[run.round] IN
  /\ Tick("DECK_REVIEW")
  /\ \/ /\ step.st \in {"NONE", "RUNNING"} /\ step.real
        /\ steps' = [steps EXCEPT !.deck[run.round].st = "RUNNING"]
        /\ Goes("deck")
        /\ UNCHANGED <<run, issues>>
     \/ ~step.real /\ Throw

\* What prepare makes of a review that is complete already.
ReplayDeck ==
  LET review == steps.deck[run.round]
      accepts == Exhausted /\ BlockingOf(issues) = {}
      open == IF accepts THEN {} ELSE issues
      blocked == Exhausted /\ ~accepts
      passed == review.ok /\ open = {} /\ ~run.accepted
      policy == accepts /\ ~run.accepted /\ (issues # {} \/ ~passed)
      failing == ~passed /\ ~policy /\ (blocked \/ run.accepted \/ review.ok)
  IN /\ Tick("DECK_REVIEW") /\ review.st = "COMPLETED" /\ review.real
     /\ issues' = open
     /\ run' = IF policy THEN SystemAccepted(run)
               ELSE IF failing THEN Fail(run, IF blocked THEN "QUALITY_REMEDIATION_EXHAUSTED"
                                                        ELSE "QUALITY_ISSUE_STATE_INCONSISTENT")
               ELSE run
     /\ IF passed \/ policy \/ failing THEN Idle ELSE Goes("scope")
     /\ UNCHANGED steps

\* complete.  The fixes of the rounds that were applied and redrawn are closed,
\* what the review found is opened, and the policy decides over both.  A review
\* is ok when its score is and it found nothing; repair is what a plan is to
\* repair of what it found: not what is only information, nor what is soft when
\* the score is good.
DeckCompletes ==
  LET r == worker.round
      redrawn == {q \in 1..MaxRounds : /\ q <= r /\ steps.plan[q].st = "COMPLETED"
                                       /\ steps.apply[q] = "COMPLETED"
                                       /\ q \in steps.repaired}
  IN /\ At("deck")
     /\ \E ok \in BOOLEAN, found \in SUBSET Levels : \E repair \in SUBSET found :
          LET open == (issues \ UNION {steps.plan[q].fixes : q \in redrawn})
                        \cup DeckIssues(r, found)
              blocked == Exhausted /\ BlockingOf(open) # {}
              accepts == Exhausted /\ ~blocked
              passed == ok /\ open = {} /\ ~run.accepted
              policy == accepts /\ ~passed /\ ~run.accepted
              inconsistent == \/ run.accepted
                              \/ ok /\ ~Exhausted /\ \E i \in open : i.level = "HARD"
              pending == [run EXCEPT !.disposition = "PENDING"]
              completed == [steps EXCEPT !.deck[r] = [st |-> "COMPLETED", real |-> TRUE,
                                                      ok |-> ok, repair |-> repair]]
          IN /\ ok => found = {}
             /\ \/ /\ passed \/ policy
                   /\ \/ /\ CanTransition(run, "DELIVERING")
                         /\ run' = IF policy THEN SystemAccepted(run)
                                   ELSE [To(run, "DELIVERING") EXCEPT !.disposition = "REVIEW_PASSED"]
                         /\ steps' = completed
                         /\ issues' = {}
                         /\ Idle
                      \/ ~CanTransition(run, "DELIVERING") /\ Throw
                \/ /\ ~passed /\ ~policy
                   /\ run' = IF blocked THEN Fail(pending, "QUALITY_REMEDIATION_EXHAUSTED")
                             ELSE IF inconsistent THEN Fail(pending, "QUALITY_ISSUE_STATE_INCONSISTENT")
                             ELSE pending
                   /\ steps' = completed
                   /\ issues' = IF accepts THEN {} ELSE open
                   /\ IF run'.status = "DECK_REVIEW" THEN Goes("scope") ELSE Idle

DeckFails ==
  /\ At("deck")
  /\ \E kind \in Call!Failures["deck"][run.chain] : FailDeck(worker.round, kind, TRUE)
  /\ Idle
  /\ UNCHANGED issues

-----------------------------------------------------------------------------
\* DECK_REVIEW: what to revise, and the plan of the revision.

Review == steps.deck[worker.round]

ReviewHadPassed == At("scope") /\ Review.ok /\ Throw

NothingToRevise ==
  /\ At("scope") /\ ~Review.ok
  /\ worker.round >= MaxRounds \/ Review.repair = {}
  /\ IF Bounded
     THEN /\ AcceptOrFail(IF worker.round >= MaxRounds THEN "QUALITY_REMEDIATION_EXHAUSTED"
                                                    ELSE "QUALITY_ISSUE_STATE_INCONSISTENT")
          /\ Idle
          /\ UNCHANGED steps
     ELSE MoveOrThrow("NEEDS_HUMAN")

Revisable == At("scope") /\ ~Review.ok /\ worker.round < MaxRounds /\ Review.repair # {}

\* An outage of the source is technical, anything else about it needs a person.
ScopeInputFails ==
  /\ Revisable
  /\ \/ /\ Recoverable(run)
        /\ \E d \in Dispositions : run' = BeginRecovery(run, d)
        /\ Idle
        /\ UNCHANGED <<steps, issues>>
     \/ MoveOrThrow("NEEDS_HUMAN")

BeginRevisionPlan ==
  LET q == worker.round + 1
      plan == steps.plan[q]
      conflict == IF plan.st = "NONE" THEN run.status # "DECK_REVIEW" ELSE plan.origin # "DECK"
  IN /\ Revisable
     /\ \/ conflict /\ Throw
        \/ /\ ~conflict /\ plan.st \in {"COMPLETED", "FAILED"}
           /\ Idle
           /\ UNCHANGED <<run, steps, issues>>
        \/ /\ ~conflict /\ plan.st \in {"NONE", "RUNNING"}
           /\ steps' = [steps EXCEPT !.plan[q].st = "RUNNING", !.plan[q].origin = "DECK"]
           /\ Goes("plan")
           /\ UNCHANGED <<run, issues>>

\* Variant: the step is not read again.
PlannedUnchecked == At("plan")

\* The plan is still the one the worker began; it is not when a person has
\* submitted another for the round.
Planned == At("plan") /\ steps.plan[worker.round + 1].st = "RUNNING"

PlanReplaced ==
  /\ At("plan") /\ steps.plan[worker.round + 1].st # "RUNNING"
  /\ Idle
  /\ UNCHANGED <<run, steps, issues>>

\* Variant: the status is set, not reached by a transition.
RevisionPlannedUnchecked ==
  /\ Planned
  /\ run' = [To(run, IF Bounded THEN "REVISING" ELSE "AWAITING_REVISION_APPROVAL")
               EXCEPT !.round = IF Bounded THEN worker.round + 1 ELSE @]
  /\ steps' = [steps EXCEPT !.plan[worker.round + 1].st = "COMPLETED",
                            !.plan[worker.round + 1].fixes =
                               DeckIssues(worker.round, Review.repair)]
  /\ Idle
  /\ UNCHANGED issues

RevisionPlanned ==
  LET q == worker.round + 1
      to == IF Bounded THEN "REVISING" ELSE "AWAITING_REVISION_APPROVAL"
  IN /\ Planned
     /\ \/ /\ CanTransition(run, to)
           /\ run' = [To(run, to) EXCEPT !.round = IF Bounded THEN q ELSE @]
           /\ steps' = [steps EXCEPT !.plan[q].st = "COMPLETED",
                                     !.plan[q].fixes = DeckIssues(worker.round, Review.repair)]
           /\ Idle
           /\ UNCHANGED issues
        \/ ~CanTransition(run, to) /\ Throw

\* A technical failure keeps the plan running; any other ends it, and then the
\* deck is delivered as it is (a degradable failure) or the Run fails.
RevisionPlanFails ==
  LET q == worker.round + 1
      kinds == Call!Failures["plan"][run.chain]
  IN
  /\ Planned
  /\ \/ /\ \E d \in kinds \cap Dispositions : RecoverIfPossible(d)
        /\ UNCHANGED <<steps, issues>>
     \/ /\ "INTERNAL" \in kinds
        /\ steps' = [steps EXCEPT !.plan[q].st = "FAILED"]
        /\ \/ AcceptOrFail("QUALITY_REMEDIATION_EXHAUSTED")
           \/ run' = Fail(run, "QUALITY_REMEDIATION_EXHAUSTED") /\ UNCHANGED issues
  /\ Idle

-----------------------------------------------------------------------------
\* REVISING: the plan is applied to the blueprint, then the image is redrawn.

\* failBeforeApply: the source, which every tick of the phase reads again, or the
\* window of it the model is shown.  Whatever keeps it away counts as a failure of
\* the revision, an outage too, unless the protocol of the Run is missing.  The hash
\* is that of the error: beside a step that began with the inputs it is a conflict.
ApplicationInputFails ==
  LET Fails(st) == steps' = [steps EXCEPT !.apply[run.round] = st]
  IN /\ Tick("REVISING")
     /\ \/ /\ steps.apply[run.round] = "NONE"
           /\ \/ /\ run.chain = "CHAIN_4"
                 /\ run' = BeginRecovery(run, "NON_RETRYABLE") /\ Fails("RUNNING")
              \/ run' = Fail(run, "QUALITY_REMEDIATION_EXHAUSTED") /\ Fails("FAILED")
           /\ UNCHANGED <<issues, worker>>
        \/ steps.apply[run.round] # "NONE" /\ Throw

BeginApplication ==
  /\ Tick("REVISING")
  /\ steps.apply[run.round] \in {"NONE", "RUNNING"}
  /\ steps' = [steps EXCEPT !.apply[run.round] = "RUNNING"]
  /\ Goes("apply")
  /\ UNCHANGED <<run, issues>>

\* The Run keeps its status: a V4 revision always redraws.
ApplicationCompletes ==
  /\ At("apply")
  /\ steps' = [steps EXCEPT !.apply[worker.round] = "COMPLETED"]
  /\ Idle
  /\ UNCHANGED <<run, issues>>

\* A technical failure, an internal one, and a manuscript that stays invalid.
ApplicationFails ==
  LET failed == [steps EXCEPT !.apply[worker.round] = "FAILED"]
      kinds == Call!Failures["apply"][run.chain]
  IN
  /\ At("apply")
  /\ \/ /\ \E d \in kinds \cap Dispositions : RecoverIfPossible(d)
        /\ Idle
        /\ UNCHANGED <<steps, issues>>
     \/ /\ "INTERNAL" \in kinds
        /\ run' = Fail(run, "QUALITY_REMEDIATION_EXHAUSTED")
        /\ steps' = failed
        /\ Idle
        /\ UNCHANGED issues
     \/ /\ "PERSON" \in kinds /\ CanTransition(run, "NEEDS_HUMAN")
        /\ run' = To(run, "NEEDS_HUMAN")
        /\ steps' = failed
        /\ Idle
        /\ UNCHANGED issues
     \/ "PERSON" \in kinds /\ ~CanTransition(run, "NEEDS_HUMAN") /\ Throw

-----------------------------------------------------------------------------
\* DELIVERING, RECOVERING and the end.

BeginDelivery ==
  /\ Tick("DELIVERING")
  /\ steps' = [steps EXCEPT !.delivery[run.round] = "RUNNING"]
  /\ Goes("delivery")
  /\ UNCHANGED <<run, issues>>

DeliveryCompletes ==
  /\ At("delivery")
  /\ \/ /\ CanTransition(run, "COMPLETED")
        /\ run' = [To(run, "COMPLETED") EXCEPT !.finalization = Queue(@)]
        /\ steps' = [steps EXCEPT !.delivery[worker.round] = "COMPLETED"]
        /\ Idle
        /\ UNCHANGED issues
     \/ ~CanTransition(run, "COMPLETED") /\ Throw

DeliveryFails ==
  /\ At("delivery")
  /\ steps' = [steps EXCEPT !.delivery[worker.round] = "FAILED"]
  /\ \E d \in Dispositions : RecoverIfPossible(d)
  /\ Idle
  /\ UNCHANGED issues

\* The terminal failure waits for the accounting.
FinishFailure ==
  /\ Tick("RECOVERING") /\ run.pending # "NONE" /\ run.settled
  /\ CanReconcile(run)
  /\ run' = Reconcile(run)
  /\ UNCHANGED <<steps, issues, worker>>

ResumePhase ==
  /\ Tick("RECOVERING") /\ run.pending = "NONE" /\ CanResumeRecovery(run)
  /\ run' = ResumeRecovery(run)
  /\ UNCHANGED <<steps, issues, worker>>

\* The host acknowledges the finalization of the accounting of the whole Run;
\* a cancelled Run whose failure was pending first fails to reconcile.
Finalize ==
  /\ At("idle") /\ run.status \in TerminalStates /\ run.finalization = "QUEUED"
  /\ NothingUnfinished
  /\ CanReconcile(run)
  /\ run' = [run EXCEPT !.finalization = "DONE"]
  /\ UNCHANGED <<steps, issues, worker>>

-----------------------------------------------------------------------------
\* Users.  An action whose prerequisites do not hold is refused and changes
\* nothing; the admin is a user whose host role is ADMIN.

\* The blueprint in force: the plan of the attempt, or the revision of the round.
ActiveBlueprint(attempt) ==
  IF run.round = 0 THEN steps.planning[attempt] = "COMPLETED"
                   ELSE steps.apply[run.round] = "COMPLETED"

RetryPlanning ==
  /\ "RETRY_PLANNING" \in UserActions /\ run.status = "NEEDS_HUMAN"
  /\ steps.planning[run.attempt] = "FAILED" /\ run.attempt \notin steps.exhausted
  /\ run' = To(run, "PLANNING")
  /\ UNCHANGED <<steps, issues, worker>>

\* Variant: the limit of the planning attempts is not checked.
ReplanUnlimited ==
  /\ "REPLAN" \in UserActions /\ run.status = "NEEDS_HUMAN"
  /\ steps.planning[run.attempt] = "FAILED"
  /\ run' = [To(run, "PLANNING") EXCEPT !.attempt = @ + 1]
  /\ UNCHANGED <<steps, issues, worker>>

Replan ==
  /\ "REPLAN" \in UserActions /\ run.status = "NEEDS_HUMAN"
  /\ steps.planning[run.attempt] = "FAILED" /\ run.attempt < MaxReplans
  /\ run' = [To(run, "PLANNING") EXCEPT !.attempt = @ + 1]
  /\ UNCHANGED <<steps, issues, worker>>

\* A V4 Run is never in AWAITING_BLUEPRINT_APPROVAL, but the action is refused
\* only without a blueprint and by the transition table, which lets it leave
\* PLANNING, REVISING and RECOVERING, and PAUSED to where it was.
ApproveBlueprint ==
  /\ "APPROVE_BLUEPRINT" \in UserActions /\ CanTransition(run, "EXECUTING")
  /\ steps.planning[run.attempt] = "COMPLETED"
  /\ run' = To(run, "EXECUTING")
  /\ UNCHANGED <<steps, issues, worker>>

\* Refused only by the transition table, which lets it leave RECOVERING too.
RequestBlueprintRevision ==
  /\ "REQUEST_BLUEPRINT_REVISION" \in UserActions /\ CanTransition(run, "PLANNING")
  /\ run' = To(run, "PLANNING")
  /\ UNCHANGED <<steps, issues, worker>>

Pause ==
  /\ "PAUSE" \in UserActions /\ run.status \in PausableStates
  /\ run' = To(run, "PAUSED")
  /\ UNCHANGED <<steps, issues, worker>>

Resume ==
  /\ "RESUME" \in UserActions /\ run.status = "PAUSED"
  /\ run' = To(run, run.resume)
  /\ UNCHANGED <<steps, issues, worker>>

Cancel ==
  /\ "CANCEL" \in UserActions /\ CanTransition(run, "CANCELLED")
  /\ run' = [To(run, "CANCELLED") EXCEPT !.finalization = Queue(@)]
  /\ UNCHANGED <<steps, issues, worker>>

ApproveRevision ==
  LET q == run.round + 1 IN
  /\ "APPROVE_REVISION" \in UserActions /\ CanTransition(run, "REVISING")
  /\ q <= MaxRounds /\ steps.plan[q].st = "COMPLETED"
  /\ run' = [To(run, "REVISING") EXCEPT !.round = q]
  /\ UNCHANGED <<steps, issues, worker>>

RejectRevision ==
  /\ "REJECT_REVISION" \in UserActions /\ CanTransition(run, "NEEDS_HUMAN")
  /\ run' = To(run, "NEEDS_HUMAN")
  /\ UNCHANGED <<steps, issues, worker>>

\* The plan repairs the open issues of failed images, or one of its own; at
\* round 0 it wants the blueprint of the first planning attempt.
SubmitLimitedRevision ==
  LET q == run.round + 1
      failed == {ImageIssue(r) : r \in {r \in Rounds : steps.image[r] = "FAILED"}}
  IN /\ "SUBMIT_LIMITED_REVISION" \in UserActions /\ run.status = "NEEDS_HUMAN"
     /\ q <= MaxRounds /\ ActiveBlueprint(0)
     /\ steps' = [steps EXCEPT !.plan[q] = [st |-> "COMPLETED", origin |-> "MANUAL",
                                            fixes |-> issues \cap failed]]
     /\ run' = [To(run, "REVISING") EXCEPT !.round = q]
     /\ UNCHANGED <<issues, worker>>

\* The admin names every open issue.
AcceptWithOverride ==
  /\ "ACCEPT_WITH_OVERRIDE" \in UserActions /\ run.status = "NEEDS_HUMAN"
  /\ ActiveBlueprint(run.attempt) /\ issues # {}
  /\ run' = [To(run, "DELIVERING") EXCEPT !.disposition = "ADMIN_OVERRIDE",
                                            !.accepted = TRUE]
  /\ issues' = {}
  /\ UNCHANGED <<steps, worker>>

\* RETRY_DELIVERY of a delivery that failed before the Run was sent to a person.
RetryDelivery ==
  /\ "RETRY_DELIVERY" \in UserActions /\ run.status = "NEEDS_HUMAN"
  /\ steps.delivery[run.round] = "FAILED"
  /\ run' = To(run, "DELIVERING")
  /\ UNCHANGED <<steps, issues, worker>>

\* RETRY_DELIVERY of a Run that failed because its quality could not be repaired.
ReopenFailure ==
  /\ "RETRY_DELIVERY" \in UserActions /\ run.status = "FAILED"
  /\ run.failed = "QUALITY_REMEDIATION_EXHAUSTED" /\ run.pending = "NONE"
  /\ run.settled /\ run.finalization = "DONE"
  /\ ActiveBlueprint(run.attempt)
  /\ \E r \in 0..run.round :
       /\ steps.image[r] = "COMPLETED"
       /\ \A q \in r+1..run.round : steps.plan[q].st # "COMPLETED"
  /\ \A r \in Rounds : steps.delivery[r] = "NONE"
  /\ run' = ReopenQualityFailure(run)
  /\ UNCHANGED <<steps, issues, worker>>

-----------------------------------------------------------------------------
Planning ==
  \/ \E d \in Dispositions : SourceOutage(d)
  \/ BeginPlanning \/ StageCompletes \/ PlanningCompletes \/ PlanningFails

Drawing ==
  \/ BeginImage \/ BudgetShort \/ SubmitImage \/ ImageNotSubmitted
  \/ ImageSubmissionFails \/ ImageEditUnavailable \/ ImageBlocked
  \/ AnswerImage \/ SettleAccounting \/ MoveToPageReview

Reviewing ==
  \/ BeginPage \/ PageReviewed \/ PageApproved \/ PageReviewFailed \/ RevisePage
  \/ RevisionOfPageExhausted \/ PageToPerson
  \/ DeckInputFails \/ BeginDeck \/ ReplayDeck \/ DeckCompletes \/ DeckFails

Revising ==
  \/ ReviewHadPassed \/ NothingToRevise \/ ScopeInputFails \/ BeginRevisionPlan
  \/ PlanReplaced \/ RevisionPlanned \/ RevisionPlanFails
  \/ ApplicationInputFails \/ BeginApplication \/ ApplicationCompletes \/ ApplicationFails

Delivering ==
  \/ BeginDelivery \/ DeliveryCompletes \/ DeliveryFails
  \/ FinishFailure \/ ResumePhase \/ Finalize

Users ==
  \/ RetryPlanning \/ Replan \/ ApproveBlueprint \/ RequestBlueprintRevision \/ Pause \/ Resume \/ Cancel
  \/ ApproveRevision \/ RejectRevision \/ SubmitLimitedRevision \/ AcceptWithOverride
  \/ RetryDelivery \/ ReopenFailure

Next == Planning \/ Drawing \/ Reviewing \/ Revising \/ Delivering \/ Users \/ Crash

Spec == Init /\ [][Next]_vars

-----------------------------------------------------------------------------
Plans ==
  [st: {"NONE", "RUNNING", "FAILED", "COMPLETED"}, origin: {"NONE", "PAGE", "DECK", "MANUAL"},
   fixes: SUBSET Issues]

\* Every row keeps to its schema.
TypeOK ==
  /\ run \in [status: Statuses, resume: PausableStates \cup {"NONE"}, recovery: Recoveries,
              pending: FailureCodes \cup {"NONE"}, failed: FailureCodes \cup {"NONE"},
              settled: BOOLEAN,
              disposition: {"PENDING", "REVIEW_PASSED", "SYSTEM_POLICY_ACCEPTED",
                            "ADMIN_OVERRIDE", "HARD_FAILURE"},
              accepted: BOOLEAN,
              finalization: {"NONE", "QUEUED", "DONE"}, automation: Automation,
              chain: Compilers,
              round: Rounds, attempt: Attempts]
  /\ steps.planning \in [Attempts -> {"NONE", "RUNNING", "FAILED", "COMPLETED"}]
  /\ steps.stages \in [Attempts -> 0..MaxStages]
  /\ steps.image \in [Rounds -> {"NONE", "PENDING", "UNKNOWN", "FAILED", "COMPLETED"}]
  /\ steps.page \in [Rounds -> {"NONE", "RUNNING", "RESERVED", "APPROVED"} \cup Levels \cup Failures]
  /\ steps.plan \in [1..MaxRounds -> Plans]
  /\ steps.apply \in [1..MaxRounds -> {"NONE", "RUNNING", "FAILED", "COMPLETED"}]
  /\ steps.repaired \subseteq 1..MaxRounds /\ steps.broken \subseteq 1..MaxRounds
  /\ issues \subseteq Issues
  /\ worker \in [at: {"idle", "planning", "media", "page", "decide", "deck", "scope", "plan",
                      "apply", "delivery"}, round: Rounds]

\* Invariant: what is delivered was judged.  No issue is open, the image of some
\* round is there, and each way into DELIVERING left its mark.  What a review
\* passed, or the system accepted by its policy, is the image of the round the Run
\* is in; the review that passed is of that round too; and the system accepts for
\* a Run in BOUNDED_AUTO only, never for one that is supervised.  An administrator
\* may deliver over a round that was not redrawn, on what an earlier round left.
DeliveredOnlyJudged ==
  run.status \in {"DELIVERING", "COMPLETED"} =>
    /\ issues = {}
    /\ \E r \in 0..run.round : steps.image[r] = "COMPLETED"
    /\ run.disposition \in {"REVIEW_PASSED", "SYSTEM_POLICY_ACCEPTED", "ADMIN_OVERRIDE"}
    /\ run.disposition # "ADMIN_OVERRIDE" => steps.image[run.round] = "COMPLETED"
    /\ run.disposition = "REVIEW_PASSED" =>
         steps.deck[run.round].st = "COMPLETED" /\ steps.deck[run.round].ok
    /\ run.disposition = "SYSTEM_POLICY_ACCEPTED" => Bounded

\* Action property: a hard issue is never waived by the system.  It is closed by
\* the administrator who overrides it, by the planning or the image that failed
\* and now succeeds, or by a revision that was planned to repair it.
HardIssuesOnlyRepaired ==
  [][\A i \in issues \ issues' : i.level = "HARD" =>
       \/ run.status = "NEEDS_HUMAN" /\ run'.disposition = "ADMIN_OVERRIDE"
       \/ i.of = "planning" /\ run'.status = "EXECUTING"
       \/ i.of = "image" /\ steps'.image[i.n] = "COMPLETED"
       \/ \E q \in 1..run.round : steps.plan[q].st = "COMPLETED" /\ i \in steps.plan[q].fixes]_vars

\* Action property: technical recovery restores the phase it suspended, in the
\* round and the planning attempt it suspended it in; and a terminal failure
\* that waits for the accounting is not forgotten: it ends in FAILED with the
\* cause it waited with, or the user cancels the Run.
RecoveryRestoresPhase ==
  [][run.status = "RECOVERING" /\ run'.status # "RECOVERING" =>
       /\ run'.round = run.round /\ run'.attempt = run.attempt
       /\ \/ run'.status = "CANCELLED"
          \/ run.pending = "NONE" /\ run'.status = run.recovery.phase
          \/ run.pending # "NONE" /\ run'.status = "FAILED" /\ run'.failed = run.pending]_vars

\* Action property: what has ended stays ended, whatever a worker that began
\* before comes back with; only a Run whose quality could not be repaired is
\* opened again, never one that delivered, and only after its accounting closed.
EndIsFinal ==
  [][run.status \in TerminalStates /\ run'.status # run.status =>
       /\ run.status = "FAILED" /\ run.failed = "QUALITY_REMEDIATION_EXHAUSTED"
       /\ run'.status = "DECK_REVIEW"
       /\ run.settled /\ run.finalization = "DONE"
       /\ \A r \in Rounds : steps.delivery[r] = "NONE"]_vars

\* Invariant: a Run is FAILED only with its accounting settled, no image with
\* the provider and no failure still pending.
FailedOnlySettled ==
  run.status = "FAILED" => run.settled /\ run.pending = "NONE" /\ NothingUnfinished

\* Invariant: every round of revision up to the current one has its plan, which
\* no worker that was overtaken by a person's plan has replaced or failed.
EveryRoundIsPlanned ==
  \A q \in 1..run.round : steps.plan[q].st = "COMPLETED"

\* What has failed is settled, and what was revised was planned.
\* (failVisualDeckV4Transaction, the complete of revision planning)
RowsAgree == FailedOnlySettled /\ EveryRoundIsPlanned

\* Action property: the step that takes a Run out of PAUSED leaves the worker where
\* it is, so it is not the late answer of a worker that the user's pause overtook.
PausedWaits ==
  [][run.status = "PAUSED" /\ run'.status # "PAUSED" => worker' = worker]_vars

\* Action property: a Run leaves a recovery, a pause and an end only for what it was
\* suspended in, stopped for or reopened for; no late answer of a worker moves it.
\* (transitionRun, resumeTechnicalRecovery and the completes of the runners)
SuspensionsHold == RecoveryRestoresPhase /\ EndIsFinal /\ PausedWaits

=============================================================================

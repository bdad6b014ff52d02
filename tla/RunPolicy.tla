------------------------------ MODULE RunPolicy ------------------------------
(***************************************************************************)
(* What may happen to the row of a V4 Run, as functions of the row: the    *)
(* transition table (src/src/core/policy.ts), the bounded technical        *)
(* recovery (src/src/core/technical-recovery.ts) and the terminal failure  *)
(* that waits for the media accounting (src/src/core/v4-lifecycle.ts).     *)
(*                                                                         *)
(* The code passes a transaction and puts the new row into it; here an     *)
(* operator takes the row and returns the new one.  An operator whose code *)
(* can throw has a predicate beside it that says when it does not.         *)
(*                                                                         *)
(* Left out: the event log, clocks (a recovery whose delay has passed is   *)
(* one that may resume), the wording and category of errors, the version   *)
(* counter (an action with a stale expectedVersion changes nothing).       *)
(***************************************************************************)
EXTENDS Naturals

CONSTANT MaxAttempts  \* MAX_TECHNICAL_RECOVERY_ATTEMPTS

ASSUME PolicyAssumption == MaxAttempts \in Nat \ {0}

Statuses == {"PLANNING", "AWAITING_BLUEPRINT_APPROVAL", "EXECUTING", "PAGE_REVIEW",
             "DECK_REVIEW", "AWAITING_REVISION_APPROVAL", "REVISING", "NEEDS_HUMAN",
             "DELIVERING", "RECOVERING", "PAUSED", "COMPLETED", "FAILED", "CANCELLED"}

TerminalStates == {"COMPLETED", "FAILED", "CANCELLED"}

PausableStates ==
  {"EXECUTING", "PAGE_REVIEW", "DECK_REVIEW", "AWAITING_REVISION_APPROVAL", "REVISING"}

\* The phases a technical failure suspends and later restores.
RecoverableStates ==
  {"PLANNING", "EXECUTING", "PAGE_REVIEW", "DECK_REVIEW", "REVISING", "DELIVERING"}

Ending == {"FAILED", "CANCELLED"}

Transitions ==
  [PLANNING |-> {"AWAITING_BLUEPRINT_APPROVAL", "EXECUTING", "RECOVERING", "NEEDS_HUMAN"}
                  \cup Ending,
   AWAITING_BLUEPRINT_APPROVAL |-> {"PLANNING", "EXECUTING", "CANCELLED"},
   EXECUTING |-> {"PAGE_REVIEW", "PAUSED", "RECOVERING", "NEEDS_HUMAN"} \cup Ending,
   PAGE_REVIEW |-> {"DECK_REVIEW", "REVISING", "PAUSED", "RECOVERING", "NEEDS_HUMAN"}
                     \cup Ending,
   DECK_REVIEW |-> {"AWAITING_REVISION_APPROVAL", "REVISING", "PAUSED", "RECOVERING",
                    "NEEDS_HUMAN", "DELIVERING"} \cup Ending,
   AWAITING_REVISION_APPROVAL |-> {"REVISING", "PAUSED", "NEEDS_HUMAN", "CANCELLED"},
   REVISING |-> {"EXECUTING", "PAGE_REVIEW", "DECK_REVIEW", "PAUSED", "RECOVERING",
                 "NEEDS_HUMAN"} \cup Ending,
   NEEDS_HUMAN |-> {"PLANNING", "REVISING", "DELIVERING", "CANCELLED"},
   DELIVERING |-> {"COMPLETED", "RECOVERING", "NEEDS_HUMAN"} \cup Ending,
   RECOVERING |-> RecoverableStates \cup Ending,
   COMPLETED |-> {}, FAILED |-> {}, CANCELLED |-> {}]

CanTransition(r, to) ==
  IF r.status = "PAUSED" THEN to \in {"CANCELLED", r.resume}
                         ELSE to \in Transitions[r.status]

\* transitionRun, where CanTransition holds; it throws elsewhere.
To(r, to) ==
  [r EXCEPT !.status = to, !.resume = IF to = "PAUSED" THEN r.status ELSE "NONE"]

-----------------------------------------------------------------------------
\* The terminal failure.

FailureCodes ==
  {"WORKER_FATAL", "TECHNICAL_RECOVERY_EXHAUSTED", "TECHNICAL_CONTRACT_INVALID",
   "QUALITY_REMEDIATION_EXHAUSTED", "QUALITY_ISSUE_STATE_INCONSISTENT",
   "IMAGE_EDIT_UNAVAILABLE"}

Recoveries ==
  [phase: RecoverableStates \cup {"NONE"}, attempt: 0..MaxAttempts,
   active: BOOLEAN, accounting: BOOLEAN]

NoRecovery == [phase |-> "NONE", attempt |-> 0, active |-> FALSE, accounting |-> FALSE]

\* failVisualDeckV4Transaction leaves a Run alone that already waits for its
\* accounting, has ended, or is in the hands of a person.
IgnoresFailure(r) ==
  \/ r.status = "RECOVERING" /\ r.pending # "NONE"
  \/ r.status \in TerminalStates
  \/ r.status \in {"PAUSED", "NEEDS_HUMAN", "AWAITING_BLUEPRINT_APPROVAL",
                   "AWAITING_REVISION_APPROVAL"}

\* enqueueUsageV2RunFinalization keeps the step that is already there.
Queue(finalization) == IF finalization = "NONE" THEN "QUEUED" ELSE finalization

\* completeVisualDeckV4Failure: transitionRun first, and it may throw.
CanCompleteFailure(r) == CanTransition(r, "FAILED")

CompleteFailure(r, code) ==
  [To(r, "FAILED") EXCEPT
     !.pending = "NONE", !.failed = code, !.disposition = "HARD_FAILURE",
     !.finalization = Queue(@),
     !.recovery.active = @ /\ ~r.recovery.accounting]

CanFail(r) ==
  IgnoresFailure(r) \/ (IF r.settled THEN CanCompleteFailure(r) ELSE CanTransition(r, "RECOVERING"))

Fail(r, code) ==
  IF IgnoresFailure(r) THEN r
  ELSE IF r.settled THEN CompleteFailure(r, code)
  ELSE [To(r, "RECOVERING") EXCEPT
          !.pending = code,
          !.recovery = [phase |-> r.status, attempt |-> 1, active |-> TRUE,
                        accounting |-> TRUE]]

\* reconcileVisualDeckV4TerminalState; nothing but the due time of the retry
\* changes while the accounting is open.
CanReconcile(r) == r.pending # "NONE" /\ r.settled => CanCompleteFailure(r)

Reconcile(r) ==
  IF r.pending # "NONE" /\ r.settled THEN CompleteFailure(r, r.pending) ELSE r

-----------------------------------------------------------------------------
\* Technical recovery.

\* beginTechnicalRecovery returns null, and its caller goes on to another
\* outcome, when the Run is not in a phase it can restore.
Recoverable(r) == r.status \in RecoverableStates

NextAttempt(r) ==
  IF r.recovery.phase = r.status THEN r.recovery.attempt + 1 ELSE 1

\* disposition is RETRYABLE or NON_RETRYABLE.
BeginRecovery(r, disposition) ==
  LET attempt == NextAttempt(r)
      retryable == disposition = "RETRYABLE" /\ attempt < MaxAttempts
      recovery == [phase |-> r.status, active |-> retryable, accounting |-> FALSE,
                   attempt |-> IF attempt > MaxAttempts THEN MaxAttempts ELSE attempt]
      code == IF attempt >= MaxAttempts THEN "TECHNICAL_RECOVERY_EXHAUSTED"
                                        ELSE "TECHNICAL_CONTRACT_INVALID"
  IN IF retryable THEN [To(r, "RECOVERING") EXCEPT !.recovery = recovery]
                  ELSE Fail([r EXCEPT !.recovery = recovery], code)

\* resumeTechnicalRecovery, once the delay has passed.
CanResumeRecovery(r) == r.status = "RECOVERING" /\ r.recovery.active

ResumeRecovery(r) ==
  IF r.recovery.accounting /\ r.pending # "NONE" THEN Reconcile(r)
  ELSE [To(r, r.recovery.phase) EXCEPT !.recovery.active = FALSE]

\* recoverV4QualityFailure: the one way out of FAILED, taken by RunService.
ReopenQualityFailure(r) ==
  [r EXCEPT !.status = "DECK_REVIEW", !.resume = "NONE", !.failed = "NONE",
            !.disposition = "PENDING"]
=============================================================================

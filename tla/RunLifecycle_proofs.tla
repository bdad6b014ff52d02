------------------------- MODULE RunLifecycle_proofs -------------------------
(***************************************************************************)
(* Proofs about RunLifecycle, for any number of rounds, planning attempts, *)
(* stages and recoveries, any compilers and whatever the users may do: the *)
(* rows keep to their schemas, a Run that failed is settled, and every     *)
(* round that was reached has its plan.                                    *)
(* Under what some of the actions of users are left out, said in each      *)
(* theorem: what is delivered was judged, no hard issue is waived, and     *)
(* recoveries, pauses and ends hold.                                       *)
(*                                                                         *)
(* The invariant says how the row of the Run hangs together (RunFits),     *)
(* what a worker may still be in the middle of when users have moved the   *)
(* row on under it (WorkerFits), that no worker undoes the plan of a round *)
(* that was reached (EveryRoundIsPlanned), and that the accounting is open *)
(* while an image is with the provider (AccountsFit).  Its second half     *)
(* (CInv) follows the course of the Run through its phases, also while it  *)
(* is paused or recovers: what was planned, drawn and judged before the    *)
(* phase it is in, and where a worker may find the Run when it comes back. *)
(* A third part (Imaged) says for which round there is an image by then.   *)
(***************************************************************************)
EXTENDS RunLifecycle, TLAPS

\* The schema of each row; TypeOK with the fields it leaves out.
RunRow ==
  [status: Statuses, resume: PausableStates \cup {"NONE"}, recovery: Recoveries,
   pending: FailureCodes \cup {"NONE"}, failed: FailureCodes \cup {"NONE"}, settled: BOOLEAN,
   disposition: {"PENDING", "REVIEW_PASSED", "SYSTEM_POLICY_ACCEPTED", "ADMIN_OVERRIDE",
                 "HARD_FAILURE"},
   accepted: BOOLEAN, finalization: {"NONE", "QUEUED", "DONE"}, automation: Automation,
   chain: Compilers, round: Rounds, attempt: Attempts]

Reviews == [st: {"NONE", "RUNNING", "FAILED", "COMPLETED"}, real: BOOLEAN, ok: BOOLEAN,
            repair: SUBSET Levels]

StepRows ==
  [planning: [Attempts -> {"NONE", "RUNNING", "FAILED", "COMPLETED"}],
   stages: [Attempts -> 0..MaxStages],
   exhausted: SUBSET Attempts, outages: SUBSET Attempts,
   image: [Rounds -> {"NONE", "PENDING", "UNKNOWN", "FAILED", "COMPLETED"}],
   page: [Rounds -> {"NONE", "RUNNING", "RESERVED", "APPROVED"} \cup Levels \cup Failures],
   deck: [Rounds -> Reviews],
   plan: [1..MaxRounds -> Plans],
   apply: [1..MaxRounds -> {"NONE", "RUNNING", "FAILED", "COMPLETED"}],
   delivery: [Rounds -> {"NONE", "RUNNING", "FAILED", "COMPLETED"}],
   repaired: SUBSET (1..MaxRounds), broken: SUBSET (1..MaxRounds)]

WorkerRow == [at: {"idle", "planning", "media", "page", "decide", "deck", "scope", "plan",
                   "apply", "delivery"}, round: Rounds]

RowsTyped ==
  run \in RunRow /\ steps \in StepRows /\ issues \subseteq Issues /\ worker \in WorkerRow

\* Where the Run is, or goes back to after a pause.
On(r, phase) == phase \in {r.status, r.resume}

\* A pause says what it stopped and a recovery what it suspends, REVISING is
\* never in round 0, and what has failed is settled.
RunFits(r) ==
  /\ r.status = "PAUSED" <=> r.resume # "NONE"
  /\ r.status = "RECOVERING" => r.recovery.phase # "NONE"
  /\ "REVISING" \in {r.status, r.resume, r.recovery.phase} => r.round >= 1
  /\ r.status = "FAILED" => r.settled /\ r.pending = "NONE"

\* A user may pause, cancel, replan or revise under a worker, and then the worker
\* finds what it comes back with refused, or harmless: a worker that plans is
\* overtaken by nothing that draws, one that reviews a page by no review of the
\* deck, and one that plans the revision of the round it read by no revision of
\* that round.
WorkerFits ==
  /\ worker.round <= run.round
  /\ At("idle") => worker = Resting
  /\ run.status \in {"RECOVERING", "FAILED", "COMPLETED"} => At("idle")
  /\ At("planning") => steps.planning[run.attempt] = "RUNNING" /\ ~On(run, "EXECUTING")
  /\ At("page") \/ At("decide") => ~On(run, "DECK_REVIEW")
  /\ (At("deck") \/ At("scope") \/ At("plan")) /\ worker.round = run.round => ~On(run, "REVISING")
  /\ At("plan") => worker.round < MaxRounds
  /\ At("apply") => worker.round >= 1

\* While an image is with the provider its authorization is not settled.
AccountsFit == run.settled => NothingUnfinished

IInv == RowsTyped /\ RunFits(run) /\ WorkerFits /\ EveryRoundIsPlanned /\ AccountsFit

-----------------------------------------------------------------------------
(* What the operators of RunPolicy make of a row. *)

\* A transition keeps everything but the status and what it stopped in.
LEMMA ToMoves ==
  ASSUME NEW r \in RunRow, NEW to \in Statuses \ {"PAUSED"}
  PROVE  /\ To(r, to) \in RunRow
         /\ To(r, to) = [r EXCEPT !.status = to, !.resume = "NONE"]
  BY DEF To, RunRow

\* What a failure makes of a Run: it fails, it recovers, or it is left alone.
Suspends(r, s) ==
  /\ r.status \in RecoverableStates /\ s.status \in {"RECOVERING", "FAILED"}
  /\ s.recovery.phase = r.status \/ s.status = "FAILED"
  /\ s.disposition = r.disposition \/ s.status = "FAILED"
  /\ s.round = r.round /\ s.attempt = r.attempt /\ s.settled = r.settled
  /\ s.automation = r.automation /\ s.accepted = r.accepted

\* The Run falls into a recovery or an end, or is left alone.
Falls(r, s) == s \in RunRow /\ RunFits(s) /\ (s = r \/ Suspends(r, s))

LEMMA FailFalls ==
  ASSUME NEW r \in RunRow, RunFits(r), r.status # "RECOVERING", NEW code \in FailureCodes
  PROVE  Falls(r, Fail(r, code))
<1>1. CASE IgnoresFailure(r)
  BY <1>1 DEF Fail, Falls
<1>2. CASE ~IgnoresFailure(r) /\ r.settled
  <2>1. r.status \in RecoverableStates
    BY <1>2 DEF RunRow, Statuses, IgnoresFailure, TerminalStates, RecoverableStates
  <2>. DEFINE recovery == [r.recovery EXCEPT !.active = @ /\ ~r.recovery.accounting]
              s == [r EXCEPT !.status = "FAILED", !.resume = "NONE", !.pending = "NONE",
                             !.failed = code, !.disposition = "HARD_FAILURE",
                             !.finalization = Queue(r.finalization), !.recovery = recovery]
  <2>2. recovery \in Recoveries /\ recovery.phase = r.recovery.phase
    BY DEF RunRow, Recoveries
  <2>3. Queue(r.finalization) \in {"NONE", "QUEUED", "DONE"}
    BY DEF Queue, RunRow
  <2>4. Fail(r, code) = s
    BY <1>2, ToMoves DEF Fail, CompleteFailure, To, Statuses, RunRow, Recoveries
  <2>. HIDE DEF recovery
  <2>5. s \in RunRow
    BY <2>2, <2>3 DEF RunRow, Statuses
  <2>6. /\ s.status = "FAILED" /\ s.resume = "NONE" /\ s.pending = "NONE"
        /\ s.recovery = recovery /\ s.round = r.round /\ s.attempt = r.attempt
        /\ s.settled = r.settled /\ s.automation = r.automation /\ s.accepted = r.accepted
    BY DEF RunRow
  <2>. HIDE DEF s
  <2>7. RunFits(s)
    BY <1>2, <2>2, <2>6 DEF RunFits
  <2>. QED BY <2>1, <2>4, <2>5, <2>6, <2>7 DEF Falls, Suspends
<1>3. CASE ~IgnoresFailure(r) /\ ~r.settled
  <2>1. r.status \in RecoverableStates
    BY <1>3 DEF RunRow, Statuses, IgnoresFailure, TerminalStates, RecoverableStates
  <2>. DEFINE recovery == [phase |-> r.status, attempt |-> 1, active |-> TRUE, accounting |-> TRUE]
              s == [r EXCEPT !.status = "RECOVERING", !.resume = "NONE", !.pending = code,
                             !.recovery = recovery]
  <2>2. recovery \in Recoveries /\ recovery.phase = r.status
    BY <2>1, PolicyAssumption DEF Recoveries
  <2>. HIDE DEF recovery
  <2>3. Fail(r, code) = s
    BY <1>3 DEF Fail, To, recovery, RunRow
  <2>4. s \in RunRow
    BY <2>2 DEF RunRow, Statuses
  <2>5. RunFits(s)
    BY <2>1, <2>2 DEF RunFits, RunRow, RecoverableStates
  <2>. QED BY <2>1, <2>2, <2>3, <2>4, <2>5 DEF Falls, Suspends, RunRow
<1>. QED BY <1>1, <1>2, <1>3

LEMMA FailSuspends ==
  ASSUME NEW r \in RunRow, r.status \in RecoverableStates, NEW code
  PROVE  Fail(r, code).status \in {"RECOVERING", "FAILED"}
  BY DEF Fail, CompleteFailure, To, RunRow, IgnoresFailure, RecoverableStates, TerminalStates

LEMMA RecoveryFalls ==
  ASSUME NEW r \in RunRow, RunFits(r), r.status \in RecoverableStates, NEW d
  PROVE  Falls(r, BeginRecovery(r, d)) /\ Suspends(r, BeginRecovery(r, d))
<1>. DEFINE attempt == NextAttempt(r)
            retryable == d = "RETRYABLE" /\ attempt < MaxAttempts
            recovery == [phase |-> r.status, active |-> retryable, accounting |-> FALSE,
                         attempt |-> IF attempt > MaxAttempts THEN MaxAttempts ELSE attempt]
            code == IF attempt >= MaxAttempts THEN "TECHNICAL_RECOVERY_EXHAUSTED"
                                              ELSE "TECHNICAL_CONTRACT_INVALID"
            s == [r EXCEPT !.recovery = recovery]
            t == [r EXCEPT !.status = "RECOVERING", !.resume = "NONE", !.recovery = recovery]
<1>1. attempt \in Nat
  BY DEF NextAttempt, RunRow, Recoveries
<1>2. code \in FailureCodes
  BY DEF FailureCodes
<1>. HIDE DEF attempt
<1>3. recovery \in Recoveries /\ recovery.phase = r.status
  <2>1. (IF attempt > MaxAttempts THEN MaxAttempts ELSE attempt) \in 0..MaxAttempts
    BY <1>1, PolicyAssumption
  <2>2. retryable \in BOOLEAN
    OBVIOUS
  <2>. QED BY <2>1, <2>2 DEF Recoveries
<1>4. BeginRecovery(r, d) = IF retryable THEN t ELSE Fail(s, code)
  BY DEF BeginRecovery, To, attempt, RunRow
<1>. HIDE DEF recovery, code, retryable
<1>5. s \in RunRow /\ RunFits(s) /\ s.status = r.status
  BY <1>3 DEF RunRow, RunFits
<1>6. CASE retryable
  <2>1. t \in RunRow
    BY <1>3 DEF RunRow, Statuses
  <2>2. /\ t.status = "RECOVERING" /\ t.resume = "NONE" /\ t.recovery.phase = r.status
        /\ t.round = r.round /\ t.attempt = r.attempt /\ t.settled = r.settled
        /\ t.automation = r.automation /\ t.accepted = r.accepted
        /\ t.disposition = r.disposition
    BY <1>3 DEF RunRow
  <2>. HIDE DEF t
  <2>3. RunFits(t)
    BY <2>2 DEF RunFits, RecoverableStates
  <2>. QED BY <1>4, <1>6, <2>1, <2>2, <2>3 DEF Falls, Suspends
<1>7. CASE ~retryable
  <2>1. Falls(s, Fail(s, code))
    BY <1>2, <1>5, FailFalls DEF RecoverableStates
  <2>2. Fail(s, code).status \in {"RECOVERING", "FAILED"}
    BY <1>5, FailSuspends
  <2>3. /\ s.disposition = r.disposition /\ s.round = r.round /\ s.attempt = r.attempt
        /\ s.settled = r.settled /\ s.automation = r.automation /\ s.accepted = r.accepted
    BY DEF RunRow
  <2>4. Suspends(s, Fail(s, code))
    BY <1>5, <2>1, <2>2 DEF Falls, RecoverableStates
  <2>. QED BY <1>4, <1>5, <1>7, <2>1, <2>3, <2>4 DEF Falls, Suspends
<1>. QED BY <1>6, <1>7

-----------------------------------------------------------------------------
(* The step rows when one of them is written. *)

\* Only rows of other tools than the plans and the images changed.
KeepsPlans(s, t) == t \in StepRows /\ t.plan = s.plan /\ t.image = s.image

StepStates == {"NONE", "RUNNING", "FAILED", "COMPLETED"}
ImageStates == {"NONE", "PENDING", "UNKNOWN", "FAILED", "COMPLETED"}
PageStates == {"NONE", "RUNNING", "RESERVED", "APPROVED"} \cup Levels \cup Failures

SetPlanning(s, a, st) == [s EXCEPT !.planning[a] = st]
SetExhausted(s, set) == [s EXCEPT !.exhausted = set]
SetOutages(s, set) == [s EXCEPT !.outages = set]
SetBroken(s, set) == [s EXCEPT !.broken = set]
SetRepaired(s, set) == [s EXCEPT !.repaired = set]
SetPage(s, r, st) == [s EXCEPT !.page[r] = st]
SetPages(s, pages) == [s EXCEPT !.page = pages]
SetDeck(s, r, review) == [s EXCEPT !.deck[r] = review]
SetApply(s, r, st) == [s EXCEPT !.apply[r] = st]
SetDelivery(s, r, st) == [s EXCEPT !.delivery[r] = st]
SetImage(s, r, st) == [s EXCEPT !.image[r] = st]
SetPlan(s, q, plan) == [s EXCEPT !.plan[q] = plan]

LEMMA WritePlanning ==
  ASSUME NEW s \in StepRows, NEW a \in Attempts, NEW st \in StepStates
  PROVE  KeepsPlans(s, SetPlanning(s, a, st)) /\ SetPlanning(s, a, st).planning[a] = st
  BY DEF KeepsPlans, StepRows, StepStates, SetPlanning

LEMMA WriteExhausted ==
  ASSUME NEW s \in StepRows, NEW set \in SUBSET Attempts
  PROVE  KeepsPlans(s, SetExhausted(s, set))
  BY DEF KeepsPlans, StepRows, SetExhausted

LEMMA WriteOutages ==
  ASSUME NEW s \in StepRows, NEW set \in SUBSET Attempts
  PROVE  KeepsPlans(s, SetOutages(s, set)) /\ SetOutages(s, set).planning = s.planning
  BY DEF KeepsPlans, StepRows, SetOutages

LEMMA WriteBroken ==
  ASSUME NEW s \in StepRows, NEW set \in SUBSET (1..MaxRounds)
  PROVE  KeepsPlans(s, SetBroken(s, set))
  BY DEF KeepsPlans, StepRows, SetBroken

LEMMA WriteRepaired ==
  ASSUME NEW s \in StepRows, NEW set \in SUBSET (1..MaxRounds)
  PROVE  KeepsPlans(s, SetRepaired(s, set))
  BY DEF KeepsPlans, StepRows, SetRepaired

LEMMA WritePage ==
  ASSUME NEW s \in StepRows, NEW r \in Rounds, NEW st \in PageStates
  PROVE  KeepsPlans(s, SetPage(s, r, st))
  BY DEF KeepsPlans, StepRows, PageStates, SetPage

LEMMA WritePages ==
  ASSUME NEW s \in StepRows, NEW pages \in [Rounds -> PageStates]
  PROVE  KeepsPlans(s, SetPages(s, pages))
  BY DEF KeepsPlans, StepRows, PageStates, SetPages

LEMMA WriteDeck ==
  ASSUME NEW s \in StepRows, NEW r \in Rounds, NEW review \in Reviews
  PROVE  KeepsPlans(s, SetDeck(s, r, review))
  BY DEF KeepsPlans, StepRows, SetDeck

LEMMA WriteApply ==
  ASSUME NEW s \in StepRows, NEW r \in 1..MaxRounds, NEW st \in StepStates
  PROVE  KeepsPlans(s, SetApply(s, r, st))
  BY DEF KeepsPlans, StepRows, StepStates, SetApply

LEMMA WriteDelivery ==
  ASSUME NEW s \in StepRows, NEW r \in Rounds, NEW st \in StepStates
  PROVE  KeepsPlans(s, SetDelivery(s, r, st))
  BY DEF KeepsPlans, StepRows, StepStates, SetDelivery

LEMMA WriteImage ==
  ASSUME NEW s \in StepRows, NEW r \in Rounds, NEW st \in ImageStates
  PROVE  /\ SetImage(s, r, st) \in StepRows
         /\ SetImage(s, r, st).plan = s.plan /\ SetImage(s, r, st).broken = s.broken
         /\ SetImage(s, r, st).image = [s.image EXCEPT ![r] = st]
  BY DEF StepRows, ImageStates, SetImage

LEMMA WritePlan ==
  ASSUME NEW s \in StepRows, NEW q \in 1..MaxRounds, NEW plan \in Plans
  PROVE  /\ SetPlan(s, q, plan) \in StepRows
         /\ SetPlan(s, q, plan).image = s.image
         /\ SetPlan(s, q, plan).plan = [s.plan EXCEPT ![q] = plan]
  BY DEF StepRows, SetPlan

-----------------------------------------------------------------------------
(* Steps after which the worker rests. *)

Rests == Idle \/ (At("idle") /\ worker' = worker)

LEMMA RestKeeps ==
  ASSUME IInv, Rests, run' \in RunRow, RunFits(run'), run.round <= run'.round,
         steps' \in StepRows, issues' \subseteq Issues,
         \A q \in 1..run'.round : steps'.plan[q].st = "COMPLETED",
         run'.settled => NothingUnfinished'
  PROVE  IInv'
<1>1. worker' = Resting
  BY DEF Rests, Idle, IInv, WorkerFits
<1>2. 0 \in Rounds /\ run'.round >= 0
  BY LifecycleAssumption DEF Rounds, RunRow
<1>3. RowsTyped'
  BY <1>1, <1>2 DEF RowsTyped, WorkerRow, Resting
<1>4. WorkerFits'
  BY <1>1, <1>2 DEF WorkerFits, Resting, At
<1>. QED BY <1>3, <1>4 DEF IInv, EveryRoundIsPlanned, AccountsFit

\* No plan changes, no image and no round.
LEMMA RunRests ==
  ASSUME IInv, Rests, run' \in RunRow, RunFits(run'), run'.round = run.round,
         steps' \in StepRows, steps'.plan = steps.plan, steps'.image = steps.image,
         issues' \subseteq Issues,
         run'.settled => run.settled \/ NothingUnfinished
  PROVE  IInv'
<1>1. run'.round \in Nat /\ run.round <= run'.round
  BY LifecycleAssumption DEF IInv, RowsTyped, RunRow, Rounds
<1>2. NothingUnfinished' = NothingUnfinished
  BY DEF NothingUnfinished
<1>. QED
  BY <1>1, <1>2, RestKeeps DEF IInv, RowsTyped, EveryRoundIsPlanned, AccountsFit

\* The Run is left alone, fails or recovers.
LEMMA FallRests ==
  ASSUME IInv, Rests, Falls(run, run'), issues' \subseteq Issues,
         steps' \in StepRows, steps'.plan = steps.plan, steps'.image = steps.image
  PROVE  IInv'
  BY RunRests DEF Falls, Suspends

LEMMA ThrowKeeps ==
  ASSUME IInv, Throw, run.status # "RECOVERING"
  PROVE  IInv'
<1>1. Falls(run, run')
  BY FailFalls DEF Throw, Fatal, IInv, RowsTyped, Falls, FailureCodes
<1>. QED BY <1>1, FallRests DEF Throw, Rests, IInv, RowsTyped

\* A transition that is possible keeps the row together.
LEMMA ToFits ==
  ASSUME NEW r \in RunRow, RunFits(r), NEW to \in Statuses \ {"RECOVERING", "FAILED", "PAUSED"},
         to = "REVISING" => r.round >= 1
  PROVE  /\ To(r, to) \in RunRow /\ RunFits(To(r, to))
         /\ To(r, to) = [r EXCEPT !.status = to, !.resume = "NONE"]
<1>. DEFINE s == [r EXCEPT !.status = to, !.resume = "NONE"]
<1>1. s \in RunRow /\ To(r, to) = s
  BY ToMoves
<1>2. s.status = to /\ s.resume = "NONE" /\ s.recovery = r.recovery /\ s.round = r.round
  BY DEF RunRow
<1>. QED BY <1>1, <1>2 DEF RunFits

LEMMA PauseFits ==
  ASSUME NEW r \in RunRow, RunFits(r), r.status \in PausableStates
  PROVE  /\ To(r, "PAUSED") \in RunRow /\ RunFits(To(r, "PAUSED"))
         /\ To(r, "PAUSED") = [r EXCEPT !.status = "PAUSED", !.resume = r.status]
<1>. DEFINE s == [r EXCEPT !.status = "PAUSED", !.resume = r.status]
<1>1. s \in RunRow /\ To(r, "PAUSED") = s
  BY DEF To, RunRow, Statuses
<1>2. s.status = "PAUSED" /\ s.resume = r.status /\ s.recovery = r.recovery /\ s.round = r.round
  BY DEF RunRow
<1>. QED BY <1>1, <1>2 DEF RunFits, PausableStates

\* Only what may be paused is.
LEMMA PausesPausable ==
  ASSUME NEW r \in RunRow, CanTransition(r, "PAUSED")
  PROVE  r.status \in PausableStates
  BY DEF CanTransition, Transitions, Ending, RecoverableStates, PausableStates, RunRow, Statuses

LEMMA MoveKeeps ==
  ASSUME IInv, NEW to \in {"PAUSED", "NEEDS_HUMAN"}, MoveOrThrow(to), run.status # "RECOVERING"
  PROVE  IInv'
<1>1. CASE CanTransition(run, to) /\ run' = To(run, to) /\ Idle /\ UNCHANGED <<steps, issues>>
  <2>1. run \in RunRow /\ RunFits(run)
    BY DEF IInv, RowsTyped
  <2>2. run' \in RunRow /\ RunFits(run') /\ run'.round = run.round /\ run'.settled = run.settled
    <3>1. CASE to = "PAUSED"
      <4>1. CanTransition(run, "PAUSED") /\ run' = To(run, "PAUSED")
        BY <1>1, <3>1
      <4>2. run' \in RunRow /\ RunFits(run')
            /\ run' = [run EXCEPT !.status = "PAUSED", !.resume = run.status]
        BY <2>1, <4>1, PausesPausable, PauseFits
      <4>. QED BY <2>1, <4>2 DEF RunRow
    <3>2. CASE to = "NEEDS_HUMAN"
      <4>1. run' = To(run, "NEEDS_HUMAN") /\ "NEEDS_HUMAN" \in Statuses
        BY <1>1, <3>2 DEF Statuses
      <4>2. run' \in RunRow /\ RunFits(run')
            /\ run' = [run EXCEPT !.status = "NEEDS_HUMAN", !.resume = "NONE"]
        BY <2>1, <4>1, ToFits
      <4>. QED BY <2>1, <4>2 DEF RunRow
    <3>. QED BY <3>1, <3>2
  <2>. QED BY <1>1, <2>2, RunRests DEF Rests, IInv, RowsTyped
<1>2. CASE Throw
  BY <1>2, ThrowKeeps
<1>. QED BY <1>1, <1>2 DEF MoveOrThrow

-----------------------------------------------------------------------------
(* Planning. *)

LEMMA SourceOutageStep == ASSUME IInv, NEW d, SourceOutage(d) PROVE IInv'
<1>1. run \in RunRow /\ steps \in StepRows /\ RunFits(run) /\ run.status \in RecoverableStates
  BY DEF SourceOutage, Tick, IInv, RowsTyped, RecoverableStates
<1>2. Falls(run, run') /\ Rests
  BY <1>1, RecoveryFalls DEF SourceOutage, Tick, Rests
<1>3. steps' \in StepRows /\ steps'.plan = steps.plan /\ steps'.image = steps.image
  BY <1>1 DEF SourceOutage, StepRows, RunRow
<1>. QED BY <1>2, <1>3, FallRests DEF SourceOutage, IInv, RowsTyped

\* Clearing a recovery that is over keeps everything else.
LEMMA ClearFits ==
  ASSUME RowsTyped, RunFits(run)
  PROVE  /\ ClearRecovery \in RunRow /\ RunFits(ClearRecovery)
         /\ \/ ClearRecovery = run
            \/ run.status = "PLANNING" /\ ClearRecovery = [run EXCEPT !.recovery = NoRecovery]
<1>1. NoRecovery \in Recoveries /\ NoRecovery.phase = "NONE"
  BY PolicyAssumption DEF NoRecovery, Recoveries
<1>. DEFINE s == [run EXCEPT !.recovery = NoRecovery]
<1>2. s \in RunRow /\ s.status = run.status /\ s.resume = run.resume /\ s.round = run.round
      /\ s.recovery.phase = "NONE"
  BY <1>1 DEF RowsTyped, RunRow
<1>3. run.status = "PLANNING" => RunFits(s)
  BY <1>2 DEF RunFits
<1>. QED BY <1>2, <1>3 DEF ClearRecovery, RowsTyped

\* A step of the worker that goes on, or begins.
LEMMA WorkKeeps ==
  ASSUME IInv, run' \in RunRow, RunFits(run'), run'.round = run.round,
         run'.status = run.status, run'.resume = run.resume, run'.attempt = run.attempt,
         run'.settled = run.settled,
         steps' \in StepRows, steps'.plan = steps.plan, steps'.image = steps.image,
         issues' \subseteq Issues,
         worker' \in WorkerRow, WorkerFits'
  PROVE  IInv'
<1>1. NothingUnfinished' = NothingUnfinished
  BY DEF NothingUnfinished
<1>. QED BY <1>1 DEF IInv, RowsTyped, EveryRoundIsPlanned, AccountsFit

LEMMA BeginPlanningStep == ASSUME IInv, BeginPlanning PROVE IInv'
<1>1. /\ run \in RunRow /\ steps \in StepRows /\ RunFits(run) /\ run.status = "PLANNING"
      /\ run.attempt \in Attempts /\ run.resume = "NONE"
  BY DEF BeginPlanning, Tick, IInv, RowsTyped, RunRow, RunFits
<1>2. /\ run' \in RunRow /\ RunFits(run') /\ run'.round = run.round /\ run'.status = run.status
      /\ run'.resume = run.resume /\ run'.attempt = run.attempt /\ run'.settled = run.settled
  BY <1>1, ClearFits DEF BeginPlanning, IInv, RunRow, RowsTyped
<1>. DEFINE read == SetOutages(steps, steps.outages \ {run.attempt})
<1>3. /\ KeepsPlans(steps, steps')
      /\ \/ worker' = worker
         \/ Goes("planning") /\ steps'.planning[run.attempt] = "RUNNING"
  <2>1. KeepsPlans(steps, read)
    <3>1. steps.outages \ {run.attempt} \in SUBSET Attempts
      BY <1>1 DEF StepRows
    <3>. QED BY <1>1, <3>1, WriteOutages
  <2>. DEFINE running == SetPlanning(read, run.attempt, "RUNNING")
  <2>2. \/ steps' = read /\ worker' = worker
        \/ steps' = running /\ Goes("planning")
    BY DEF BeginPlanning, SetOutages, SetPlanning
  <2>. HIDE DEF read
  <2>3. KeepsPlans(read, running) /\ running.planning[run.attempt] = "RUNNING"
    <3>1. read \in StepRows /\ "RUNNING" \in StepStates
      BY <2>1 DEF KeepsPlans, StepStates
    <3>. QED BY <1>1, <3>1, WritePlanning
  <2>. HIDE DEF running
  <2>. QED BY <2>1, <2>2, <2>3 DEF KeepsPlans
<1>4. CASE worker' = worker
  BY <1>2, <1>3, <1>4, RunRests DEF Rests, BeginPlanning, Tick, IInv, RowsTyped, KeepsPlans
<1>5. CASE Goes("planning") /\ steps'.planning[run.attempt] = "RUNNING"
  <2>1. worker' = [at |-> "planning", round |-> run.round] /\ worker' \in WorkerRow
    BY <1>1, <1>5 DEF Goes, WorkerRow, RunRow
  <2>2. WorkerFits'
    BY <1>1, <1>2, <1>5, <2>1, LifecycleAssumption DEF WorkerFits, At, On, RunRow, Rounds
  <2>. QED BY <1>2, <1>3, <2>1, <2>2, WorkKeeps DEF BeginPlanning, IInv, RowsTyped, KeepsPlans
<1>. QED BY <1>3, <1>4, <1>5

LEMMA StageCompletesStep == ASSUME IInv, StageCompletes PROVE IInv'
<1>1. /\ run \in RunRow /\ steps \in StepRows /\ RunFits(run) /\ run.attempt \in Attempts
      /\ worker' = worker /\ issues' = issues
  BY DEF StageCompletes, IInv, RowsTyped, RunRow
<1>2. /\ run' \in RunRow /\ RunFits(run') /\ run'.round = run.round /\ run'.status = run.status
      /\ run'.resume = run.resume /\ run'.attempt = run.attempt /\ run'.settled = run.settled
  BY <1>1, ClearFits DEF StageCompletes, IInv, RunRow
<1>3. /\ steps' \in StepRows /\ steps'.plan = steps.plan /\ steps'.image = steps.image
      /\ steps'.planning = steps.planning
  <2>1. steps.stages[run.attempt] + 1 \in 0..MaxStages
    BY <1>1, LifecycleAssumption DEF StageCompletes, StepRows
  <2>. QED BY <1>1, <2>1 DEF StageCompletes, StepRows
<1>4. WorkerFits'
  BY <1>1, <1>2, <1>3 DEF WorkerFits, IInv, At, On
<1>. QED BY <1>1, <1>2, <1>3, <1>4, WorkKeeps DEF IInv, RowsTyped

LEMMA PlanningIssueIsIssue == \A a \in Attempts : PlanningIssue(a) \in Issues
  BY DEF PlanningIssue, Issues, Levels

LEMMA PlanningCompletesStep == ASSUME IInv, PlanningCompletes PROVE IInv'
<1>1. /\ run \in RunRow /\ steps \in StepRows /\ RunFits(run) /\ run.attempt \in Attempts
      /\ run.status # "RECOVERING" /\ issues \subseteq Issues
  BY DEF PlanningCompletes, IInv, RowsTyped, RunRow, WorkerFits, At
<1>2. CASE Throw
  BY <1>1, <1>2, ThrowKeeps
<1>3. CASE ~Throw
  <2>1. run' = To(run, "EXECUTING") /\ Rests /\ issues' \subseteq Issues
        /\ steps' = SetPlanning(steps, run.attempt, "COMPLETED")
    BY <1>1, <1>3 DEF PlanningCompletes, Rests, SetPlanning
  <2>2. run' \in RunRow /\ RunFits(run')
        /\ run' = [run EXCEPT !.status = "EXECUTING", !.resume = "NONE"]
    BY <1>1, <2>1, ToFits DEF Statuses
  <2>3. run'.round = run.round /\ run'.settled = run.settled
    BY <1>1, <2>2 DEF RunRow
  <2>4. KeepsPlans(steps, steps')
    BY <1>1, <2>1, WritePlanning DEF StepStates
  <2>. QED BY <2>1, <2>2, <2>3, <2>4, RunRests DEF KeepsPlans
<1>. QED BY <1>2, <1>3

LEMMA PlanningFailsStep == ASSUME IInv, PlanningFails PROVE IInv'
<1>1. /\ run \in RunRow /\ steps \in StepRows /\ RunFits(run) /\ run.attempt \in Attempts
      /\ run.status # "RECOVERING" /\ issues \subseteq Issues
  BY DEF PlanningFails, IInv, RowsTyped, RunRow, WorkerFits, At
<1>2. CASE Throw
  BY <1>1, <1>2, ThrowKeeps
<1>3. CASE ~Throw
  <2>1. Rests /\ issues' \subseteq Issues /\ run.status = "PLANNING"
    BY <1>1, <1>3, PlanningIssueIsIssue DEF PlanningFails, Rests
  <2>2. steps' \in StepRows /\ steps'.plan = steps.plan /\ steps'.image = steps.image
    <3>. DEFINE failed == SetPlanning(steps, run.attempt, "FAILED")
    <3>1. KeepsPlans(steps, failed)
      BY <1>1, WritePlanning DEF StepStates
    <3>2. \/ steps' = failed
          \/ \E used \in {{}, {run.attempt}} :
               steps' = SetExhausted(failed, failed.exhausted \cup used)
      BY <1>3 DEF PlanningFails, SetPlanning, SetExhausted
    <3>. HIDE DEF failed
    <3>3. CASE steps' = failed
      BY <3>1, <3>3 DEF KeepsPlans
    <3>4. ASSUME NEW used \in {{}, {run.attempt}},
                 steps' = SetExhausted(failed, failed.exhausted \cup used)
          PROVE  KeepsPlans(steps, steps')
      <4>1. failed \in StepRows /\ failed.exhausted \cup used \in SUBSET Attempts
        BY <1>1, <3>1 DEF KeepsPlans, StepRows
      <4>. QED BY <3>1, <3>4, <4>1, WriteExhausted DEF KeepsPlans
    <3>. QED BY <3>2, <3>3, <3>4 DEF KeepsPlans
  <2>3. CASE \E d \in Dispositions : run' = BeginRecovery(run, d)
    BY <1>1, <2>1, <2>2, <2>3, RecoveryFalls, FallRests DEF RecoverableStates
  <2>4. CASE run' = To(run, "NEEDS_HUMAN")
    <3>1. run' \in RunRow /\ RunFits(run')
          /\ run' = [run EXCEPT !.status = "NEEDS_HUMAN", !.resume = "NONE"]
      BY <1>1, <2>4, ToFits DEF Statuses
    <3>2. run'.round = run.round /\ run'.settled = run.settled
      BY <1>1, <3>1 DEF RunRow
    <3>. QED BY <2>1, <2>2, <3>1, <3>2, RunRests
  <2>. QED BY <1>3, <2>3, <2>4 DEF PlanningFails
<1>. QED BY <1>2, <1>3

-----------------------------------------------------------------------------
(* The image. *)

LEMMA BeginImageStep == ASSUME IInv, BeginImage PROVE IInv'
<1>1. run \in RunRow /\ run.round \in Rounds /\ InMediaPhase(run)
  BY DEF BeginImage, MediaTick, IInv, RowsTyped, RunRow
<1>2. worker' = [at |-> "media", round |-> run.round] /\ UNCHANGED <<run, steps, issues>>
  BY DEF BeginImage, Goes
<1>3. worker' \in WorkerRow /\ worker'.at = "media" /\ worker'.round = run.round
  BY <1>1, <1>2 DEF WorkerRow
<1>4. WorkerFits'
  <2>1. run.round \in Nat
    BY <1>1, LifecycleAssumption DEF Rounds
  <2>. QED BY <1>1, <1>2, <1>3, <2>1 DEF WorkerFits, At, InMediaPhase
<1>. QED BY <1>2, <1>3, <1>4, WorkKeeps DEF IInv, RowsTyped

LEMMA BudgetShortStep == ASSUME IInv, BudgetShort PROVE IInv'
<1>1. run.status # "RECOVERING"
  BY DEF BudgetShort, IInv, WorkerFits, At
<1>2. CASE Idle /\ UNCHANGED <<run, steps, issues>>
  BY <1>2, RunRests DEF Rests, IInv, RowsTyped
<1>3. CASE MoveOrThrow("PAUSED")
  BY <1>1, <1>3, MoveKeeps
<1>. QED BY <1>2, <1>3 DEF BudgetShort

\* What holds the authorization of an image.
LEMMA HoldFits ==
  ASSUME NEW r \in RunRow, RunFits(r), NEW held \in BOOLEAN, r.status # "FAILED"
  PROVE  /\ [r EXCEPT !.settled = held] \in RunRow /\ RunFits([r EXCEPT !.settled = held])
         /\ [r EXCEPT !.settled = held].status = r.status
         /\ [r EXCEPT !.settled = held].round = r.round
         /\ [r EXCEPT !.settled = held].settled = held
  BY DEF RunFits, RunRow

LEMMA SubmitImageStep == ASSUME IInv, SubmitImage PROVE IInv'
<1>1. /\ run \in RunRow /\ steps \in StepRows /\ RunFits(run) /\ worker.round \in Rounds
      /\ run.status # "FAILED" /\ Idle /\ issues' = issues
      /\ steps' = SetImage(steps, worker.round, "PENDING")
      /\ run' = [run EXCEPT !.settled = FALSE]
  BY DEF SubmitImage, IInv, RowsTyped, WorkerRow, InMediaPhase, SetImage
<1>2. run' \in RunRow /\ RunFits(run') /\ run'.round = run.round /\ run'.settled = FALSE
  BY <1>1, HoldFits
<1>3. steps' \in StepRows /\ steps'.plan = steps.plan
  BY <1>1, WriteImage DEF ImageStates
<1>4. run.round <= run'.round
  BY <1>1, <1>2, LifecycleAssumption DEF RunRow, Rounds
<1>. QED BY <1>1, <1>2, <1>3, <1>4, RestKeeps DEF Rests, IInv, RowsTyped, EveryRoundIsPlanned

LEMMA ImageNotSubmittedStep == ASSUME IInv, ImageNotSubmitted PROVE IInv'
<1>. DEFINE s == IF InMediaPhase(run) THEN To(run, "PAUSED") ELSE run
<1>1. /\ run \in RunRow /\ RunFits(run) /\ run.status # "FAILED"
      /\ run' = [s EXCEPT !.settled = FALSE] /\ Rests /\ UNCHANGED <<steps, issues>>
  BY DEF ImageNotSubmitted, IInv, RowsTyped, WorkerFits, At, Rests
<1>2. s \in RunRow /\ RunFits(s) /\ s.status # "FAILED" /\ s.round = run.round
  <2>1. CASE InMediaPhase(run)
    <3>1. s \in RunRow /\ RunFits(s) /\ s = [run EXCEPT !.status = "PAUSED", !.resume = run.status]
      BY <1>1, <2>1, PauseFits DEF InMediaPhase, PausableStates
    <3>. HIDE DEF s
    <3>. QED BY <1>1, <3>1 DEF RunRow
  <2>2. CASE ~InMediaPhase(run)
    BY <1>1, <2>2
  <2>. QED BY <2>1, <2>2
<1>. HIDE DEF s
<1>3. run' \in RunRow /\ RunFits(run') /\ run'.round = run.round /\ run'.settled = FALSE
  BY <1>1, <1>2, HoldFits
<1>. QED BY <1>1, <1>3, RunRests DEF IInv, RowsTyped

LEMMA BrokenTyped ==
  ASSUME RowsTyped, RunFits(run), NEW d
  PROVE  Broken(d) \in SUBSET (1..MaxRounds)
<1>1. run.status = "REVISING" => run.round \in 1..MaxRounds
  BY LifecycleAssumption DEF RowsTyped, RunRow, RunFits, Rounds
<1>. QED BY <1>1 DEF Broken, RowsTyped, StepRows

LEMMA ImageSubmissionFailsStep == ASSUME IInv, ImageSubmissionFails PROVE IInv'
<1>1. PICK d \in Dispositions, reserved \in BOOLEAN :
        LET held == [run EXCEPT !.settled = @ /\ ~reserved]
        IN /\ run' = IF Recoverable(held) THEN BeginRecovery(held, d) ELSE held
           /\ steps' = [steps EXCEPT !.broken = Broken(d)]
  BY DEF ImageSubmissionFails
<1>. DEFINE held == [run EXCEPT !.settled = run.settled /\ ~reserved]
<1>2. /\ run \in RunRow /\ RunFits(run) /\ run.status # "FAILED" /\ steps \in StepRows
      /\ run.settled \in BOOLEAN
  BY DEF ImageSubmissionFails, IInv, RowsTyped, WorkerFits, At, RunRow
<1>3. /\ held \in RunRow /\ RunFits(held) /\ held.round = run.round
      /\ held.settled = (run.settled /\ ~reserved)
  BY <1>2, HoldFits
<1>4. run' = IF Recoverable(held) THEN BeginRecovery(held, d) ELSE held
  BY <1>1
<1>. HIDE DEF held
<1>5. Falls(held, run')
  BY <1>3, <1>4, RecoveryFalls DEF Recoverable, Falls
<1>6. /\ run' \in RunRow /\ RunFits(run') /\ run'.round = run.round
      /\ run'.settled => run.settled
  BY <1>3, <1>5 DEF Falls, Suspends
<1>7. KeepsPlans(steps, steps')
  <2>1. steps' = SetBroken(steps, Broken(d)) /\ Broken(d) \in SUBSET (1..MaxRounds)
    BY <1>1, BrokenTyped DEF SetBroken, IInv
  <2>. QED BY <1>2, <2>1, WriteBroken
<1>. QED
  BY <1>6, <1>7, RunRests DEF ImageSubmissionFails, Rests, IInv, RowsTyped, KeepsPlans

LEMMA ImageEditUnavailableStep == ASSUME IInv, ImageEditUnavailable PROVE IInv'
<1>1. Falls(run, run')
  BY FailFalls DEF ImageEditUnavailable, IInv, RowsTyped, FailureCodes
<1>. QED BY <1>1, FallRests DEF ImageEditUnavailable, MediaTick, Rests, IInv, RowsTyped

LEMMA ImageBlockedStep == ASSUME IInv, ImageBlocked PROVE IInv'
<1>1. PICK d \in Dispositions : run' = BeginRecovery(run, d) /\ steps' = SetBroken(steps, Broken(d))
  BY DEF ImageBlocked, SetBroken
<1>2. Falls(run, run')
  BY <1>1, RecoveryFalls
     DEF ImageBlocked, MediaTick, InMediaPhase, IInv, RowsTyped, RecoverableStates
<1>3. KeepsPlans(steps, steps')
  BY <1>1, BrokenTyped, WriteBroken DEF IInv, RowsTyped
<1>. QED
  BY <1>2, <1>3, FallRests DEF ImageBlocked, MediaTick, Rests, IInv, RowsTyped, KeepsPlans

\* Whether the Run recovers or is left alone, its accounting stays as it is.
LEMMA RecoversOrStays ==
  ASSUME IInv, NEW d, RecoverIfPossible(d)
  PROVE  Falls(run, run')
  BY RecoveryFalls DEF RecoverIfPossible, Recoverable, IInv, RowsTyped, Falls

LEMMA AnswerImageStep == ASSUME IInv, AnswerImage PROVE IInv'
<1>1. PICK r \in Rounds :
        /\ At("idle") /\ steps.image[r] \in Unfinished
        /\ \/ /\ steps' = SetImage(steps, r, "COMPLETED")
              /\ issues' = issues \ {ImageIssue(r)}
              /\ UNCHANGED run
           \/ /\ \E to \in {"FAILED", "UNKNOWN"}, d \in Dispositions :
                   /\ \E broken \in {steps.broken, Broken(d)} :
                        steps' = SetBroken(SetImage(steps, r, to), broken)
                   /\ RecoverIfPossible(d)
              /\ issues' = issues \cup {ImageIssue(r)}
           \/ /\ steps.image[r] = "UNKNOWN"
              /\ steps' = SetImage(steps, r, "PENDING")
              /\ UNCHANGED <<run, issues>>
        /\ UNCHANGED worker
  BY DEF AnswerImage, SetImage, SetBroken
<1>2. run \in RunRow /\ RunFits(run) /\ steps \in StepRows /\ issues \subseteq Issues
  BY DEF IInv, RowsTyped
<1>3. ~run.settled
  BY <1>1 DEF IInv, AccountsFit, NothingUnfinished
<1>4. issues' \subseteq Issues
  <2>1. ImageIssue(r) \in Issues
    BY DEF ImageIssue, Issues, Levels
  <2>. QED BY <1>1, <1>2, <2>1
<1>5. Falls(run, run')
  BY <1>1, <1>2, RecoversOrStays DEF Falls
<1>6. steps' \in StepRows /\ steps'.plan = steps.plan
  <2>1. \A to \in {"COMPLETED", "FAILED", "UNKNOWN", "PENDING"} :
          SetImage(steps, r, to) \in StepRows /\ SetImage(steps, r, to).plan = steps.plan
    <3>1. {"COMPLETED", "FAILED", "UNKNOWN", "PENDING"} \subseteq ImageStates
      BY DEF ImageStates
    <3>. QED BY <1>2, <3>1, WriteImage
  <2>2. \A broken \in SUBSET (1..MaxRounds), to \in {"FAILED", "UNKNOWN"} :
          KeepsPlans(SetImage(steps, r, to), SetBroken(SetImage(steps, r, to), broken))
    BY <2>1, WriteBroken
  <2>3. steps.broken \in SUBSET (1..MaxRounds) /\ \A d : Broken(d) \in SUBSET (1..MaxRounds)
    BY <1>2, BrokenTyped DEF StepRows, IInv
  <2>4. CASE \E to \in {"FAILED", "UNKNOWN"}, d \in Dispositions :
               \E broken \in {steps.broken, Broken(d)} :
                  steps' = SetBroken(SetImage(steps, r, to), broken)
    BY <2>1, <2>2, <2>3, <2>4 DEF KeepsPlans
  <2>. QED BY <1>1, <2>1, <2>4
<1>7. run' \in RunRow /\ RunFits(run') /\ run'.round = run.round /\ ~run'.settled
  BY <1>2, <1>3, <1>5 DEF Falls, Suspends
<1>8. run.round <= run'.round
  BY <1>2, <1>7, LifecycleAssumption DEF RunRow, Rounds
<1>. QED BY <1>1, <1>4, <1>6, <1>7, <1>8, RestKeeps DEF Rests, IInv, EveryRoundIsPlanned

LEMMA SettleAccountingStep == ASSUME IInv, SettleAccounting PROVE IInv'
<1>1. /\ run \in RunRow /\ RunFits(run) /\ run.status # "FAILED" /\ NothingUnfinished
      /\ run' = [run EXCEPT !.settled = TRUE] /\ Rests /\ UNCHANGED <<steps, issues>>
  BY DEF SettleAccounting, IInv, RowsTyped, InMediaPhase, Rests
<1>2. run' \in RunRow /\ RunFits(run') /\ run'.round = run.round
  BY <1>1, HoldFits
<1>. QED BY <1>1, <1>2, RunRests DEF IInv, RowsTyped

LEMMA MoveToPageReviewStep == ASSUME IInv, MoveToPageReview PROVE IInv'
<1>1. /\ run \in RunRow /\ RunFits(run) /\ steps \in StepRows /\ Rests /\ issues' = issues
      /\ run' = To(run, "PAGE_REVIEW")
  BY DEF MoveToPageReview, MediaTick, Rests, IInv, RowsTyped
<1>2. run' \in RunRow /\ RunFits(run')
      /\ run' = [run EXCEPT !.status = "PAGE_REVIEW", !.resume = "NONE"]
  BY <1>1, ToFits DEF Statuses
<1>3. run'.round = run.round /\ run'.settled = run.settled
  BY <1>1, <1>2 DEF RunRow
<1>4. KeepsPlans(steps, steps')
  <2>. DEFINE set == IF run.status = "REVISING" THEN steps.repaired \cup {run.round}
                                                ELSE steps.repaired
  <2>1. set \in SUBSET (1..MaxRounds)
    BY <1>1, LifecycleAssumption DEF StepRows, RunRow, RunFits, Rounds
  <2>2. steps' = SetRepaired(steps, set)
    BY DEF MoveToPageReview, SetRepaired
  <2>. HIDE DEF set
  <2>. QED BY <1>1, <2>1, <2>2, WriteRepaired
<1>. QED BY <1>1, <1>2, <1>3, <1>4, RunRests DEF IInv, RowsTyped, KeepsPlans

-----------------------------------------------------------------------------
(* The review of the page. *)

\* A step whose step rows are those of other tools than the plans, and after
\* which the Run is left alone, fails or recovers.
LEMMA FallKeeps ==
  ASSUME IInv, Rests, Falls(run, run'), KeepsPlans(steps, steps'), issues' \subseteq Issues
  PROVE  IInv'
  BY FallRests DEF KeepsPlans

\* The row is left alone, and the worker goes on.
LEMMA GoesOn ==
  ASSUME IInv, run' = run, KeepsPlans(steps, steps'), issues' \subseteq Issues,
         worker' \in WorkerRow, WorkerFits'
  PROVE  IInv'
  BY WorkKeeps DEF KeepsPlans, IInv, RowsTyped

LEMMA StepsKeepPlans == ASSUME IInv, steps' = steps PROVE KeepsPlans(steps, steps')
  BY DEF KeepsPlans, IInv, RowsTyped

LEMMA BeginPageStep == ASSUME IInv, BeginPage PROVE IInv'
<1>1. /\ run \in RunRow /\ steps \in StepRows /\ RunFits(run) /\ run.round \in Rounds
      /\ run.round \in Nat /\ run.status = "PAGE_REVIEW" /\ run.resume = "NONE"
  BY LifecycleAssumption DEF BeginPage, Tick, IInv, RowsTyped, RunRow, RunFits, Rounds
<1>2. /\ KeepsPlans(steps, steps') /\ run' = run /\ issues' = issues
      /\ Goes("page") \/ Goes("decide")
  <2>1. KeepsPlans(steps, SetPage(steps, run.round, "RUNNING"))
    BY <1>1, WritePage DEF PageStates
  <2>. QED BY <2>1, StepsKeepPlans DEF BeginPage, SetPage
<1>3. /\ worker' \in WorkerRow /\ worker'.at \in {"page", "decide"} /\ worker'.round = run.round
  BY <1>1, <1>2 DEF Goes, WorkerRow
<1>4. WorkerFits'
  BY <1>1, <1>2, <1>3 DEF WorkerFits, At, On
<1>. QED BY <1>2, <1>3, <1>4, GoesOn DEF IInv, RowsTyped

\* What a failed call leaves on the step of a page review.
LEMMA PageFailureFails ==
  ASSUME NEW chain \in Call!Chains
  PROVE  Call!Failures["page"][chain] \subseteq Failures
<1>1. "page" \in Call!Callers
  BY DEF Call!Callers
<1>2. \A answer : Call!PageFailure(answer) \in Failures
  BY DEF Call!PageFailure, Call!Disposition, Failures, Dispositions
<1>3. "NON_RETRYABLE" \in Failures /\ "INTERNAL" \in Failures
  BY DEF Failures, Dispositions
<1>. QED BY <1>1, <1>2, <1>3 DEF Call!Failures

LEMMA PageReviewedStep == ASSUME IInv, PageReviewed PROVE IInv'
<1>1. /\ run \in RunRow /\ steps \in StepRows /\ worker \in WorkerRow /\ At("page")
      /\ worker.round \in Rounds /\ run.chain \in Call!Chains /\ issues \subseteq Issues
  BY LifecycleAssumption DEF PageReviewed, IInv, RowsTyped, WorkerRow, RunRow
<1>2. PICK verdict \in {"APPROVED"} \cup Levels \cup Call!Failures["page"][run.chain] :
        /\ steps' = SetPage(steps, worker.round, verdict)
        /\ issues' = IF verdict \in Levels THEN issues \cup {PageIssue(worker.round, verdict)}
                                           ELSE issues
  BY DEF PageReviewed, SetPage
<1>3. verdict \in PageStates
  BY <1>1, PageFailureFails DEF PageStates
<1>4. issues' \subseteq Issues
  <2>1. verdict \in Levels => PageIssue(worker.round, verdict) \in Issues
    BY <1>1 DEF PageIssue, Issues
  <2>. QED BY <1>1, <1>2, <2>1
<1>5. KeepsPlans(steps, steps')
  BY <1>1, <1>2, <1>3, WritePage
<1>6. worker' = [worker EXCEPT !.at = "decide"] /\ run' = run
  BY DEF PageReviewed, Continues
<1>7. worker' \in WorkerRow /\ worker'.at = "decide" /\ worker'.round = worker.round
  BY <1>1, <1>6 DEF WorkerRow
<1>8. WorkerFits'
  BY <1>1, <1>6, <1>7 DEF IInv, WorkerFits, At, On
<1>. QED BY <1>4, <1>5, <1>6, <1>7, <1>8, GoesOn

\* Nothing but where the Run is changes: it is what it was, in the same round.
SameRound(r, s) == s \in RunRow /\ RunFits(s) /\ s.round = r.round /\ s.settled = r.settled

LEMMA MovedRests ==
  ASSUME IInv, Rests, SameRound(run, run'), KeepsPlans(steps, steps'), issues' \subseteq Issues
  PROVE  IInv'
  BY RunRests DEF KeepsPlans, SameRound

LEMMA FatalFalls ==
  ASSUME IInv, run.status # "RECOVERING"
  PROVE  Falls(run, Fatal)
  BY FailFalls DEF Fatal, IInv, RowsTyped, Falls, FailureCodes

LEMMA FallenSameRound == ASSUME NEW r \in RunRow, NEW s, Falls(r, s) PROVE SameRound(r, s)
  BY DEF Falls, Suspends, SameRound

LEMMA ToSameRound ==
  ASSUME NEW r \in RunRow, RunFits(r), NEW to \in Statuses \ {"RECOVERING", "FAILED", "PAUSED"},
         to = "REVISING" => r.round >= 1
  PROVE  SameRound(r, To(r, to))
<1>1. /\ To(r, to) \in RunRow /\ RunFits(To(r, to))
      /\ To(r, to) = [r EXCEPT !.status = to, !.resume = "NONE"]
  BY ToFits
<1>. QED BY <1>1 DEF SameRound, RunRow

\* The disposition and what was accepted take no part in how a row fits.
Dispositioned == {"PENDING", "REVIEW_PASSED", "SYSTEM_POLICY_ACCEPTED", "ADMIN_OVERRIDE",
                  "HARD_FAILURE"}

LEMMA DisposedFits ==
  ASSUME NEW r \in RunRow, NEW s, SameRound(r, s), NEW d \in Dispositioned
  PROVE  SameRound(r, [s EXCEPT !.disposition = d])
<1>1. s \in RunRow /\ RunFits(s) /\ s.round = r.round /\ s.settled = r.settled
  BY DEF SameRound
<1>. DEFINE t == [s EXCEPT !.disposition = d]
<1>2. t \in RunRow
  BY <1>1 DEF RunRow, Dispositioned
<1>3. /\ t.status = s.status /\ t.resume = s.resume /\ t.recovery = s.recovery
      /\ t.round = s.round /\ t.settled = s.settled /\ t.pending = s.pending
  BY <1>1 DEF RunRow
<1>. HIDE DEF t
<1>4. RunFits(t)
  BY <1>1, <1>3 DEF RunFits
<1>5. SameRound(r, t)
  BY <1>1, <1>2, <1>3, <1>4 DEF SameRound
<1>. QED BY <1>5 DEF t

LEMMA AcceptedFits ==
  ASSUME NEW r \in RunRow, NEW s, SameRound(r, s), NEW d \in Dispositioned
  PROVE  SameRound(r, [s EXCEPT !.disposition = d, !.accepted = TRUE])
<1>1. s \in RunRow /\ RunFits(s) /\ s.round = r.round /\ s.settled = r.settled
  BY DEF SameRound
<1>. DEFINE t == [s EXCEPT !.disposition = d, !.accepted = TRUE]
<1>2. t \in RunRow
  BY <1>1 DEF RunRow, Dispositioned
<1>3. /\ t.status = s.status /\ t.resume = s.resume /\ t.recovery = s.recovery
      /\ t.round = s.round /\ t.settled = s.settled /\ t.pending = s.pending
  BY <1>1 DEF RunRow
<1>. HIDE DEF t
<1>4. RunFits(t)
  BY <1>1, <1>3 DEF RunFits
<1>5. SameRound(r, t)
  BY <1>1, <1>2, <1>3, <1>4 DEF SameRound
<1>. QED BY <1>5 DEF t

LEMMA ToDeckReviewFits ==
  ASSUME IInv
  PROVE  SameRound(run, ToDeckReview(run))
<1>1. SameRound(run, To(run, "DECK_REVIEW"))
  BY ToSameRound DEF IInv, RowsTyped, Statuses
<1>2. run \in RunRow /\ "PENDING" \in Dispositioned
  BY DEF IInv, RowsTyped, Dispositioned
<1>. QED BY <1>1, <1>2, DisposedFits DEF ToDeckReview

LEMMA PageApprovedStep == ASSUME IInv, PageApproved PROVE IInv'
<1>1. Rests /\ steps' = steps /\ issues' \subseteq Issues /\ run.status # "RECOVERING"
  BY DEF PageApproved, Rests, IInv, RowsTyped, WorkerFits, At
<1>2. SameRound(run, run')
  BY <1>1, ToDeckReviewFits, FatalFalls, FallenSameRound DEF PageApproved, IInv, RowsTyped
<1>. QED BY <1>1, <1>2, MovedRests, StepsKeepPlans

LEMMA PageReviewFailedStep == ASSUME IInv, PageReviewFailed PROVE IInv'
<1>1. run \in RunRow /\ steps \in StepRows /\ RunFits(run) /\ run.status # "RECOVERING"
  BY DEF PageReviewFailed, IInv, RowsTyped, WorkerFits, At
<1>2. CASE MoveOrThrow("NEEDS_HUMAN")
  BY <1>1, <1>2, MoveKeeps
<1>. DEFINE pages == [q \in Rounds |-> IF steps.page[q] \in Failures THEN "RESERVED"
                                                                  ELSE steps.page[q]]
            failure == steps.page[worker.round]
<1>3. CASE Recoverable(run) /\ run' = BeginRecovery(run, failure)
           /\ steps' = SetPages(steps, pages) /\ Idle /\ issues' = issues
  <2>1. pages \in [Rounds -> PageStates]
    BY <1>1 DEF PageStates, StepRows
  <2>. HIDE DEF pages, failure
  <2>2. KeepsPlans(steps, steps')
    BY <1>1, <1>3, <2>1, WritePages
  <2>3. Falls(run, run')
    BY <1>1, <1>3, RecoveryFalls DEF Recoverable
  <2>. QED BY <1>3, <2>2, <2>3, FallKeeps DEF Rests, IInv, RowsTyped
<1>. QED BY <1>2, <1>3 DEF PageReviewFailed, SetPages

\* A round is planned, and the Run moves into it.
LEMMA PlannedRests ==
  ASSUME IInv, Rests, run' \in RunRow, RunFits(run'), run.round + 1 = run'.round,
         steps' \in StepRows, steps'.image = steps.image, issues' \subseteq Issues,
         NEW plan, plan.st = "COMPLETED", steps'.plan = [steps.plan EXCEPT ![run'.round] = plan],
         run'.settled = run.settled
  PROVE  IInv'
<1>1. run.round \in Nat /\ run'.round \in 1..MaxRounds /\ steps \in StepRows
  BY LifecycleAssumption DEF IInv, RowsTyped, RunRow, Rounds
<1>2. \A q \in 1..run'.round : steps'.plan[q].st = "COMPLETED"
  <2>1. TAKE q \in 1..run'.round
  <2>2. q \in 1..MaxRounds /\ (q = run'.round \/ q \in 1..run.round)
    BY <1>1, LifecycleAssumption
  <2>3. steps'.plan[q] = IF q = run'.round THEN plan ELSE steps.plan[q]
    BY <1>1, <2>2 DEF StepRows
  <2>. QED BY <2>2, <2>3 DEF IInv, EveryRoundIsPlanned
<1>3. NothingUnfinished' = NothingUnfinished
  BY DEF NothingUnfinished
<1>. QED BY <1>1, <1>2, <1>3, RestKeeps DEF IInv, AccountsFit

\* The Run is in the round after the one it was in.
LEMMA NextRoundFits ==
  ASSUME NEW r \in RunRow, RunFits(r), NEW to \in {"REVISING", "AWAITING_REVISION_APPROVAL"},
         NEW q \in Rounds, q >= 1
  PROVE  LET s == [To(r, to) EXCEPT !.round = q]
         IN s \in RunRow /\ RunFits(s) /\ s.round = q /\ s.settled = r.settled
<1>. DEFINE s == [r EXCEPT !.status = to, !.resume = "NONE", !.round = q]
<1>1. [To(r, to) EXCEPT !.round = q] = s
  BY DEF To, RunRow
<1>2. s \in RunRow
  BY DEF RunRow, Statuses
<1>3. /\ s.status = to /\ s.resume = "NONE" /\ s.round = q /\ s.settled = r.settled
      /\ s.recovery = r.recovery
  BY DEF RunRow
<1>. HIDE DEF s
<1>4. RunFits(s)
  BY <1>3 DEF RunFits
<1>. QED BY <1>1, <1>2, <1>3, <1>4

LEMMA RevisePageStep == ASSUME IInv, RevisePage PROVE IInv'
<1>1. /\ run \in RunRow /\ steps \in StepRows /\ RunFits(run) /\ run.status # "RECOVERING"
      /\ worker.round \in Nat /\ worker.round \in Rounds /\ issues \subseteq Issues
  BY LifecycleAssumption
     DEF RevisePage, PageRejected, IInv, RowsTyped, WorkerRow, WorkerFits, At, Rounds
<1>2. CASE Throw
  BY <1>1, <1>2, ThrowKeeps
<1>. DEFINE q == worker.round + 1
            plan == [st |-> "COMPLETED", origin |-> "PAGE",
                     fixes |-> {PageIssue(worker.round, steps.page[worker.round])}]
<1>3. CASE ~Throw
  <2>1. /\ run.round = worker.round /\ worker.round < MaxRounds
        /\ run' = [To(run, "REVISING") EXCEPT !.round = q]
        /\ steps' = SetPlan(steps, q, plan)
        /\ Rests /\ issues' = issues /\ steps.page[worker.round] \in Levels
    BY <1>3 DEF RevisePage, PageRejected, SetPlan, Rests, Levels
  <2>2. q \in Rounds /\ q >= 1 /\ q \in 1..MaxRounds /\ q = run.round + 1
    BY <1>1, <2>1, LifecycleAssumption DEF Rounds
  <2>3. plan \in Plans /\ plan.st = "COMPLETED"
    BY <1>1, <2>1 DEF Plans, PageIssue, Issues
  <2>. HIDE DEF plan, q
  <2>4. /\ steps' \in StepRows /\ steps'.image = steps.image
        /\ steps'.plan = [steps.plan EXCEPT ![q] = plan]
    BY <1>1, <2>1, <2>2, <2>3, WritePlan
  <2>5. run' \in RunRow /\ RunFits(run') /\ run'.round = q /\ run'.settled = run.settled
    BY <1>1, <2>1, <2>2, NextRoundFits
  <2>. QED BY <1>1, <2>1, <2>2, <2>3, <2>4, <2>5, PlannedRests
<1>. QED BY <1>2, <1>3

LEMMA RevisionOfPageExhaustedStep == ASSUME IInv, RevisionOfPageExhausted PROVE IInv'
<1>1. /\ Rests /\ steps' = steps /\ issues' \subseteq Issues /\ run.status # "RECOVERING"
      /\ run \in RunRow /\ RunFits(run)
  BY DEF RevisionOfPageExhausted, PageRejected, Rests, IInv, RowsTyped, WorkerFits, At
<1>2. \A code \in FailureCodes : Falls(run, Fail(run, code))
  BY <1>1, FailFalls
<1>3. SameRound(run, run')
  <2>1. \/ \E code \in FailureCodes : run' = Fail(run, code)
        \/ run' = ToDeckReview(run)
        \/ run' = Fatal
    BY DEF RevisionOfPageExhausted, FailureCodes
  <2>. QED BY <1>1, <1>2, <2>1, ToDeckReviewFits, FatalFalls, FallenSameRound
<1>. QED BY <1>1, <1>3, MovedRests, StepsKeepPlans

LEMMA PageToPersonStep == ASSUME IInv, PageToPerson PROVE IInv'
<1>1. run.status # "RECOVERING"
  BY DEF PageToPerson, PageRejected, IInv, WorkerFits, At
<1>. QED BY <1>1, MoveKeeps DEF PageToPerson

-----------------------------------------------------------------------------
(* The review of the deck. *)

\* A review that failed is a row of its own.
LEMMA FailDeckFalls ==
  ASSUME IInv, NEW r \in Rounds, NEW kind, NEW real \in BOOLEAN, FailDeck(r, kind, real),
         run.status # "RECOVERING"
  PROVE  Falls(run, run') /\ KeepsPlans(steps, steps')
<1>. DEFINE review == [NoReview EXCEPT !.st = IF kind = "RETRYABLE" THEN "RUNNING" ELSE "FAILED",
                                       !.real = real]
<1>1. steps' = SetDeck(steps, r, review)
  BY DEF FailDeck, SetDeck
<1>2. review \in Reviews
  BY DEF Reviews, NoReview
<1>. HIDE DEF review
<1>3. KeepsPlans(steps, steps')
  BY <1>1, <1>2, WriteDeck DEF IInv, RowsTyped
<1>4. CASE run' = Fail(run, "TECHNICAL_CONTRACT_INVALID")
  BY <1>3, <1>4, FailFalls DEF FailureCodes, IInv, RowsTyped
<1>5. CASE RecoverIfPossible(kind)
  BY <1>3, <1>5, RecoversOrStays
<1>. QED BY <1>4, <1>5 DEF FailDeck

LEMMA DeckInputFailsStep == ASSUME IInv, DeckInputFails PROVE IInv'
<1>1. run.status # "RECOVERING" /\ run.round \in Rounds /\ Tick("DECK_REVIEW")
  BY DEF DeckInputFails, Tick, IInv, RowsTyped, RunRow
<1>2. CASE Throw
  BY <1>1, <1>2, ThrowKeeps
<1>3. CASE ~Throw
  <2>1. PICK kind : FailDeck(run.round, kind, FALSE) /\ UNCHANGED <<issues, worker>>
    BY <1>3 DEF DeckInputFails
  <2>. QED BY <1>1, <2>1, FailDeckFalls, FallKeeps DEF Tick, Rests, IInv, RowsTyped
<1>. QED BY <1>2, <1>3

LEMMA BeginDeckStep == ASSUME IInv, BeginDeck PROVE IInv'
<1>1. /\ run \in RunRow /\ steps \in StepRows /\ RunFits(run) /\ run.round \in Rounds
      /\ run.round \in Nat /\ run.status = "DECK_REVIEW" /\ run.resume = "NONE"
  BY LifecycleAssumption DEF BeginDeck, Tick, IInv, RowsTyped, RunRow, RunFits, Rounds
<1>2. CASE Throw
  BY <1>1, <1>2, ThrowKeeps
<1>3. CASE ~Throw
  <2>. DEFINE review == [steps.deck[run.round] EXCEPT !.st = "RUNNING"]
  <2>1. steps' = SetDeck(steps, run.round, review) /\ Goes("deck") /\ UNCHANGED <<run, issues>>
    BY <1>3 DEF BeginDeck, SetDeck
  <2>2. review \in Reviews
    <3>1. steps.deck[run.round] \in Reviews
      BY <1>1 DEF StepRows
    <3>. QED BY <3>1 DEF Reviews
  <2>. HIDE DEF review
  <2>3. KeepsPlans(steps, steps')
    BY <1>1, <2>1, <2>2, WriteDeck
  <2>4. worker' \in WorkerRow /\ worker'.at = "deck" /\ worker'.round = run.round
    BY <1>1, <2>1 DEF Goes, WorkerRow
  <2>5. WorkerFits'
    BY <1>1, <2>1, <2>4 DEF WorkerFits, At, On
  <2>. QED BY <2>1, <2>3, <2>4, <2>5, GoesOn DEF IInv, RowsTyped
<1>. QED BY <1>2, <1>3

LEMMA SystemAcceptedFits ==
  ASSUME IInv
  PROVE  SameRound(run, SystemAccepted(run))
<1>1. SameRound(run, To(run, "DELIVERING"))
  BY ToSameRound DEF IInv, RowsTyped, Statuses
<1>2. run \in RunRow /\ "SYSTEM_POLICY_ACCEPTED" \in Dispositioned
  BY DEF IInv, RowsTyped, Dispositioned
<1>. QED BY <1>1, <1>2, AcceptedFits DEF SystemAccepted

\* The worker goes on to what the review is to be repaired by.
LEMMA GoesToScope ==
  ASSUME IInv, Goes("scope"), SameRound(run, run'), run'.status = "DECK_REVIEW",
         run'.resume = "NONE", KeepsPlans(steps, steps'), issues' \subseteq Issues
  PROVE  IInv'
<1>1. run.round \in Nat /\ run.round \in Rounds /\ run'.round = run.round
  BY LifecycleAssumption DEF SameRound, IInv, RowsTyped, RunRow, Rounds
<1>2. worker' \in WorkerRow /\ worker'.at = "scope" /\ worker'.round = run.round
  BY <1>1 DEF Goes, WorkerRow
<1>3. WorkerFits'
  BY <1>1, <1>2 DEF WorkerFits, At, On
<1>4. NothingUnfinished' = NothingUnfinished
  BY DEF NothingUnfinished, KeepsPlans
<1>. QED
  BY <1>1, <1>2, <1>3, <1>4
     DEF IInv, RowsTyped, EveryRoundIsPlanned, AccountsFit, SameRound, KeepsPlans

LEMMA ReplayDeckStep == ASSUME IInv, ReplayDeck PROVE IInv'
<1>1. /\ run \in RunRow /\ RunFits(run) /\ run.status = "DECK_REVIEW" /\ run.resume = "NONE"
      /\ issues' \subseteq Issues /\ At("idle") /\ KeepsPlans(steps, steps')
  BY StepsKeepPlans DEF ReplayDeck, Tick, IInv, RowsTyped, RunFits
<1>2. \/ run' = SystemAccepted(run) /\ Idle
      \/ (\E code \in FailureCodes : run' = Fail(run, code)) /\ Idle
      \/ run' = run /\ (Idle \/ Goes("scope"))
  BY DEF ReplayDeck, FailureCodes
<1>3. CASE run' = SystemAccepted(run) /\ Idle
  BY <1>1, <1>3, SystemAcceptedFits, MovedRests DEF Rests
<1>4. CASE (\E code \in FailureCodes : run' = Fail(run, code)) /\ Idle
  BY <1>1, <1>4, FailFalls, FallKeeps DEF Rests
<1>5. CASE run' = run /\ Idle
  BY <1>1, <1>5, FallKeeps DEF Rests, Falls
<1>6. CASE run' = run /\ Goes("scope")
  BY <1>1, <1>6, GoesToScope DEF SameRound
<1>. QED BY <1>2, <1>3, <1>4, <1>5, <1>6

DeckIssuesTyped ==
  \A r \in Rounds, levels \in SUBSET Levels : DeckIssues(r, levels) \subseteq Issues

LEMMA DeckIssuesAreIssues == DeckIssuesTyped
  BY DEF DeckIssuesTyped, DeckIssues, Issues

LEMMA DeckCompletesStep == ASSUME IInv, DeckCompletes PROVE IInv'
<1>1. /\ run \in RunRow /\ steps \in StepRows /\ RunFits(run) /\ run.status # "RECOVERING"
      /\ worker.round \in Rounds /\ issues \subseteq Issues
  BY DEF DeckCompletes, IInv, RowsTyped, WorkerRow, WorkerFits, At
<1>2. CASE Throw
  BY <1>1, <1>2, ThrowKeeps
<1>3. CASE ~Throw
  <2>. DEFINE pending == [run EXCEPT !.disposition = "PENDING"]
  <2>. DEFINE redrawn == {q \in 1..MaxRounds :
                            /\ q <= worker.round /\ steps.plan[q].st = "COMPLETED"
                            /\ steps.apply[q] = "COMPLETED" /\ q \in steps.repaired}
              fixed == UNION {steps.plan[q].fixes : q \in redrawn}
              Open(found) == (issues \ fixed) \cup DeckIssues(worker.round, found)
              Completed(ok, repair) ==
                SetDeck(steps, worker.round,
                        [st |-> "COMPLETED", real |-> TRUE, ok |-> ok, repair |-> repair])
  <2>1. /\ \/ run' = SystemAccepted(run)
           \/ run' = [To(run, "DELIVERING") EXCEPT !.disposition = "REVIEW_PASSED"]
        /\ Idle
     \/ /\ run' = pending \/ \E code \in FailureCodes : run' = Fail(pending, code)
        /\ IF run'.status = "DECK_REVIEW" THEN Goes("scope") ELSE Idle
    <3>1. /\ "QUALITY_REMEDIATION_EXHAUSTED" \in FailureCodes
          /\ "QUALITY_ISSUE_STATE_INCONSISTENT" \in FailureCodes
      BY DEF FailureCodes
    <3>. HIDE DEF redrawn, fixed
    <3>. QED BY ONLY <1>3, <3>1, DeckCompletes, ZenonT(60) DEF DeckCompletes
  <2>2. \E ok \in BOOLEAN, repair \in SUBSET Levels : steps' = Completed(ok, repair)
    <3>1. PICK ok \in BOOLEAN, found \in SUBSET Levels : \E repair \in SUBSET found :
            steps' = [steps EXCEPT !.deck[worker.round] =
                        [st |-> "COMPLETED", real |-> TRUE, ok |-> ok, repair |-> repair]]
      BY ONLY <1>3, DeckCompletes, ZenonT(60) DEF DeckCompletes
    <3>2. PICK repair \in SUBSET found :
            steps' = [steps EXCEPT !.deck[worker.round] =
                        [st |-> "COMPLETED", real |-> TRUE, ok |-> ok, repair |-> repair]]
      BY <3>1
    <3>. QED BY <3>2 DEF SetDeck
  <2>6. issues' = {} \/ \E found \in SUBSET Levels : issues' = Open(found)
    BY ONLY <1>3, DeckCompletes, ZenonT(60) DEF DeckCompletes
  <2>. HIDE DEF redrawn, fixed
  <2>7. issues' \subseteq Issues
    BY <1>1, <2>6, DeckIssuesAreIssues DEF DeckIssuesTyped
  <2>3. KeepsPlans(steps, steps')
    <3>1. \A ok \in BOOLEAN, repair \in SUBSET Levels :
            [st |-> "COMPLETED", real |-> TRUE, ok |-> ok, repair |-> repair] \in Reviews
      BY DEF Reviews
    <3>. QED BY <1>1, <2>2, <3>1, WriteDeck
  <2>4. SameRound(run, pending) /\ pending.status = run.status /\ pending.resume = run.resume
    <3>1. SameRound(run, run) /\ "PENDING" \in Dispositioned
      BY <1>1 DEF SameRound, Dispositioned
    <3>2. pending.status = run.status /\ pending.resume = run.resume
      BY <1>1 DEF RunRow
    <3>. QED BY <1>1, <3>1, <3>2, DisposedFits
  <2>. HIDE DEF pending
  <2>5. CASE /\ \/ run' = SystemAccepted(run)
                \/ run' = [To(run, "DELIVERING") EXCEPT !.disposition = "REVIEW_PASSED"]
             /\ Idle
    <3>1. SameRound(run, To(run, "DELIVERING")) /\ "REVIEW_PASSED" \in Dispositioned
      BY <1>1, ToSameRound DEF Statuses, Dispositioned
    <3>2. SameRound(run, run')
      BY <1>1, <2>5, <3>1, DisposedFits, SystemAcceptedFits
    <3>. QED BY <2>3, <2>5, <2>7, <3>2, MovedRests DEF Rests
  <2>8. CASE /\ run' = pending \/ \E code \in FailureCodes : run' = Fail(pending, code)
             /\ IF run'.status = "DECK_REVIEW" THEN Goes("scope") ELSE Idle
    <3>1. pending \in RunRow /\ RunFits(pending) /\ pending.status # "RECOVERING"
      BY <1>1, <2>4 DEF SameRound
    <3>2. SameRound(pending, run')
      BY <2>8, <3>1, FailFalls, FallenSameRound DEF SameRound
    <3>3. SameRound(run, run')
      BY <2>4, <3>2 DEF SameRound
    <3>4. CASE Idle
      BY <2>3, <2>7, <3>3, <3>4, MovedRests DEF Rests
    <3>5. CASE run'.status = "DECK_REVIEW" /\ Goes("scope")
      BY <2>3, <2>7, <3>3, <3>5, GoesToScope DEF SameRound, RunFits
    <3>. QED BY <2>8, <3>4, <3>5
  <2>. QED BY <2>1, <2>5, <2>8
<1>. QED BY <1>2, <1>3

LEMMA DeckFailsStep == ASSUME IInv, DeckFails PROVE IInv'
<1>1. run.status # "RECOVERING" /\ worker.round \in Rounds
  BY DEF DeckFails, IInv, RowsTyped, WorkerRow, WorkerFits, At
<1>2. PICK kind : FailDeck(worker.round, kind, TRUE) /\ Idle /\ issues' = issues
  BY DEF DeckFails
<1>. QED BY <1>1, <1>2, FailDeckFalls, FallKeeps DEF Rests, IInv, RowsTyped

-----------------------------------------------------------------------------
(* What to revise, and its plan. *)

LEMMA WorkingIsNotRecovering == ASSUME IInv, ~At("idle") PROVE run.status # "RECOVERING"
  BY DEF IInv, WorkerFits

LEMMA ReviewHadPassedStep == ASSUME IInv, ReviewHadPassed PROVE IInv'
  BY ThrowKeeps, WorkingIsNotRecovering DEF ReviewHadPassed, At

LEMMA AcceptOrFailMoves ==
  ASSUME IInv, run.status # "RECOVERING", NEW code \in FailureCodes, AcceptOrFail(code)
  PROVE  SameRound(run, run') /\ issues' \subseteq Issues
<1>1. run \in RunRow /\ RunFits(run) /\ issues \subseteq Issues
  BY DEF IInv, RowsTyped
<1>2. SameRound(run, Fail(run, code))
  BY <1>1, FailFalls, FallenSameRound
<1>. QED BY <1>1, <1>2, SystemAcceptedFits DEF AcceptOrFail

LEMMA NothingToReviseStep == ASSUME IInv, NothingToRevise PROVE IInv'
<1>1. run.status # "RECOVERING"
  BY WorkingIsNotRecovering DEF NothingToRevise, At
<1>2. CASE MoveOrThrow("NEEDS_HUMAN")
  BY <1>1, <1>2, MoveKeeps
<1>3. CASE (\E code \in FailureCodes : AcceptOrFail(code)) /\ Idle /\ steps' = steps
  BY <1>1, <1>3, AcceptOrFailMoves, MovedRests, StepsKeepPlans DEF Rests
<1>. QED BY <1>2, <1>3 DEF NothingToRevise, FailureCodes

LEMMA ScopeInputFailsStep == ASSUME IInv, ScopeInputFails PROVE IInv'
<1>1. run.status # "RECOVERING" /\ run \in RunRow /\ RunFits(run)
  BY WorkingIsNotRecovering DEF ScopeInputFails, Revisable, At, IInv, RowsTyped
<1>2. CASE MoveOrThrow("NEEDS_HUMAN")
  BY <1>1, <1>2, MoveKeeps
<1>3. CASE Recoverable(run) /\ (\E d \in Dispositions : run' = BeginRecovery(run, d)) /\ Idle
           /\ UNCHANGED <<steps, issues>>
  <2>1. Falls(run, run')
    BY <1>1, <1>3, RecoveryFalls DEF Recoverable
  <2>. QED BY <1>3, <2>1, FallKeeps, StepsKeepPlans DEF Rests, IInv, RowsTyped
<1>. QED BY <1>2, <1>3 DEF ScopeInputFails

\* A plan that is written where none was complete before.
LEMMA PlanWritten ==
  ASSUME NEW s \in StepRows, NEW q \in 1..MaxRounds, NEW plan \in Plans,
         s.plan[q].st # "COMPLETED"
  PROVE  /\ SetPlan(s, q, plan) \in StepRows /\ SetPlan(s, q, plan).image = s.image
         /\ \A p \in 1..MaxRounds :
              s.plan[p].st = "COMPLETED" => SetPlan(s, q, plan).plan[p] = s.plan[p]
<1>1. /\ SetPlan(s, q, plan) \in StepRows /\ SetPlan(s, q, plan).image = s.image
      /\ SetPlan(s, q, plan).plan = [s.plan EXCEPT ![q] = plan]
  BY WritePlan
<1>2. s.plan \in [1..MaxRounds -> Plans]
  BY DEF StepRows
<1>. QED BY <1>1, <1>2

\* The plans of the rounds that were reached stay complete.
LEMMA EveryRoundStaysPlanned ==
  ASSUME IInv, run'.round = run.round,
         \A p \in 1..MaxRounds : steps.plan[p].st = "COMPLETED" => steps'.plan[p] = steps.plan[p]
  PROVE  EveryRoundIsPlanned'
<1>1. run.round <= MaxRounds /\ run.round \in Nat
  BY LifecycleAssumption DEF IInv, RowsTyped, RunRow, Rounds
<1>. QED BY <1>1, LifecycleAssumption DEF IInv, EveryRoundIsPlanned

\* The plan of the next round as the worker begins it.
Begin(plan) == [plan EXCEPT !.st = "RUNNING", !.origin = "DECK"]

LEMMA RevisionPlanBegins ==
  ASSUME BeginRevisionPlan, NEW q, q = worker.round + 1
  PROVE  \/ Throw
         \/ Idle /\ UNCHANGED <<run, steps, issues>>
         \/ /\ steps.plan[q].st \in {"NONE", "RUNNING"}
            /\ steps' = SetPlan(steps, q, Begin(steps.plan[q]))
            /\ Goes("plan") /\ UNCHANGED <<run, issues>>
            /\ steps.plan[q].st = "NONE" => run.status = "DECK_REVIEW"
<1>1. [steps EXCEPT !.plan[q].st = "RUNNING", !.plan[q].origin = "DECK"]
        = SetPlan(steps, q, Begin(steps.plan[q]))
  BY DEF SetPlan, Begin
<1>. QED BY <1>1 DEF BeginRevisionPlan

LEMMA BeginRevisionPlanStep == ASSUME IInv, BeginRevisionPlan PROVE IInv'
<1>1. /\ run \in RunRow /\ steps \in StepRows /\ RunFits(run) /\ run.status # "RECOVERING"
      /\ worker \in WorkerRow /\ worker.round \in Nat /\ worker.round < MaxRounds
      /\ run.round \in Nat /\ At("scope")
  BY WorkingIsNotRecovering, LifecycleAssumption
     DEF BeginRevisionPlan, Revisable, At, IInv, RowsTyped, WorkerRow, RunRow, Rounds
<1>. DEFINE q == worker.round + 1
            plan == Begin(steps.plan[q])
<1>2. \/ Throw
      \/ Idle /\ UNCHANGED <<run, steps, issues>>
      \/ /\ steps.plan[q].st \in {"NONE", "RUNNING"}
         /\ steps' = SetPlan(steps, q, plan)
         /\ Goes("plan") /\ UNCHANGED <<run, issues>>
         /\ steps.plan[q].st = "NONE" => run.status = "DECK_REVIEW"
  BY RevisionPlanBegins
<1>3. CASE Throw
  BY <1>1, <1>3, ThrowKeeps
<1>4. CASE Idle /\ UNCHANGED <<run, steps, issues>>
  BY <1>1, <1>4, MovedRests, StepsKeepPlans DEF Rests, SameRound, IInv, RowsTyped
<1>5. CASE /\ steps.plan[q].st \in {"NONE", "RUNNING"}
           /\ steps' = SetPlan(steps, q, plan)
           /\ Goes("plan") /\ UNCHANGED <<run, issues>>
  <2>1. q \in 1..MaxRounds
    BY <1>1, LifecycleAssumption
  <2>2. plan \in Plans
    <3>1. steps.plan[q] \in Plans
      BY <1>1, <2>1 DEF StepRows
    <3>. QED BY <3>1 DEF Plans, Begin
  <2>3. run.round = worker.round
    <3>1. ~(q <= run.round)
      BY <1>1, <1>5 DEF IInv, EveryRoundIsPlanned
    <3>. QED BY <1>1, <3>1 DEF IInv, WorkerFits
  <2>. HIDE DEF plan
  <2>4. /\ steps' \in StepRows /\ steps'.image = steps.image
        /\ \A p \in 1..MaxRounds :
             steps.plan[p].st = "COMPLETED" => steps'.plan[p] = steps.plan[p]
    BY <1>1, <1>5, <2>1, <2>2, PlanWritten
  <2>5. EveryRoundIsPlanned'
    BY <1>5, <2>4, EveryRoundStaysPlanned
  <2>6. worker' \in WorkerRow /\ worker'.at = "plan" /\ worker'.round = run.round
    BY <1>1, <1>5 DEF Goes, WorkerRow, IInv, RowsTyped, RunRow
  <2>7. WorkerFits'
    BY <1>1, <1>5, <2>3, <2>6 DEF IInv, WorkerFits, At, On
  <2>8. NothingUnfinished' = NothingUnfinished
    BY <2>4 DEF NothingUnfinished
  <2>. QED
    BY <1>5, <2>4, <2>5, <2>6, <2>7, <2>8 DEF IInv, RowsTyped, AccountsFit
<1>. QED BY <1>2, <1>3, <1>4, <1>5

LEMMA PlanReplacedStep == ASSUME IInv, PlanReplaced PROVE IInv'
  BY MovedRests, StepsKeepPlans DEF PlanReplaced, Rests, SameRound, IInv, RowsTyped

\* A worker that holds the plan of the next round is in the round of the row.
LEMMA PlannedIsNext ==
  ASSUME IInv, Planned
  PROVE  /\ run \in RunRow /\ steps \in StepRows /\ RunFits(run) /\ run.status # "RECOVERING"
         /\ worker.round \in Nat /\ run.round = worker.round
         /\ worker.round + 1 \in 1..MaxRounds /\ worker.round \in Rounds
<1>1. /\ run \in RunRow /\ steps \in StepRows /\ RunFits(run) /\ run.status # "RECOVERING"
      /\ worker.round \in Nat /\ worker.round \in Rounds /\ run.round \in Nat
      /\ worker.round < MaxRounds
  BY WorkingIsNotRecovering, LifecycleAssumption
     DEF Planned, At, IInv, RowsTyped, WorkerRow, RunRow, Rounds, WorkerFits
<1>2. worker.round + 1 \in 1..MaxRounds
  BY <1>1, LifecycleAssumption
<1>3. ~(worker.round + 1 <= run.round)
  BY <1>1, <1>2 DEF Planned, IInv, EveryRoundIsPlanned
<1>. QED BY <1>1, <1>2, <1>3 DEF IInv, WorkerFits

\* Writing two fields of a plan is writing the plan.
EditPlan(s, q, st, fixes) == [s EXCEPT !.plan[q].st = st, !.plan[q].fixes = fixes]
Edited(plan, st, fixes) == [plan EXCEPT !.st = st, !.fixes = fixes]

LEMMA PlanEdited ==
  ASSUME NEW s \in StepRows, NEW q \in 1..MaxRounds, NEW st, NEW fixes
  PROVE  EditPlan(s, q, st, fixes) = SetPlan(s, q, Edited(s.plan[q], st, fixes))
<1>1. s.plan \in [1..MaxRounds -> Plans]
  BY DEF StepRows
<1>. DEFINE p == s.plan
            first == [p EXCEPT ![q] = [p[q] EXCEPT !.st = st]]
<1>2. first[q] = [p[q] EXCEPT !.st = st]
  BY <1>1
<1>3. [first EXCEPT ![q] = [first[q] EXCEPT !.fixes = fixes]]
        = [p EXCEPT ![q] = [p[q] EXCEPT !.st = st, !.fixes = fixes]]
  BY <1>1, <1>2
<1>4. [s EXCEPT !.plan = first].plan = first
  BY DEF StepRows
<1>5. [[s EXCEPT !.plan = first]
          EXCEPT !.plan = [first EXCEPT ![q] = [first[q] EXCEPT !.fixes = fixes]]]
       = [s EXCEPT !.plan = [first EXCEPT ![q] = [first[q] EXCEPT !.fixes = fixes]]]
  BY DEF StepRows
<1>. QED BY <1>3, <1>4, <1>5 DEF SetPlan, EditPlan, Edited

LEMMA RevisionPlannedStep == ASSUME IInv, RevisionPlanned PROVE IInv'
<1>. DEFINE q == worker.round + 1
            to == IF Bounded THEN "REVISING" ELSE "AWAITING_REVISION_APPROVAL"
            fixes == DeckIssues(worker.round, Review.repair)
            plan == Edited(steps.plan[q], "COMPLETED", fixes)
            moved == [To(run, to) EXCEPT !.round = IF Bounded THEN q ELSE @]
<1>1. /\ run \in RunRow /\ steps \in StepRows /\ RunFits(run) /\ run.status # "RECOVERING"
      /\ worker.round \in Nat /\ run.round = worker.round /\ q \in 1..MaxRounds
      /\ worker.round \in Rounds
  BY PlannedIsNext DEF RevisionPlanned
<1>2. \/ Throw
      \/ run' = moved /\ steps' = SetPlan(steps, q, plan) /\ Idle /\ issues' = issues
  <2>1. \/ Throw
        \/ run' = moved /\ Idle /\ issues' = issues
    BY DEF RevisionPlanned
  <2>2. Throw \/ steps' = SetPlan(steps, q, plan)
    <3>1. Throw \/ steps' = EditPlan(steps, q, "COMPLETED", fixes)
      BY DEF RevisionPlanned, EditPlan
    <3>. HIDE DEF fixes
    <3>. QED BY <1>1, <3>1, PlanEdited
  <2>. QED BY <2>1, <2>2
<1>3. CASE Throw
  BY <1>1, <1>3, ThrowKeeps
<1>4. CASE run' = moved /\ steps' = SetPlan(steps, q, plan) /\ Idle /\ issues' = issues
  <2>1. plan \in Plans /\ plan.st = "COMPLETED"
    <3>1. steps.plan[q] \in Plans /\ Review.repair \in SUBSET Levels
      BY <1>1 DEF StepRows, Review, Reviews
    <3>2. DeckIssues(worker.round, Review.repair) \in SUBSET Issues
      BY <1>1, <3>1, DeckIssuesAreIssues DEF DeckIssuesTyped
    <3>. QED BY <3>1, <3>2 DEF Plans, Edited
  <2>2. steps.plan[q].st # "COMPLETED"
    BY DEF RevisionPlanned, Planned
  <2>. HIDE DEF plan
  <2>3. /\ steps' \in StepRows /\ steps'.image = steps.image
        /\ steps'.plan = [steps.plan EXCEPT ![q] = plan]
        /\ \A p \in 1..MaxRounds :
             steps.plan[p].st = "COMPLETED" => steps'.plan[p] = steps.plan[p]
    BY <1>1, <1>4, <2>1, <2>2, WritePlan, PlanWritten
  <2>4. CASE Bounded
    <3>1. q \in Rounds /\ q >= 1
      BY <1>1, LifecycleAssumption DEF Rounds
    <3>2. run' = [To(run, "REVISING") EXCEPT !.round = q]
      BY <1>4, <2>4
    <3>. HIDE DEF q, moved
    <3>3. run' \in RunRow /\ RunFits(run') /\ run'.round = q /\ run'.settled = run.settled
      BY <1>1, <3>1, <3>2, NextRoundFits
    <3>4. run.round + 1 = run'.round
      BY <1>1, <3>3 DEF q
    <3>. QED BY <1>4, <2>1, <2>3, <3>3, <3>4, PlannedRests DEF Rests, IInv, RowsTyped
  <2>5. CASE ~Bounded
    <3>1. SameRound(run, To(run, "AWAITING_REVISION_APPROVAL"))
      BY <1>1, ToSameRound DEF Statuses
    <3>2. run' = [To(run, "AWAITING_REVISION_APPROVAL") EXCEPT !.round = @]
      BY <1>4, <2>5
    <3>3. run' = To(run, "AWAITING_REVISION_APPROVAL")
      BY <3>1, <3>2 DEF SameRound, RunRow
    <3>4. SameRound(run, run')
      BY <3>1, <3>3
    <3>5. EveryRoundIsPlanned'
      BY <2>3, <3>4, EveryRoundStaysPlanned DEF SameRound
    <3>6. run.round <= run'.round /\ \A p \in 1..run'.round : steps'.plan[p].st = "COMPLETED"
      BY <1>1, <3>4, <3>5 DEF SameRound, EveryRoundIsPlanned
    <3>7. run'.settled => NothingUnfinished'
      BY <2>3, <3>4 DEF SameRound, NothingUnfinished, IInv, AccountsFit
    <3>. QED BY <1>4, <2>3, <3>4, <3>6, <3>7, RestKeeps DEF SameRound, Rests, IInv, RowsTyped
  <2>. QED BY <2>4, <2>5
<1>. QED BY <1>2, <1>3, <1>4

LEMMA RevisionPlanFailsStep == ASSUME IInv, RevisionPlanFails PROVE IInv'
<1>. DEFINE q == worker.round + 1
            plan == [steps.plan[q] EXCEPT !.st = "FAILED"]
<1>1. /\ run \in RunRow /\ steps \in StepRows /\ RunFits(run) /\ run.status # "RECOVERING"
      /\ worker.round \in Nat /\ q \in 1..MaxRounds /\ issues \subseteq Issues
  BY PlannedIsNext DEF RevisionPlanFails, IInv, RowsTyped
<1>2. "QUALITY_REMEDIATION_EXHAUSTED" \in FailureCodes
  BY DEF FailureCodes
<1>3. /\ Idle
      /\ \/ (\E d : RecoverIfPossible(d)) /\ UNCHANGED <<steps, issues>>
         \/ /\ steps' = SetPlan(steps, q, plan)
            /\ \/ AcceptOrFail("QUALITY_REMEDIATION_EXHAUSTED")
               \/ run' = Fail(run, "QUALITY_REMEDIATION_EXHAUSTED") /\ issues' = issues
  BY DEF RevisionPlanFails, SetPlan
<1>4. CASE (\E d : RecoverIfPossible(d)) /\ UNCHANGED <<steps, issues>>
  BY <1>1, <1>3, <1>4, RecoversOrStays, FallKeeps, StepsKeepPlans DEF Rests
<1>5. CASE /\ steps' = SetPlan(steps, q, plan)
           /\ \/ AcceptOrFail("QUALITY_REMEDIATION_EXHAUSTED")
              \/ run' = Fail(run, "QUALITY_REMEDIATION_EXHAUSTED") /\ issues' = issues
  <2>1. SameRound(run, run') /\ issues' \subseteq Issues
    BY <1>1, <1>2, <1>5, AcceptOrFailMoves, FailFalls, FallenSameRound
  <2>2. plan \in Plans
    <3>1. steps.plan[q] \in Plans
      BY <1>1 DEF StepRows
    <3>. QED BY <3>1 DEF Plans
  <2>3. steps.plan[q].st # "COMPLETED"
    BY DEF RevisionPlanFails, Planned
  <2>. HIDE DEF plan, q
  <2>4. /\ steps' \in StepRows /\ steps'.image = steps.image
        /\ \A p \in 1..MaxRounds :
             steps.plan[p].st = "COMPLETED" => steps'.plan[p] = steps.plan[p]
    BY <1>1, <1>5, <2>2, <2>3, PlanWritten
  <2>5. EveryRoundIsPlanned'
    BY <2>1, <2>4, EveryRoundStaysPlanned DEF SameRound
  <2>6. run.round \in Nat
    BY <1>1, LifecycleAssumption DEF RunRow, Rounds
  <2>7. run.round <= run'.round /\ \A p \in 1..run'.round : steps'.plan[p].st = "COMPLETED"
    BY <2>1, <2>5, <2>6 DEF SameRound, EveryRoundIsPlanned
  <2>8. run'.settled => NothingUnfinished'
    BY <2>1, <2>4 DEF SameRound, NothingUnfinished, IInv, AccountsFit
  <2>. QED BY <1>3, <2>1, <2>4, <2>7, <2>8, RestKeeps DEF SameRound, Rests
<1>. QED BY <1>3, <1>4, <1>5

-----------------------------------------------------------------------------
(* The application of the plan. *)

LEMMA ApplicationInputFailsStep == ASSUME IInv, ApplicationInputFails PROVE IInv'
<1>1. /\ run \in RunRow /\ steps \in StepRows /\ RunFits(run) /\ run.status = "REVISING"
      /\ run.round \in 1..MaxRounds
  BY LifecycleAssumption
     DEF ApplicationInputFails, Tick, IInv, RowsTyped, RunRow, RunFits, Rounds
<1>2. CASE Throw
  BY <1>1, <1>2, ThrowKeeps
<1>3. CASE ~Throw
  <2>1. /\ \/ run' = BeginRecovery(run, "NON_RETRYABLE")
           \/ run' = Fail(run, "QUALITY_REMEDIATION_EXHAUSTED")
        /\ \E st \in {"RUNNING", "FAILED"} : steps' = SetApply(steps, run.round, st)
        /\ issues' = issues /\ Rests
    BY <1>3 DEF ApplicationInputFails, Tick, SetApply, Rests
  <2>2. Falls(run, run')
    BY <1>1, <2>1, RecoveryFalls, FailFalls DEF RecoverableStates, FailureCodes
  <2>3. KeepsPlans(steps, steps')
    BY <1>1, <2>1, WriteApply DEF StepStates
  <2>. QED BY <2>1, <2>2, <2>3, FallKeeps DEF IInv, RowsTyped
<1>. QED BY <1>2, <1>3

LEMMA BeginApplicationStep == ASSUME IInv, BeginApplication PROVE IInv'
<1>1. /\ run \in RunRow /\ steps \in StepRows /\ RunFits(run) /\ run.status = "REVISING"
      /\ run.round \in 1..MaxRounds /\ run.round \in Rounds /\ run.resume = "NONE"
  BY LifecycleAssumption
     DEF BeginApplication, Tick, IInv, RowsTyped, RunRow, RunFits, Rounds
<1>2. KeepsPlans(steps, steps') /\ UNCHANGED <<run, issues>>
  BY <1>1, WriteApply DEF BeginApplication, SetApply, StepStates
<1>3. worker' \in WorkerRow /\ worker'.at = "apply" /\ worker'.round = run.round
  BY <1>1 DEF BeginApplication, Goes, WorkerRow
<1>4. WorkerFits'
  BY <1>1, <1>2, <1>3 DEF WorkerFits, At, On
<1>. QED BY <1>2, <1>3, <1>4, GoesOn DEF IInv, RowsTyped

LEMMA ApplyingFits ==
  ASSUME IInv, At("apply")
  PROVE  /\ run \in RunRow /\ steps \in StepRows /\ RunFits(run) /\ run.status # "RECOVERING"
         /\ worker.round \in 1..MaxRounds
  BY WorkingIsNotRecovering, LifecycleAssumption
     DEF IInv, RowsTyped, WorkerRow, WorkerFits, Rounds, At

LEMMA ApplicationCompletesStep == ASSUME IInv, ApplicationCompletes PROVE IInv'
<1>1. steps \in StepRows /\ worker.round \in 1..MaxRounds
  BY ApplyingFits DEF ApplicationCompletes
<1>2. KeepsPlans(steps, steps')
  BY <1>1, WriteApply DEF ApplicationCompletes, SetApply, StepStates
<1>. QED
  BY <1>2, MovedRests DEF ApplicationCompletes, Rests, SameRound, IInv, RowsTyped

LEMMA ApplicationFailsStep == ASSUME IInv, ApplicationFails PROVE IInv'
<1>1. /\ run \in RunRow /\ steps \in StepRows /\ RunFits(run) /\ run.status # "RECOVERING"
      /\ worker.round \in 1..MaxRounds
  BY ApplyingFits DEF ApplicationFails
<1>2. CASE Throw
  BY <1>1, <1>2, ThrowKeeps
<1>3. CASE ~Throw
  <2>1. /\ \/ \E d : RecoverIfPossible(d)
           \/ run' = Fail(run, "QUALITY_REMEDIATION_EXHAUSTED")
           \/ run' = To(run, "NEEDS_HUMAN")
        /\ steps' = steps \/ steps' = SetApply(steps, worker.round, "FAILED")
        /\ Idle /\ issues' = issues
    BY <1>3 DEF ApplicationFails, SetApply
  <2>2. KeepsPlans(steps, steps')
    BY <1>1, <2>1, WriteApply, StepsKeepPlans DEF StepStates
  <2>3. SameRound(run, run')
    BY <1>1, <2>1, RecoversOrStays, FailFalls, FallenSameRound, ToSameRound
       DEF FailureCodes, Statuses
  <2>. QED BY <2>1, <2>2, <2>3, MovedRests DEF Rests, IInv, RowsTyped
<1>. QED BY <1>2, <1>3

-----------------------------------------------------------------------------
(* The delivery, and the end of a recovery. *)

LEMMA BeginDeliveryStep == ASSUME IInv, BeginDelivery PROVE IInv'
<1>1. /\ run \in RunRow /\ steps \in StepRows /\ RunFits(run) /\ run.status = "DELIVERING"
      /\ run.round \in Nat /\ run.round \in Rounds
  BY LifecycleAssumption
     DEF BeginDelivery, Tick, IInv, RowsTyped, RunRow, Rounds
<1>2. KeepsPlans(steps, steps') /\ UNCHANGED <<run, issues>>
  BY <1>1, WriteDelivery DEF BeginDelivery, SetDelivery, StepStates
<1>3. worker' \in WorkerRow /\ worker'.at = "delivery" /\ worker'.round = run.round
  BY <1>1 DEF BeginDelivery, Goes, WorkerRow
<1>4. WorkerFits'
  BY <1>1, <1>2, <1>3 DEF WorkerFits, At, On
<1>. QED BY <1>2, <1>3, <1>4, GoesOn DEF IInv, RowsTyped

\* The finalization takes no part in how a row fits.
LEMMA QueuedFits ==
  ASSUME NEW r \in RunRow, NEW s, SameRound(r, s), NEW f \in {"NONE", "QUEUED", "DONE"}
  PROVE  /\ SameRound(r, [s EXCEPT !.finalization = f])
         /\ [s EXCEPT !.finalization = f].status = s.status
         /\ [s EXCEPT !.finalization = f].resume = s.resume
         /\ [s EXCEPT !.finalization = f].attempt = s.attempt
<1>1. s \in RunRow /\ RunFits(s) /\ s.round = r.round /\ s.settled = r.settled
  BY DEF SameRound
<1>. DEFINE t == [s EXCEPT !.finalization = f]
<1>2. t \in RunRow
  BY <1>1 DEF RunRow
<1>3. /\ t.status = s.status /\ t.resume = s.resume /\ t.recovery = s.recovery
      /\ t.round = s.round /\ t.settled = s.settled /\ t.pending = s.pending
      /\ t.attempt = s.attempt
  BY <1>1 DEF RunRow
<1>. HIDE DEF t
<1>4. RunFits(t)
  BY <1>1, <1>3 DEF RunFits
<1>5. SameRound(r, t)
  BY <1>1, <1>2, <1>3, <1>4 DEF SameRound
<1>. QED BY <1>3, <1>5 DEF t

LEMMA QueueTyped ==
  ASSUME NEW r \in RunRow
  PROVE  Queue(r.finalization) \in {"NONE", "QUEUED", "DONE"}
  BY DEF Queue, RunRow

\* A transition, with what the row keeps and where it is then.
LEMMA Moves ==
  ASSUME IInv, NEW to \in Statuses \ {"RECOVERING", "FAILED", "PAUSED"},
         to = "REVISING" => run.round >= 1
  PROVE  LET s == To(run, to)
         IN /\ SameRound(run, s) /\ s.status = to /\ s.resume = "NONE"
            /\ s.attempt = run.attempt /\ s.finalization = run.finalization
<1>1. run \in RunRow /\ RunFits(run)
  BY DEF IInv, RowsTyped
<1>2. To(run, to) = [run EXCEPT !.status = to, !.resume = "NONE"]
  BY <1>1, ToFits
<1>3. SameRound(run, To(run, to))
  BY <1>1, ToSameRound
<1>. QED BY <1>1, <1>2, <1>3 DEF RunRow

\* A transition that queues the finalization of the accounting too.
LEMMA EndsQueued ==
  ASSUME IInv, NEW to \in {"COMPLETED", "CANCELLED"}
  PROVE  LET s == [To(run, to) EXCEPT !.finalization = Queue(@)]
         IN SameRound(run, s) /\ s.status = to /\ s.resume = "NONE" /\ s.attempt = run.attempt
<1>. DEFINE s == To(run, to)
<1>1. /\ SameRound(run, s) /\ s.status = to /\ s.resume = "NONE"
      /\ s.attempt = run.attempt /\ s.finalization = run.finalization
  <2>1. to \in Statuses \ {"RECOVERING", "FAILED", "PAUSED"} /\ to # "REVISING"
    BY DEF Statuses
  <2>. QED BY <2>1, Moves
<1>2. run \in RunRow
  BY DEF IInv, RowsTyped
<1>. HIDE DEF s
<1>3. Queue(s.finalization) \in {"NONE", "QUEUED", "DONE"}
  BY <1>1, <1>2, QueueTyped
<1>. DEFINE f == Queue(s.finalization)
            t == [s EXCEPT !.finalization = f]
<1>. HIDE DEF f
<1>4. SameRound(run, t) /\ t.status = to /\ t.resume = "NONE" /\ t.attempt = run.attempt
  BY <1>1, <1>2, <1>3, QueuedFits DEF f
<1>. QED BY <1>4 DEF s, f

LEMMA DeliveryCompletesStep == ASSUME IInv, DeliveryCompletes PROVE IInv'
<1>1. /\ run \in RunRow /\ steps \in StepRows /\ run.status # "RECOVERING"
      /\ worker.round \in Rounds
  BY WorkingIsNotRecovering DEF DeliveryCompletes, At, IInv, RowsTyped, WorkerRow
<1>2. CASE Throw
  BY <1>1, <1>2, ThrowKeeps
<1>3. CASE ~Throw
  <2>1. /\ run' = [To(run, "COMPLETED") EXCEPT !.finalization = Queue(@)]
        /\ steps' = SetDelivery(steps, worker.round, "COMPLETED") /\ Idle /\ issues' = issues
    BY <1>3 DEF DeliveryCompletes, SetDelivery
  <2>2. SameRound(run, run')
    BY <2>1, EndsQueued
  <2>3. KeepsPlans(steps, steps')
    BY <1>1, <2>1, WriteDelivery DEF StepStates
  <2>. QED BY <2>1, <2>2, <2>3, MovedRests DEF Rests, IInv, RowsTyped
<1>. QED BY <1>2, <1>3

LEMMA DeliveryFailsStep == ASSUME IInv, DeliveryFails PROVE IInv'
<1>1. steps \in StepRows /\ worker.round \in Rounds
  BY DEF IInv, RowsTyped, WorkerRow
<1>2. KeepsPlans(steps, steps')
  BY <1>1, WriteDelivery DEF DeliveryFails, SetDelivery, StepStates
<1>3. Falls(run, run')
  BY RecoversOrStays DEF DeliveryFails
<1>. QED BY <1>2, <1>3, FallKeeps DEF DeliveryFails, Rests, IInv, RowsTyped

\* The terminal failure of a Run that is settled.
LEMMA CompleteFailureFits ==
  ASSUME NEW r \in RunRow, RunFits(r), r.settled, NEW code \in FailureCodes
  PROVE  SameRound(r, CompleteFailure(r, code))
<1>. DEFINE recovery == [r.recovery EXCEPT !.active = @ /\ ~r.recovery.accounting]
            s == [r EXCEPT !.status = "FAILED", !.resume = "NONE", !.pending = "NONE",
                           !.failed = code, !.disposition = "HARD_FAILURE",
                           !.finalization = Queue(r.finalization), !.recovery = recovery]
<1>1. recovery \in Recoveries /\ recovery.phase = r.recovery.phase
  BY DEF RunRow, Recoveries
<1>2. Queue(r.finalization) \in {"NONE", "QUEUED", "DONE"}
  BY QueueTyped
<1>3. CompleteFailure(r, code) = s
  BY ToMoves DEF CompleteFailure, To, Statuses, RunRow, Recoveries
<1>. HIDE DEF recovery
<1>4. s \in RunRow
  BY <1>1, <1>2 DEF RunRow, Statuses
<1>5. /\ s.status = "FAILED" /\ s.resume = "NONE" /\ s.pending = "NONE"
      /\ s.recovery = recovery /\ s.round = r.round /\ s.settled = r.settled
  BY DEF RunRow
<1>. HIDE DEF s
<1>6. RunFits(s)
  BY <1>1, <1>5 DEF RunFits
<1>. QED BY <1>3, <1>4, <1>5, <1>6 DEF SameRound

LEMMA FinishFailureStep == ASSUME IInv, FinishFailure PROVE IInv'
<1>1. /\ run \in RunRow /\ RunFits(run) /\ run.settled /\ run.pending \in FailureCodes
      /\ run' = CompleteFailure(run, run.pending) /\ Rests /\ UNCHANGED <<steps, issues>>
  BY DEF FinishFailure, Reconcile, Tick, Rests, IInv, RowsTyped, RunRow
<1>2. SameRound(run, run')
  BY <1>1, CompleteFailureFits
<1>. QED BY <1>1, <1>2, MovedRests, StepsKeepPlans DEF IInv, RowsTyped

LEMMA ResumePhaseStep == ASSUME IInv, ResumePhase PROVE IInv'
<1>1. /\ run \in RunRow /\ RunFits(run) /\ run.status = "RECOVERING" /\ run.pending = "NONE"
      /\ run.recovery.phase \in RecoverableStates /\ Rests /\ UNCHANGED <<steps, issues>>
  BY DEF ResumePhase, Tick, Rests, IInv, RowsTyped, RunRow, RunFits, Recoveries
<1>. DEFINE s == To(run, run.recovery.phase)
            recovery == [run.recovery EXCEPT !.active = FALSE]
            t == [s EXCEPT !.recovery = recovery]
<1>2. SameRound(run, s) /\ s.status = run.recovery.phase /\ s.resume = "NONE"
  BY <1>1, Moves DEF RecoverableStates, Statuses, RunFits
<1>3. s.recovery = run.recovery
  BY <1>1 DEF To, RunRow
<1>4. recovery \in Recoveries /\ recovery.phase = run.recovery.phase
  BY <1>1 DEF RunRow, Recoveries
<1>5. run' = t
  BY <1>1, <1>3 DEF ResumePhase, ResumeRecovery
<1>. HIDE DEF s, recovery
<1>6. t \in RunRow
  BY <1>2, <1>4 DEF SameRound, RunRow
<1>7. /\ t.status = s.status /\ t.resume = s.resume /\ t.recovery = recovery
      /\ t.round = s.round /\ t.settled = s.settled
  BY <1>2 DEF SameRound, RunRow
<1>. HIDE DEF t
<1>8. RunFits(t)
  BY <1>1, <1>2, <1>4, <1>7 DEF SameRound, RunFits, RecoverableStates
<1>9. SameRound(run, run')
  BY <1>2, <1>5, <1>6, <1>7, <1>8 DEF SameRound
<1>. QED BY <1>1, <1>9, MovedRests, StepsKeepPlans DEF IInv, RowsTyped

LEMMA FinalizeStep == ASSUME IInv, Finalize PROVE IInv'
<1>1. run \in RunRow /\ SameRound(run, run)
  BY DEF SameRound, IInv, RowsTyped
<1>2. SameRound(run, run')
  BY <1>1, QueuedFits DEF Finalize
<1>. QED BY <1>2, MovedRests, StepsKeepPlans DEF Finalize, Rests, IInv, RowsTyped

-----------------------------------------------------------------------------
(* The users, whatever the worker is in the middle of. *)

\* A user moves the Run, and the worker does not see it yet.
LEMMA UserKeeps ==
  ASSUME IInv, worker' = worker, SameRound(run, run'), run'.attempt = run.attempt,
         KeepsPlans(steps, steps'), steps' = steps, issues' \subseteq Issues,
         run'.status \notin {"RECOVERING", "FAILED", "COMPLETED"},
         On(run', "EXECUTING") => On(run, "EXECUTING") \/ ~At("planning"),
         On(run', "DECK_REVIEW") => On(run, "DECK_REVIEW") \/ At("idle"),
         On(run', "REVISING") => On(run, "REVISING")
  PROVE  IInv'
<1>1. WorkerFits'
  BY DEF IInv, WorkerFits, At, SameRound
<1>2. NothingUnfinished' = NothingUnfinished
  BY DEF NothingUnfinished
<1>. QED
  BY <1>1, <1>2
     DEF IInv, RowsTyped, EveryRoundIsPlanned, AccountsFit, SameRound, KeepsPlans

\* A transition of a user to a phase nobody works in.
LEMMA UserMoves ==
  ASSUME IInv, worker' = worker, UNCHANGED steps, issues' \subseteq Issues,
         NEW to \in {"PLANNING", "NEEDS_HUMAN", "DELIVERING"}, SameRound(run, run'),
         run'.status = to, run'.resume = "NONE", run'.attempt = run.attempt
  PROVE  IInv'
  BY UserKeeps, StepsKeepPlans DEF On

LEMMA RetryPlanningStep == ASSUME IInv, RetryPlanning PROVE IInv'
  BY Moves, UserMoves DEF RetryPlanning, Statuses, IInv, RowsTyped

LEMMA RequestBlueprintRevisionStep == ASSUME IInv, RequestBlueprintRevision PROVE IInv'
  BY Moves, UserMoves DEF RequestBlueprintRevision, Statuses, IInv, RowsTyped

LEMMA RejectRevisionStep == ASSUME IInv, RejectRevision PROVE IInv'
  BY Moves, UserMoves DEF RejectRevision, Statuses, IInv, RowsTyped

LEMMA RetryDeliveryStep == ASSUME IInv, RetryDelivery PROVE IInv'
  BY Moves, UserMoves DEF RetryDelivery, Statuses, IInv, RowsTyped

LEMMA AcceptWithOverrideStep == ASSUME IInv, AcceptWithOverride PROVE IInv'
<1>. DEFINE s == To(run, "DELIVERING")
            t == [s EXCEPT !.disposition = "ADMIN_OVERRIDE", !.accepted = TRUE]
<1>1. SameRound(run, s) /\ s.status = "DELIVERING" /\ s.resume = "NONE" /\ s.attempt = run.attempt
  BY Moves DEF Statuses
<1>2. run' = t
  BY DEF AcceptWithOverride
<1>. HIDE DEF s
<1>3. SameRound(run, t)
  BY <1>1, AcceptedFits DEF Dispositioned, IInv, RowsTyped
<1>4. t.status = "DELIVERING" /\ t.resume = "NONE" /\ t.attempt = run.attempt
  BY <1>1 DEF SameRound, RunRow
<1>. HIDE DEF t
<1>5. worker' = worker /\ UNCHANGED steps /\ issues' \subseteq Issues
  BY DEF AcceptWithOverride
<1>. QED BY <1>2, <1>3, <1>4, <1>5, UserMoves

LEMMA ReplanStep == ASSUME IInv, Replan PROVE IInv'
<1>. DEFINE s == To(run, "PLANNING")
            t == [s EXCEPT !.attempt = run.attempt + 1]
<1>1. /\ SameRound(run, s) /\ s.status = "PLANNING" /\ s.resume = "NONE"
      /\ s.attempt = run.attempt /\ run \in RunRow
  BY Moves DEF Statuses, IInv, RowsTyped
<1>2. run' = t
  BY <1>1 DEF Replan
<1>3. run.attempt + 1 \in Attempts
  BY <1>1, LifecycleAssumption DEF Replan, RunRow, Attempts
<1>. HIDE DEF s
<1>4. t \in RunRow
  BY <1>1, <1>3 DEF SameRound, RunRow
<1>5. /\ t.status = s.status /\ t.resume = s.resume /\ t.recovery = s.recovery
      /\ t.round = s.round /\ t.settled = s.settled /\ t.pending = s.pending
  BY <1>1 DEF SameRound, RunRow
<1>. HIDE DEF t
<1>6. SameRound(run, t)
  BY <1>1, <1>4, <1>5 DEF SameRound, RunFits
<1>7. ~At("planning") /\ worker' = worker /\ steps' = steps /\ issues' = issues
  BY DEF Replan, IInv, WorkerFits
<1>8. WorkerFits'
  BY <1>1, <1>2, <1>5, <1>6, <1>7 DEF IInv, WorkerFits, At, On, SameRound
<1>9. NothingUnfinished' = NothingUnfinished
  BY <1>7 DEF NothingUnfinished
<1>. QED
  BY <1>2, <1>6, <1>7, <1>8, <1>9
     DEF IInv, RowsTyped, EveryRoundIsPlanned, AccountsFit, SameRound

LEMMA ApproveBlueprintStep == ASSUME IInv, ApproveBlueprint PROVE IInv'
<1>1. /\ SameRound(run, run') /\ run'.status = "EXECUTING" /\ run'.resume = "NONE"
      /\ run'.attempt = run.attempt
  BY Moves DEF ApproveBlueprint, Statuses
<1>2. ~At("planning")
  BY DEF ApproveBlueprint, IInv, WorkerFits
<1>. QED
  BY <1>1, <1>2, UserKeeps, StepsKeepPlans DEF ApproveBlueprint, On, IInv, RowsTyped

LEMMA PauseStep == ASSUME IInv, Pause PROVE IInv'
<1>1. run \in RunRow /\ RunFits(run) /\ run.status \in PausableStates
  BY DEF Pause, IInv, RowsTyped
<1>2. run' \in RunRow /\ RunFits(run')
      /\ run' = [run EXCEPT !.status = "PAUSED", !.resume = run.status]
  BY <1>1, PauseFits DEF Pause
<1>3. /\ SameRound(run, run') /\ run'.status = "PAUSED" /\ run'.resume = run.status
      /\ run'.attempt = run.attempt
  BY <1>1, <1>2 DEF SameRound, RunRow
<1>4. /\ On(run', "EXECUTING") => On(run, "EXECUTING")
      /\ On(run', "DECK_REVIEW") => On(run, "DECK_REVIEW")
      /\ On(run', "REVISING") => On(run, "REVISING")
      /\ run'.status \notin {"RECOVERING", "FAILED", "COMPLETED"}
  BY <1>3 DEF On
<1>5. worker' = worker /\ steps' = steps /\ issues' \subseteq Issues
  BY DEF Pause, IInv, RowsTyped
<1>6. KeepsPlans(steps, steps')
  BY <1>5, StepsKeepPlans
<1>7. SameRound(run, run') /\ run'.attempt = run.attempt
  BY <1>3
<1>. QED BY ONLY IInv, <1>4, <1>5, <1>6, <1>7, UserKeeps

LEMMA ResumeStep == ASSUME IInv, Resume PROVE IInv'
<1>1. /\ run \in RunRow /\ RunFits(run) /\ run.status = "PAUSED" /\ run.resume \in PausableStates
  BY DEF Resume, IInv, RowsTyped, RunFits, RunRow
<1>2. /\ SameRound(run, run') /\ run'.status = run.resume /\ run'.resume = "NONE"
      /\ run'.attempt = run.attempt
  BY <1>1, Moves DEF Resume, PausableStates, Statuses, RunFits
<1>3. /\ On(run', "EXECUTING") => On(run, "EXECUTING")
      /\ On(run', "DECK_REVIEW") => On(run, "DECK_REVIEW")
      /\ On(run', "REVISING") => On(run, "REVISING")
  BY <1>2 DEF On
<1>4. worker' = worker /\ steps' = steps /\ issues' \subseteq Issues
  BY DEF Resume, IInv, RowsTyped
<1>5. run'.status \notin {"RECOVERING", "FAILED", "COMPLETED"}
  BY <1>1, <1>2 DEF PausableStates
<1>6. KeepsPlans(steps, steps')
  BY <1>4, StepsKeepPlans
<1>7. SameRound(run, run') /\ run'.attempt = run.attempt
  BY <1>2
<1>. QED BY ONLY IInv, <1>3, <1>4, <1>5, <1>6, <1>7, UserKeeps

LEMMA CancelStep == ASSUME IInv, Cancel PROVE IInv'
<1>1. /\ SameRound(run, run') /\ run'.status = "CANCELLED" /\ run'.resume = "NONE"
      /\ run'.attempt = run.attempt
  BY EndsQueued DEF Cancel
<1>. QED BY <1>1, UserKeeps, StepsKeepPlans DEF Cancel, On, IInv, RowsTyped

\* A user moves the Run into the next round, whose plan is complete.
LEMMA UserRevises ==
  ASSUME IInv, run.status # "RECOVERING" \/ At("idle"), worker' = worker, issues' = issues,
         run.round + 1 \in 1..MaxRounds,
         run' = [To(run, "REVISING") EXCEPT !.round = run.round + 1],
         steps' \in StepRows, steps'.image = steps.image, steps'.planning = steps.planning,
         \A q \in 1..run.round + 1 : steps'.plan[q].st = "COMPLETED"
  PROVE  IInv'
<1>1. run \in RunRow /\ RunFits(run) /\ run.round \in Nat /\ worker.round \in Nat
  BY LifecycleAssumption DEF IInv, RowsTyped, RunRow, WorkerRow, Rounds
<1>2. run.round + 1 \in Rounds /\ run.round + 1 >= 1
  BY <1>1, LifecycleAssumption DEF Rounds
<1>3. /\ run' \in RunRow /\ RunFits(run') /\ run'.round = run.round + 1
      /\ run'.settled = run.settled
  BY <1>1, <1>2, NextRoundFits
<1>4. run'.status = "REVISING" /\ run'.resume = "NONE" /\ run'.attempt = run.attempt
  BY <1>1 DEF To, RunRow
<1>5. WorkerFits'
  BY <1>1, <1>3, <1>4 DEF IInv, WorkerFits, At, On
<1>6. NothingUnfinished' = NothingUnfinished
  BY DEF NothingUnfinished
<1>. QED
  BY <1>3, <1>5, <1>6 DEF IInv, RowsTyped, EveryRoundIsPlanned, AccountsFit

LEMMA ApproveRevisionStep == ASSUME IInv, ApproveRevision PROVE IInv'
<1>1. /\ run.round + 1 \in 1..MaxRounds /\ run.round \in Nat /\ steps' = steps
      /\ steps \in StepRows /\ steps.plan[run.round + 1].st = "COMPLETED"
  BY LifecycleAssumption DEF ApproveRevision, IInv, RowsTyped, RunRow, Rounds
<1>2. \A q \in 1..run.round + 1 : steps'.plan[q].st = "COMPLETED"
  <2>1. TAKE q \in 1..run.round + 1
  <2>2. q = run.round + 1 \/ q \in 1..run.round
    BY <1>1
  <2>. QED BY <1>1, <2>2 DEF IInv, EveryRoundIsPlanned
<1>. QED BY <1>1, <1>2, UserRevises DEF ApproveRevision, IInv, WorkerFits

LEMMA SubmitLimitedRevisionStep == ASSUME IInv, SubmitLimitedRevision PROVE IInv'
<1>. DEFINE q == run.round + 1
            failed == {ImageIssue(r) : r \in {r \in Rounds : steps.image[r] = "FAILED"}}
            plan == [st |-> "COMPLETED", origin |-> "MANUAL", fixes |-> issues \cap failed]
<1>1. /\ run.round \in Nat /\ q \in 1..MaxRounds /\ steps \in StepRows /\ issues \subseteq Issues
      /\ steps' = SetPlan(steps, q, plan)
  BY LifecycleAssumption
     DEF SubmitLimitedRevision, SetPlan, IInv, RowsTyped, RunRow, Rounds
<1>. HIDE DEF failed
<1>2. plan \in Plans /\ plan.st = "COMPLETED"
  BY <1>1 DEF Plans
<1>. HIDE DEF plan
<1>3. /\ steps' \in StepRows /\ steps'.image = steps.image
      /\ steps'.plan = [steps.plan EXCEPT ![q] = plan]
  BY <1>1, <1>2, WritePlan
<1>4. steps'.planning = steps.planning
  BY <1>1 DEF SetPlan, StepRows
<1>5. \A p \in 1..q : steps'.plan[p].st = "COMPLETED"
  <2>1. TAKE p \in 1..q
  <2>2. (p = q \/ p \in 1..run.round) /\ p \in 1..MaxRounds
    BY <1>1, LifecycleAssumption
  <2>3. steps'.plan[p] = IF p = q THEN plan ELSE steps.plan[p]
    BY <1>1, <1>3, <2>2 DEF StepRows
  <2>. QED BY <1>2, <2>2, <2>3 DEF IInv, EveryRoundIsPlanned
<1>. QED
  BY <1>1, <1>3, <1>4, <1>5, UserRevises DEF SubmitLimitedRevision, IInv, WorkerFits

LEMMA ReopenFailureStep == ASSUME IInv, ReopenFailure PROVE IInv'
<1>1. run \in RunRow /\ RunFits(run) /\ run.status = "FAILED" /\ At("idle")
  BY DEF ReopenFailure, IInv, RowsTyped, WorkerFits
<1>2. run' = [run EXCEPT !.status = "DECK_REVIEW", !.resume = "NONE", !.failed = "NONE",
                         !.disposition = "PENDING"]
  BY DEF ReopenFailure, ReopenQualityFailure
<1>3. run' \in RunRow
  BY <1>1, <1>2 DEF RunRow, Statuses
<1>4. /\ run'.status = "DECK_REVIEW" /\ run'.resume = "NONE" /\ run'.recovery = run.recovery
      /\ run'.round = run.round /\ run'.settled = run.settled
  BY <1>1, <1>2 DEF RunRow
<1>5. SameRound(run, run')
  BY <1>1, <1>3, <1>4 DEF SameRound, RunFits
<1>. QED
  BY <1>1, <1>5, MovedRests, StepsKeepPlans DEF ReopenFailure, Rests, IInv, RowsTyped

-----------------------------------------------------------------------------
(* The invariant, and what it says. *)

LEMMA CrashStep == ASSUME IInv, Crash PROVE IInv'
  BY MovedRests, StepsKeepPlans DEF Crash, Rests, SameRound, IInv, RowsTyped

LEMMA StutterStep == ASSUME IInv, UNCHANGED vars PROVE IInv'
<1>1. NothingUnfinished' = NothingUnfinished
  BY DEF NothingUnfinished, vars
<1>. QED
  BY <1>1
     DEF vars, IInv, RowsTyped, WorkerFits, At, On, EveryRoundIsPlanned, AccountsFit

LEMMA InitFits == Init => IInv
<1>. SUFFICES ASSUME Init PROVE IInv
  OBVIOUS
<1>1. PICK level \in Automation, chain \in Compilers :
       run = [status |-> "PLANNING", resume |-> "NONE", recovery |-> NoRecovery,
              pending |-> "NONE", failed |-> "NONE", settled |-> TRUE,
              disposition |-> "PENDING", accepted |-> FALSE, finalization |-> "NONE",
              automation |-> level, chain |-> chain, round |-> 0, attempt |-> 0]
  BY DEF Init
<1>2. 0 \in Rounds /\ 0 \in Attempts /\ 0 \in 0..MaxStages
  BY LifecycleAssumption DEF Rounds, Attempts
<1>3. NoRecovery \in Recoveries /\ NoRecovery.phase = "NONE"
  BY PolicyAssumption DEF NoRecovery, Recoveries
<1>4. run \in RunRow
  BY <1>1, <1>2, <1>3 DEF RunRow, Statuses
<1>5. RunFits(run) /\ run.round = 0
  BY <1>1, <1>3 DEF RunFits
<1>6. steps \in StepRows
  <2>1. NoReview \in Reviews /\ NoPlan \in Plans
    BY DEF NoReview, Reviews, NoPlan, Plans
  <2>. QED BY <1>2, <2>1 DEF Init, StepRows
<1>7. issues = {} /\ worker = Resting /\ Resting \in WorkerRow
  BY <1>2 DEF Init, Resting, WorkerRow
<1>8. WorkerFits
  BY <1>1, <1>5, <1>7 DEF WorkerFits, Resting, At
<1>9. NothingUnfinished
  BY DEF Init, NothingUnfinished, Unfinished
<1>. QED
  BY <1>4, <1>5, <1>6, <1>7, <1>8, <1>9
     DEF IInv, RowsTyped, EveryRoundIsPlanned, AccountsFit

LEMMA WorkerStep == ASSUME IInv, Planning \/ Drawing PROVE IInv'
<1>1. CASE Planning
  BY <1>1, SourceOutageStep, BeginPlanningStep, StageCompletesStep, PlanningCompletesStep,
     PlanningFailsStep DEF Planning
<1>2. CASE Drawing
  BY <1>2, BeginImageStep, BudgetShortStep, SubmitImageStep, ImageNotSubmittedStep,
     ImageSubmissionFailsStep, ImageEditUnavailableStep, ImageBlockedStep, AnswerImageStep,
     SettleAccountingStep, MoveToPageReviewStep DEF Drawing
<1>. QED BY <1>1, <1>2

LEMMA ReviewStep == ASSUME IInv, Reviewing \/ Revising PROVE IInv'
<1>1. CASE Reviewing
  BY <1>1, BeginPageStep, PageReviewedStep, PageApprovedStep, PageReviewFailedStep,
     RevisePageStep, RevisionOfPageExhaustedStep, PageToPersonStep, DeckInputFailsStep,
     BeginDeckStep, ReplayDeckStep, DeckCompletesStep, DeckFailsStep DEF Reviewing
<1>2. CASE Revising
  BY <1>2, ReviewHadPassedStep, NothingToReviseStep, ScopeInputFailsStep,
     BeginRevisionPlanStep, PlanReplacedStep, RevisionPlannedStep, RevisionPlanFailsStep,
     ApplicationInputFailsStep, BeginApplicationStep, ApplicationCompletesStep,
     ApplicationFailsStep DEF Revising
<1>. QED BY <1>1, <1>2

LEMMA UserStep == ASSUME IInv, Delivering \/ Users PROVE IInv'
<1>1. CASE Delivering
  BY <1>1, BeginDeliveryStep, DeliveryCompletesStep, DeliveryFailsStep, FinishFailureStep,
     ResumePhaseStep, FinalizeStep DEF Delivering
<1>2. CASE Users
  BY <1>2, RetryPlanningStep, ReplanStep, ApproveBlueprintStep,
     RequestBlueprintRevisionStep, PauseStep, ResumeStep, CancelStep, ApproveRevisionStep,
     RejectRevisionStep, SubmitLimitedRevisionStep, AcceptWithOverrideStep,
     RetryDeliveryStep, ReopenFailureStep DEF Users
<1>. QED BY <1>1, <1>2

LEMMA NextKeeps == IInv /\ [Next]_vars => IInv'
  BY WorkerStep, ReviewStep, UserStep, CrashStep, StutterStep DEF Next

LEMMA Inductive == Spec => []IInv
  BY InitFits, NextKeeps, PTL DEF Spec

LEMMA RowsAreTyped == IInv => TypeOK
  BY DEF IInv, RowsTyped, RunRow, StepRows, WorkerRow, TypeOK

\* Every row of a Run keeps to its schema, whatever the users do and wherever
\* the worker crashes.
THEOREM TypeCorrect == Spec => []TypeOK
  BY Inductive, RowsAreTyped, PTL

LEMMA InvariantAgrees == IInv => RowsAgree
  BY DEF IInv, RunFits, AccountsFit, RowsAgree, FailedOnlySettled

\* What has failed is settled, with no image at the provider and no failure
\* pending, and every round that was reached has its plan.
THEOREM RowsKeepAgreeing == Spec => []RowsAgree
  BY Inductive, InvariantAgrees, PTL

-----------------------------------------------------------------------------
(* Where the Run is in its course. *)

\* The phase the Run is in, stopped in or suspended in.
Phase(r) == IF r.status = "PAUSED" THEN r.resume
            ELSE IF r.status = "RECOVERING" THEN r.recovery.phase ELSE r.status

\* What users leave alone.
NeverRejected == "REJECT_REVISION" \notin UserActions
NeverSentBack == {"APPROVE_BLUEPRINT", "REQUEST_BLUEPRINT_REVISION"} \cap UserActions = {}
NeverOverridden == NeverSentBack /\ "ACCEPT_WITH_OVERRIDE" \notin UserActions

\* Past the planning there is a blueprint, of this attempt and no earlier one.
Course == {"EXECUTING", "PAGE_REVIEW", "DECK_REVIEW", "AWAITING_REVISION_APPROVAL", "REVISING",
           "DELIVERING"}
Begun ==
  \/ Phase(run) \in Course \/ run.round >= 1 \/ ~(At("idle") \/ At("planning"))
  \/ ~NothingUnfinished \/ \E r \in Rounds : steps.delivery[r] # "NONE"
  \/ \E q \in 1..MaxRounds : steps.plan[q].st = "COMPLETED"
BlueprintFits ==
  /\ Begun => steps.planning[run.attempt] = "COMPLETED"
  /\ \A b \in Attempts : b < run.attempt => steps.planning[b] # "COMPLETED"

AwaitingRests == Phase(run) = "AWAITING_REVISION_APPROVAL" => At("idle")

\* A plan that nobody has approved lies ahead of the Run, and a person has it.
Offered(q) == q > run.round /\ steps.plan[q].st = "COMPLETED"
OffersFit ==
  (NeverRejected \/ NeverOverridden) =>
  \A q \in 1..MaxRounds : Offered(q) =>
     /\ q = run.round + 1 /\ At("idle")
     /\ \/ Phase(run) \in {"AWAITING_REVISION_APPROVAL", "CANCELLED"}
        \/ /\ ~NeverRejected /\ Phase(run) = "NEEDS_HUMAN"
           /\ steps.planning[run.attempt] = "COMPLETED" /\ steps.delivery[run.round] = "NONE"

\* A round whose delivery began is delivered, or a person has it.
DeliveryBegan ==
  \/ steps.delivery[run.round] # "NONE"
  \/ At("delivery") /\ worker.round = run.round
DeliveriesFit ==
  /\ \A q \in Rounds : q > run.round => steps.delivery[q] = "NONE"
  /\ NeverSentBack /\ DeliveryBegan =>
       /\ At("idle") \/ At("delivery")
       /\ \/ Phase(run) \in {"DELIVERING", "COMPLETED", "FAILED", "CANCELLED"}
          \/ ~NeverRejected /\ Phase(run) = "NEEDS_HUMAN"

\* The worker is in the phase and the round it began in, or the Run is cancelled.
WorksIn(phases) == Phase(run) \in phases \cup {"CANCELLED"}
WorkerInPlace ==
  /\ ~At("idle") => worker.round = run.round
  /\ At("planning") => WorksIn({"PLANNING"})
  /\ At("media") \/ At("apply") => WorksIn({"EXECUTING", "REVISING"})
  /\ At("page") \/ At("decide") => WorksIn({"PAGE_REVIEW"})
  /\ At("deck") \/ At("scope") \/ At("plan") => WorksIn({"DECK_REVIEW"})
  /\ At("delivery") => WorksIn({"DELIVERING"})

\* No image is with the provider while the Run is reviewed or delivered.
Quiet == {"PAGE_REVIEW", "DECK_REVIEW", "AWAITING_REVISION_APPROVAL", "DELIVERING", "COMPLETED",
          "NEEDS_HUMAN"}
Drawn ==
  /\ Phase(run) \in Quiet => NothingUnfinished
  /\ Phase(run) = "REVISING" /\ steps.apply[run.round] # "COMPLETED" => NothingUnfinished
  /\ At("media") /\ Phase(run) = "REVISING" => steps.apply[run.round] = "COMPLETED"
  /\ At("apply") => NothingUnfinished

\* What is delivered was judged, also while the delivery is suspended.
Judged ==
  /\ issues = {}
  /\ run.disposition \in {"REVIEW_PASSED", "SYSTEM_POLICY_ACCEPTED", "ADMIN_OVERRIDE"}
  /\ run.disposition = "REVIEW_PASSED" =>
       steps.deck[run.round].st = "COMPLETED" /\ steps.deck[run.round].ok
  /\ run.disposition = "SYSTEM_POLICY_ACCEPTED" => Bounded
Judging == NeverRejected /\ ("RETRY_DELIVERY" \notin UserActions \/ NeverSentBack)

CInv ==
  /\ BlueprintFits /\ AwaitingRests /\ OffersFit /\ DeliveriesFit
  /\ NeverRejected => WorkerInPlace /\ Drawn
  /\ Judging => (Phase(run) \in {"DELIVERING", "COMPLETED"} => Judged)

-----------------------------------------------------------------------------
(* The phase stays. *)

\* The phase is what it was, or the Run has failed in it.
PhaseKept(r, s) ==
  /\ s.round = r.round /\ s.attempt = r.attempt
  /\ Phase(s) = Phase(r) \/ (Phase(s) = "FAILED" /\ Phase(r) \in RecoverableStates)

\* Nothing the course of the Run is told by is written.
RowsStand ==
  /\ steps'.planning = steps.planning /\ steps'.plan = steps.plan /\ steps'.apply = steps.apply
  /\ steps'.delivery = steps.delivery /\ steps'.image = steps.image

JudgedKept ==
  Phase(run') \in {"DELIVERING", "COMPLETED"} =>
    /\ issues' = issues /\ steps'.deck = steps.deck
    /\ run'.disposition = run.disposition /\ run'.automation = run.automation

LEMMA FallsKeepPhase ==
  ASSUME NEW r \in RunRow, NEW s, Falls(r, s)
  PROVE  PhaseKept(r, s) /\ (s.disposition = r.disposition \/ Phase(s) = "FAILED")
         /\ s.automation = r.automation
  BY DEF Falls, Suspends, PhaseKept, Phase, RecoverableStates, RunRow

\* What else a phase says of the status.
LEMMA PhaseIsStatus ==
  ASSUME NEW r \in RunRow
  PROVE  /\ r.status \notin {"PAUSED", "RECOVERING"} => Phase(r) = r.status
         /\ Phase(r) \in {"NEEDS_HUMAN", "CANCELLED", "COMPLETED", "FAILED"} => r.status = Phase(r)
         /\ Phase(r) \in {"PLANNING", "DELIVERING"} => r.status \in {Phase(r), "RECOVERING"}
         /\ Phase(r) = "AWAITING_REVISION_APPROVAL" => r.status \in {Phase(r), "PAUSED"}
  BY DEF Phase, RunRow, Recoveries, PausableStates, RecoverableStates

LEMMA PhaseHolds ==
  ASSUME IInv, IInv', CInv, PhaseKept(run, run'), RowsStand, Judging => JudgedKept,
         worker' = worker \/ worker' = Resting
  PROVE  CInv'
<1>1. /\ run.round \in Nat /\ run.round \in Rounds /\ run.attempt \in Attempts
      /\ run'.round = run.round /\ run'.attempt = run.attempt
  BY LifecycleAssumption DEF IInv, RowsTyped, RunRow, Rounds, PhaseKept
<1>2. NothingUnfinished' = NothingUnfinished
  BY DEF NothingUnfinished, RowsStand
<1>3. worker' = worker \/ At("idle")'
  BY DEF At, Resting
<1>4. BlueprintFits'
  BY <1>1, <1>2, <1>3 DEF CInv, BlueprintFits, Begun, RowsStand, PhaseKept, At, Course,
     RecoverableStates
<1>5. AwaitingRests'
  BY <1>3 DEF CInv, AwaitingRests, PhaseKept, At
<1>6. OffersFit'
  BY <1>1, <1>3 DEF CInv, OffersFit, Offered, RowsStand, PhaseKept, At, RecoverableStates
<1>7. DeliveriesFit'
  BY <1>1, <1>3 DEF CInv, DeliveriesFit, DeliveryBegan, RowsStand, PhaseKept, At, Resting
<1>8. ASSUME NeverRejected PROVE WorkerInPlace' /\ Drawn'
  <2>1. WorkerInPlace /\ Drawn
    BY <1>8 DEF CInv
  <2>2. worker' = worker => ~(Phase(run') = "FAILED") \/ At("idle")
    BY DEF IInv, WorkerFits, At, Phase, RunFits, RowsTyped, RunRow, PausableStates,
       Recoveries, RecoverableStates
  <2>3. WorkerInPlace'
    BY <1>1, <1>3, <2>1, <2>2 DEF WorkerInPlace, WorksIn, PhaseKept, At
  <2>4. Drawn'
    BY <1>1, <1>2, <1>3, <2>1 DEF Drawn, Quiet, PhaseKept, RowsStand, At
  <2>. QED BY <2>3, <2>4
<1>9. ASSUME Judging, Phase(run') \in {"DELIVERING", "COMPLETED"} PROVE Judged'
  BY <1>1, <1>9 DEF CInv, Judged, JudgedKept, PhaseKept, Bounded
<1>. QED BY <1>4, <1>5, <1>6, <1>7, <1>8, <1>9 DEF CInv

\* The Run is left alone, fails or recovers, and its worker is done.
LEMMA FallHolds ==
  ASSUME IInv, IInv', CInv, Rests, Falls(run, run'), RowsStand, steps'.deck = steps.deck,
         issues' = issues
  PROVE  CInv'
<1>1. PhaseKept(run, run') /\ JudgedKept
  BY FallsKeepPhase DEF IInv, RowsTyped, JudgedKept
<1>. QED BY <1>1, PhaseHolds DEF Rests, Idle

LEMMA ThrowHolds ==
  ASSUME IInv, CInv, Throw, run.status # "RECOVERING"
  PROVE  CInv'
<1>1. IInv' /\ Falls(run, run') /\ Rests
  BY ThrowKeeps, FatalFalls DEF Throw, Rests
<1>2. RowsStand /\ steps'.deck = steps.deck /\ issues' = issues
  BY DEF Throw, RowsStand
<1>. QED BY <1>1, <1>2, FallHolds

\* The worker is done with anything but planning and delivering, in the round.
LEMMA DoneHolds ==
  ASSUME IInv, IInv', CInv, ~(At("idle") \/ At("planning") \/ At("delivery")), Idle,
         run'.round = run.round, run'.attempt = run.attempt,
         steps'.planning = steps.planning, steps'.delivery = steps.delivery,
         \A q \in 1..MaxRounds : Offered(q)' => Offered(q),
         NeverRejected => Drawn',
         Judging => (Phase(run') \in {"DELIVERING", "COMPLETED"} => Judged')
  PROVE  CInv'
<1>1. At("idle")' /\ ~At("delivery")'
  BY DEF Idle, Resting, At
<1>2. BlueprintFits'
  BY DEF CInv, BlueprintFits, Begun
<1>3. OffersFit'
  BY DEF CInv, OffersFit
<1>4. DeliveriesFit'
  BY <1>1 DEF CInv, DeliveriesFit, DeliveryBegan
<1>5. AwaitingRests' /\ WorkerInPlace'
  BY <1>1 DEF AwaitingRests, WorkerInPlace, At
<1>. QED BY <1>2, <1>3, <1>4, <1>5 DEF CInv

\* The worker begins in a phase of its own.
LEMMA BeginsHolds ==
  ASSUME IInv, IInv', CInv, run'.round = run.round, run'.attempt = run.attempt,
         Phase(run') = Phase(run), ~At("planning"), ~At("delivery"),
         steps'.planning = steps.planning, steps'.plan = steps.plan,
         steps'.delivery = steps.delivery, steps'.image = steps.image,
         run.status \in RecoverableStates \ {"PLANNING", "DELIVERING"},
         ~At("delivery")',
         NeverRejected => WorkerInPlace' /\ Drawn'
  PROVE  CInv'
<1>1. Phase(run) = run.status /\ Phase(run) \in Course
  BY DEF Phase, RecoverableStates, Course
<1>2. BlueprintFits'
  BY <1>1 DEF CInv, BlueprintFits, Begun
<1>3. OffersFit'
  BY <1>1 DEF CInv, OffersFit, Offered, RecoverableStates
<1>4. DeliveriesFit'
  BY <1>1 DEF CInv, DeliveriesFit, DeliveryBegan, RecoverableStates
<1>5. AwaitingRests' /\ Phase(run') \notin {"DELIVERING", "COMPLETED"}
  BY <1>1 DEF AwaitingRests, RecoverableStates
<1>. QED BY <1>2, <1>3, <1>4, <1>5 DEF CInv

-----------------------------------------------------------------------------
(* Planning. *)

LEMMA SourceOutageHolds == ASSUME IInv, CInv, NEW d, SourceOutage(d) PROVE CInv'
<1>1. run \in RunRow /\ steps \in StepRows /\ RunFits(run) /\ run.status \in RecoverableStates
  BY DEF SourceOutage, Tick, IInv, RowsTyped, RecoverableStates
<1>2. Falls(run, run') /\ Rests /\ IInv'
  BY <1>1, RecoveryFalls, SourceOutageStep DEF SourceOutage, Tick, Rests
<1>3. RowsStand /\ steps'.deck = steps.deck /\ issues' = issues
  BY <1>1 DEF SourceOutage, StepRows, RowsStand
<1>. QED BY <1>2, <1>3, FallHolds

\* Clearing a recovery that is over keeps the phase.
LEMMA ClearKeepsPhase ==
  ASSUME RowsTyped, RunFits(run), run' = ClearRecovery
  PROVE  PhaseKept(run, run') /\ Phase(run') = Phase(run)
         /\ run'.disposition = run.disposition /\ run'.automation = run.automation
<1>. DEFINE s == [run EXCEPT !.recovery = NoRecovery]
<1>1. /\ s.status = run.status /\ s.resume = run.resume /\ s.round = run.round
      /\ s.attempt = run.attempt /\ s.disposition = run.disposition
      /\ s.automation = run.automation
  BY DEF RowsTyped, RunRow
<1>2. run' = run \/ (run.status = "PLANNING" /\ run' = s)
  BY DEF ClearRecovery
<1>. HIDE DEF s
<1>. QED BY <1>1, <1>2 DEF PhaseKept, Phase

LEMMA BeginPlanningHolds == ASSUME IInv, CInv, BeginPlanning PROVE CInv'
<1>1. /\ run \in RunRow /\ steps \in StepRows /\ RunFits(run) /\ run.status = "PLANNING"
      /\ run.attempt \in Attempts /\ At("idle") /\ IInv' /\ issues' = issues /\ RowsTyped
  BY BeginPlanningStep DEF BeginPlanning, Tick, IInv, RowsTyped, RunRow
<1>2. /\ PhaseKept(run, run') /\ Phase(run') = "PLANNING"
      /\ run'.disposition = run.disposition /\ run'.automation = run.automation
  <2>1. run' = run \/ run' = ClearRecovery
    BY DEF BeginPlanning
  <2>2. Phase(run) = "PLANNING"
    BY <1>1 DEF Phase
  <2>. QED BY <1>1, <2>1, <2>2, ClearKeepsPhase DEF PhaseKept
<1>3. /\ steps'.plan = steps.plan /\ steps'.apply = steps.apply
      /\ steps'.delivery = steps.delivery /\ steps'.image = steps.image
      /\ steps'.deck = steps.deck
      /\ \/ worker' = worker /\ steps'.planning = steps.planning
         \/ /\ Goes("planning") /\ steps.planning[run.attempt] # "COMPLETED"
            /\ steps'.planning = [steps.planning EXCEPT ![run.attempt] = "RUNNING"]
  BY <1>1 DEF BeginPlanning, StepRows
<1>4. CASE worker' = worker /\ steps'.planning = steps.planning
  BY <1>1, <1>2, <1>3, <1>4, PhaseHolds DEF RowsStand, JudgedKept
<1>5. CASE /\ Goes("planning") /\ steps.planning[run.attempt] # "COMPLETED"
           /\ steps'.planning = [steps.planning EXCEPT ![run.attempt] = "RUNNING"]
  <2>1. /\ run'.round = run.round /\ run'.attempt = run.attempt /\ Phase(run) = "PLANNING"
        /\ worker'.at = "planning" /\ worker'.round = run.round
    BY <1>1, <1>2, <1>5 DEF PhaseKept, Phase, Goes
  <2>2. NothingUnfinished' = NothingUnfinished
    BY <1>3 DEF NothingUnfinished
  <2>3. steps'.planning =
          [b \in Attempts |-> IF b = run.attempt THEN "RUNNING" ELSE steps.planning[b]]
    BY <1>1, <1>5 DEF StepRows
  <2>4. BlueprintFits'
    BY <1>1, <1>2, <1>3, <1>5, <2>1, <2>2, <2>3, LifecycleAssumption
       DEF CInv, BlueprintFits, Begun, At, Course, Attempts
  <2>5. OffersFit' /\ AwaitingRests'
    BY <1>2, <1>3, <2>1, <1>1 DEF CInv, OffersFit, Offered, AwaitingRests
  <2>6. DeliveriesFit'
    BY <1>2, <1>3, <2>1, <1>1 DEF CInv, DeliveriesFit, DeliveryBegan, At
  <2>7. ASSUME NeverRejected PROVE WorkerInPlace' /\ Drawn'
    BY <1>2, <2>1 DEF WorkerInPlace, WorksIn, Drawn, Quiet, At
  <2>. QED BY <1>2, <2>4, <2>5, <2>6, <2>7 DEF CInv
<1>. QED BY <1>3, <1>4, <1>5

LEMMA StageCompletesHolds == ASSUME IInv, CInv, StageCompletes PROVE CInv'
<1>1. /\ run \in RunRow /\ steps \in StepRows /\ RunFits(run) /\ RowsTyped /\ IInv'
      /\ worker' = worker /\ issues' = issues /\ run' = ClearRecovery
  BY StageCompletesStep DEF StageCompletes, IInv, RowsTyped
<1>2. RowsStand /\ steps'.deck = steps.deck
  BY <1>1 DEF StageCompletes, StepRows, RowsStand
<1>. QED BY <1>1, <1>2, ClearKeepsPhase, PhaseHolds DEF JudgedKept

LEMMA PlanningCompletesHolds == ASSUME IInv, CInv, PlanningCompletes PROVE CInv'
<1>1. /\ run \in RunRow /\ steps \in StepRows /\ RunFits(run) /\ run.attempt \in Attempts
      /\ run.status # "RECOVERING" /\ At("planning") /\ IInv'
  BY PlanningCompletesStep DEF PlanningCompletes, IInv, RowsTyped, RunRow, WorkerFits, At
<1>2. CASE Throw
  BY <1>1, <1>2, ThrowHolds
<1>3. CASE ~Throw
  <2>1. /\ run' = To(run, "EXECUTING") /\ Idle
        /\ steps' = [steps EXCEPT !.planning[run.attempt] = "COMPLETED"]
    BY <1>3 DEF PlanningCompletes
  <2>2. /\ run'.status = "EXECUTING" /\ run'.round = run.round /\ run'.attempt = run.attempt
        /\ Phase(run') = "EXECUTING"
    BY <1>1, <2>1 DEF To, RunRow, Phase
  <2>3. /\ steps'.plan = steps.plan /\ steps'.apply = steps.apply
        /\ steps'.delivery = steps.delivery /\ steps'.image = steps.image
        /\ steps'.planning = [b \in Attempts |-> IF b = run.attempt THEN "COMPLETED"
                                                                    ELSE steps.planning[b]]
    BY <1>1, <2>1 DEF StepRows
  <2>4. /\ At("idle")' /\ ~At("delivery")' /\ ~At("media")' /\ ~At("apply")'
        /\ ~At("idle") /\ ~At("delivery")
    BY <1>1, <2>1 DEF Idle, Resting, At
  <2>5. BlueprintFits'
    BY <1>1, <2>2, <2>3, LifecycleAssumption DEF CInv, BlueprintFits, Attempts
  <2>6. OffersFit' /\ AwaitingRests'
    BY <2>2, <2>3, <2>4 DEF CInv, OffersFit, Offered, AwaitingRests
  <2>7. DeliveriesFit'
    BY <2>2, <2>3, <2>4 DEF CInv, DeliveriesFit, DeliveryBegan
  <2>8. WorkerInPlace' /\ Drawn'
    BY <2>2, <2>4 DEF WorkerInPlace, Drawn, Quiet, At
  <2>. QED BY <2>2, <2>5, <2>6, <2>7, <2>8 DEF CInv
<1>. QED BY <1>2, <1>3

LEMMA PlanningFailsHolds == ASSUME IInv, CInv, PlanningFails PROVE CInv'
<1>1. /\ run \in RunRow /\ steps \in StepRows /\ RunFits(run) /\ run.attempt \in Attempts
      /\ run.status # "RECOVERING" /\ At("planning") /\ IInv'
      /\ steps.planning[run.attempt] = "RUNNING"
  BY PlanningFailsStep DEF PlanningFails, IInv, RowsTyped, RunRow, WorkerFits, At
<1>2. CASE Throw
  BY <1>1, <1>2, ThrowHolds
<1>3. CASE ~Throw
  <2>1. /\ run.status = "PLANNING" /\ Idle
        /\ \/ \E d \in Dispositions : run' = BeginRecovery(run, d)
           \/ run' = To(run, "NEEDS_HUMAN")
    BY <1>3 DEF PlanningFails
  <2>2. /\ run'.round = run.round /\ run'.attempt = run.attempt
        /\ Phase(run') \in {"PLANNING", "FAILED", "NEEDS_HUMAN"}
    <3>1. CASE \E d \in Dispositions : run' = BeginRecovery(run, d)
      <4>1. Falls(run, run') /\ Phase(run) = "PLANNING"
        BY <1>1, <2>1, <3>1, RecoveryFalls DEF RecoverableStates, Phase
      <4>. QED BY <1>1, <4>1, FallsKeepPhase DEF PhaseKept
    <3>2. CASE run' = To(run, "NEEDS_HUMAN")
      BY <1>1, <3>2 DEF To, RunRow, Phase
    <3>. QED BY <2>1, <3>1, <3>2
  <2>3. /\ steps'.plan = steps.plan /\ steps'.delivery = steps.delivery
        /\ steps'.image = steps.image /\ steps'.apply = steps.apply
        /\ steps'.planning = [b \in Attempts |-> IF b = run.attempt THEN "FAILED"
                                                                    ELSE steps.planning[b]]
    <3>. DEFINE failed == [steps EXCEPT !.planning[run.attempt] = "FAILED"]
    <3>1. \/ steps' = failed
          \/ \E used \in {{}, {run.attempt}} :
               steps' = [failed EXCEPT !.exhausted = failed.exhausted \cup used]
      BY <1>3 DEF PlanningFails
    <3>2. /\ failed.plan = steps.plan /\ failed.delivery = steps.delivery
          /\ failed.image = steps.image /\ failed.apply = steps.apply
          /\ failed.planning = [b \in Attempts |-> IF b = run.attempt THEN "FAILED"
                                                                      ELSE steps.planning[b]]
      BY <1>1 DEF StepRows
    <3>3. failed \in StepRows
      BY <1>1, WritePlanning DEF StepStates, SetPlanning, KeepsPlans
    <3>. HIDE DEF failed
    <3>. QED BY <3>1, <3>2, <3>3 DEF StepRows
  <2>4. At("idle")' /\ ~At("delivery")' /\ ~At("idle") /\ ~At("delivery") /\ ~At("media")'
        /\ ~At("apply")'
    BY <1>1, <2>1 DEF Idle, Resting, At
  <2>5. ~Begun
    BY <1>1 DEF CInv, BlueprintFits
  <2>6. NothingUnfinished' /\ run.round = 0
    BY <1>1, <2>3, <2>5, LifecycleAssumption DEF Begun, NothingUnfinished, RunRow, Rounds
  <2>7. BlueprintFits'
    BY <1>1, <2>2, <2>3, <2>4, <2>5, <2>6, LifecycleAssumption
       DEF CInv, BlueprintFits, Begun, Course, Attempts
  <2>8. OffersFit' /\ AwaitingRests'
    BY <2>2, <2>3, <2>4 DEF CInv, OffersFit, Offered, AwaitingRests
  <2>9. DeliveriesFit'
    BY <2>2, <2>3, <2>4 DEF CInv, DeliveriesFit, DeliveryBegan
  <2>10. WorkerInPlace' /\ Drawn'
    BY <2>2, <2>4, <2>6 DEF WorkerInPlace, Drawn, Quiet, At
  <2>. QED BY <2>2, <2>7, <2>8, <2>9, <2>10 DEF CInv
<1>. QED BY <1>2, <1>3

-----------------------------------------------------------------------------
(* The image. *)

LEMMA BeginImageHolds == ASSUME IInv, CInv, BeginImage PROVE CInv'
<1>1. /\ run \in RunRow /\ run.status \in {"EXECUTING", "REVISING"} /\ At("idle") /\ IInv'
      /\ UNCHANGED <<run, steps, issues>> /\ RowsStand
      /\ worker'.at = "media" /\ worker'.round = run.round
      /\ run.status = "REVISING" => steps.apply[run.round] = "COMPLETED"
  BY BeginImageStep DEF BeginImage, MediaTick, InMediaPhase, Goes, IInv, RowsTyped, RowsStand
<1>2. Phase(run) = run.status
  BY <1>1 DEF Phase
<1>3. ASSUME NeverRejected PROVE WorkerInPlace' /\ Drawn'
  BY <1>1, <1>2, <1>3 DEF CInv, WorkerInPlace, WorksIn, Drawn, Quiet, At, NothingUnfinished
<1>. QED BY <1>1, <1>3, BeginsHolds DEF RecoverableStates, At, RowsStand

\* A pause keeps the phase.
LEMMA PauseKeepsPhase ==
  ASSUME NEW r \in RunRow, r.status \in PausableStates
  PROVE  /\ PhaseKept(r, To(r, "PAUSED")) /\ To(r, "PAUSED").disposition = r.disposition
         /\ To(r, "PAUSED").automation = r.automation
  BY DEF To, RunRow, PausableStates, PhaseKept, Phase

LEMMA BudgetShortHolds == ASSUME IInv, CInv, BudgetShort PROVE CInv'
<1>1. run.status # "RECOVERING" /\ run \in RunRow /\ IInv'
  BY BudgetShortStep DEF BudgetShort, IInv, WorkerFits, At, RowsTyped
<1>2. CASE Idle /\ UNCHANGED <<run, steps, issues>>
  BY <1>1, <1>2, PhaseHolds DEF RowsStand, PhaseKept, JudgedKept, Idle
<1>3. CASE Throw
  BY <1>1, <1>3, ThrowHolds
<1>4. CASE /\ CanTransition(run, "PAUSED") /\ run' = To(run, "PAUSED")
           /\ Idle /\ UNCHANGED <<steps, issues>>
  BY <1>1, <1>4, PausesPausable, PauseKeepsPhase, PhaseHolds DEF RowsStand, JudgedKept, Idle
<1>. QED BY <1>2, <1>3, <1>4 DEF BudgetShort, MoveOrThrow

LEMMA SubmitImageHolds == ASSUME IInv, CInv, SubmitImage PROVE CInv'
<1>1. /\ run \in RunRow /\ steps \in StepRows /\ run.status \in {"EXECUTING", "REVISING"}
      /\ worker.round \in Rounds /\ At("media") /\ Idle /\ IInv' /\ issues' = issues
      /\ steps' = [steps EXCEPT !.image[worker.round] = "PENDING"]
      /\ run' = [run EXCEPT !.settled = FALSE]
  BY SubmitImageStep DEF SubmitImage, InMediaPhase, IInv, RowsTyped, WorkerRow
<1>2. /\ steps'.plan = steps.plan /\ steps'.delivery = steps.delivery
      /\ steps'.apply = steps.apply /\ steps'.planning = steps.planning
  BY <1>1 DEF StepRows
<1>3. /\ run'.round = run.round /\ run'.attempt = run.attempt
      /\ Phase(run') = run.status /\ Phase(run) = run.status
  BY <1>1 DEF RunRow, Phase
<1>4. At("idle")'
  BY <1>1 DEF Idle, Resting, At
<1>5. ASSUME NeverRejected PROVE Drawn'
  BY <1>1, <1>2, <1>3, <1>4, <1>5 DEF CInv, Drawn, Quiet, At
<1>. QED BY <1>1, <1>2, <1>3, <1>5, DoneHolds DEF At, Offered

LEMMA ImageNotSubmittedHolds == ASSUME IInv, CInv, ImageNotSubmitted PROVE CInv'
<1>. DEFINE s == IF InMediaPhase(run) THEN To(run, "PAUSED") ELSE run
<1>1. /\ run \in RunRow /\ run.status # "FAILED" /\ IInv' /\ Idle
      /\ run' = [s EXCEPT !.settled = FALSE] /\ UNCHANGED <<steps, issues>>
  BY ImageNotSubmittedStep DEF ImageNotSubmitted, IInv, RowsTyped, WorkerFits, At
<1>3. /\ PhaseKept(run, run') /\ run'.disposition = run.disposition
      /\ run'.automation = run.automation
  <2>1. CASE InMediaPhase(run)
    <3>1. run' = [run EXCEPT !.status = "PAUSED", !.resume = run.status, !.settled = FALSE]
      BY <1>1, <2>1 DEF To, RunRow
    <3>. QED BY <1>1, <2>1, <3>1 DEF PhaseKept, Phase, RunRow, InMediaPhase
  <2>2. CASE ~InMediaPhase(run)
    BY <1>1, <2>2 DEF PhaseKept, Phase, RunRow
  <2>. QED BY <2>1, <2>2
<1>. QED BY <1>1, <1>3, PhaseHolds DEF RowsStand, JudgedKept, Idle

\* What holds the authorization of an image does not move the Run.
LEMMA HoldKeepsPhase ==
  ASSUME NEW r \in RunRow, NEW held
  PROVE  LET s == [r EXCEPT !.settled = held]
         IN /\ PhaseKept(r, s) /\ s.disposition = r.disposition /\ s.automation = r.automation
            /\ Phase(s) = Phase(r) /\ s.status = r.status
  BY DEF PhaseKept, Phase, RunRow

LEMMA ImageSubmissionFailsHolds == ASSUME IInv, CInv, ImageSubmissionFails PROVE CInv'
<1>1. PICK d \in Dispositions, reserved \in BOOLEAN :
        LET held == [run EXCEPT !.settled = @ /\ ~reserved]
        IN /\ run' = IF Recoverable(held) THEN BeginRecovery(held, d) ELSE held
           /\ steps' = [steps EXCEPT !.broken = Broken(d)]
  BY DEF ImageSubmissionFails
<1>. DEFINE held == [run EXCEPT !.settled = run.settled /\ ~reserved]
<1>2. /\ run \in RunRow /\ RunFits(run) /\ run.status # "FAILED" /\ steps \in StepRows /\ Idle
      /\ IInv' /\ issues' = issues
  BY ImageSubmissionFailsStep DEF ImageSubmissionFails, IInv, RowsTyped, WorkerFits, At
<1>3. held \in RunRow /\ RunFits(held)
  <2>1. (run.settled /\ ~reserved) \in BOOLEAN
    OBVIOUS
  <2>. QED BY <1>2, <2>1, HoldFits
<1>4. /\ PhaseKept(run, held) /\ held.disposition = run.disposition /\ Phase(held) = Phase(run)
      /\ held.automation = run.automation
  BY <1>2, HoldKeepsPhase
<1>5. run' = IF Recoverable(held) THEN BeginRecovery(held, d) ELSE held
  BY <1>1
<1>. HIDE DEF held
<1>6. Falls(held, run')
  BY <1>3, <1>5, RecoveryFalls DEF Recoverable, Falls
<1>7. PhaseKept(run, run') /\ JudgedKept
  <2>1. steps'.deck = steps.deck
    BY <1>1, <1>2 DEF StepRows
  <2>. QED BY <1>2, <1>3, <1>4, <1>6, <2>1, FallsKeepPhase DEF PhaseKept, JudgedKept
<1>8. RowsStand
  BY <1>1, <1>2 DEF RowsStand, StepRows
<1>. QED BY <1>2, <1>7, <1>8, PhaseHolds DEF Idle

LEMMA ImageEditUnavailableHolds == ASSUME IInv, CInv, ImageEditUnavailable PROVE CInv'
<1>1. Falls(run, run') /\ IInv' /\ Rests /\ steps' = steps /\ issues' = issues
  BY FailFalls, ImageEditUnavailableStep
     DEF ImageEditUnavailable, MediaTick, Rests, IInv, RowsTyped, FailureCodes
<1>. QED BY <1>1, FallHolds DEF RowsStand

LEMMA ImageBlockedHolds == ASSUME IInv, CInv, ImageBlocked PROVE CInv'
<1>1. PICK d \in Dispositions :
        run' = BeginRecovery(run, d) /\ steps' = [steps EXCEPT !.broken = Broken(d)]
  BY DEF ImageBlocked
<1>2. Falls(run, run') /\ IInv' /\ Rests /\ issues' = issues /\ steps \in StepRows
  BY <1>1, RecoveryFalls, ImageBlockedStep
     DEF ImageBlocked, MediaTick, InMediaPhase, IInv, RowsTyped, RecoverableStates, Rests
<1>3. RowsStand /\ steps'.deck = steps.deck
  BY <1>1, <1>2 DEF RowsStand, StepRows
<1>. QED BY <1>2, <1>3, FallHolds

LEMMA AnswerImageHolds == ASSUME IInv, CInv, AnswerImage PROVE CInv'
<1>1. /\ run \in RunRow /\ RunFits(run) /\ steps \in StepRows /\ At("idle") /\ worker' = worker
      /\ ~NothingUnfinished /\ IInv'
  BY AnswerImageStep DEF AnswerImage, IInv, RowsTyped, NothingUnfinished
<1>2. Falls(run, run')
  BY <1>1, RecoversOrStays DEF AnswerImage, Falls
<1>3. PhaseKept(run, run')
  BY <1>1, <1>2, FallsKeepPhase
<1>4. /\ steps'.plan = steps.plan /\ steps'.delivery = steps.delivery
      /\ steps'.apply = steps.apply /\ steps'.planning = steps.planning
  <2>1. PICK r \in Rounds, to \in ImageStates :
          \/ steps' = [steps EXCEPT !.image[r] = to]
          \/ \E broken : steps' = [steps EXCEPT !.image[r] = to, !.broken = broken]
    BY DEF AnswerImage, ImageStates
  <2>. QED BY <1>1, <2>1 DEF StepRows
<1>5. At("idle")' /\ run'.round = run.round /\ run'.attempt = run.attempt
  BY <1>1, <1>3 DEF At, PhaseKept
<1>6. BlueprintFits'
  BY <1>1, <1>4, <1>5 DEF CInv, BlueprintFits, Begun
<1>7. OffersFit' /\ AwaitingRests'
  BY <1>1, <1>3, <1>4, <1>5
     DEF CInv, OffersFit, Offered, PhaseKept, AwaitingRests, RecoverableStates
<1>8. DeliveriesFit'
  BY <1>1, <1>3, <1>4, <1>5
     DEF CInv, DeliveriesFit, DeliveryBegan, PhaseKept, At, RecoverableStates
<1>9. ASSUME NeverRejected
      PROVE  WorkerInPlace' /\ Drawn' /\ Phase(run') \notin {"DELIVERING", "COMPLETED"}
  <2>1. /\ Phase(run) \notin Quiet
        /\ ~(Phase(run) = "REVISING" /\ steps.apply[run.round] # "COMPLETED")
    BY <1>1, <1>9 DEF CInv, Drawn
  <2>2. Phase(run') \notin Quiet
        /\ ~(Phase(run') = "REVISING" /\ steps'.apply[run'.round] # "COMPLETED")
    BY <1>3, <1>4, <1>5, <2>1 DEF PhaseKept, Quiet
  <2>. QED BY <1>5, <2>2 DEF WorkerInPlace, Drawn, At, Quiet
<1>. QED BY <1>6, <1>7, <1>8, <1>9 DEF CInv, Judging

LEMMA SettleAccountingHolds == ASSUME IInv, CInv, SettleAccounting PROVE CInv'
<1>1. /\ run \in RunRow /\ IInv' /\ UNCHANGED <<steps, issues, worker>>
      /\ run' = [run EXCEPT !.settled = TRUE]
  BY SettleAccountingStep DEF SettleAccounting, IInv, RowsTyped
<1>2. PhaseKept(run, run') /\ JudgedKept /\ RowsStand
  BY <1>1, HoldKeepsPhase DEF JudgedKept, RowsStand
<1>. QED BY <1>1, <1>2, PhaseHolds

\* A tick of the worker that moves the Run on from one phase to the next.
LEMMA TickMoves ==
  ASSUME IInv, IInv', CInv, At("idle"), worker' = worker \/ Idle,
         run.status \in Course \ {"DELIVERING", "AWAITING_REVISION_APPROVAL"},
         run'.round = run.round, run'.attempt = run.attempt,
         Phase(run') \in Course \cup {"NEEDS_HUMAN", "FAILED"},
         Phase(run') \notin {"AWAITING_REVISION_APPROVAL"},
         steps'.planning = steps.planning, steps'.plan = steps.plan,
         steps'.delivery = steps.delivery,
         NeverRejected => Drawn',
         Judging => (Phase(run') \in {"DELIVERING", "COMPLETED"} => Judged')
  PROVE  CInv'
<1>1. At("idle")' /\ ~At("delivery") /\ ~At("delivery")'
  BY DEF Idle, Resting, At
<1>2. Phase(run) = run.status
  BY DEF Phase, Course
<1>3. BlueprintFits'
  BY <1>2 DEF CInv, BlueprintFits, Begun
<1>4. OffersFit' /\ AwaitingRests'
  BY <1>2 DEF CInv, OffersFit, Offered, AwaitingRests, Course
<1>5. DeliveriesFit'
  BY <1>1, <1>2 DEF CInv, DeliveriesFit, DeliveryBegan, Course
<1>6. WorkerInPlace'
  BY <1>1 DEF WorkerInPlace, At
<1>. QED BY <1>3, <1>4, <1>5, <1>6 DEF CInv

LEMMA MoveToPageReviewHolds == ASSUME IInv, CInv, MoveToPageReview PROVE CInv'
<1>1. /\ run \in RunRow /\ steps \in StepRows /\ run.status \in {"EXECUTING", "REVISING"}
      /\ At("idle") /\ run' = To(run, "PAGE_REVIEW") /\ worker' = worker /\ IInv'
      /\ run.settled
  BY MoveToPageReviewStep DEF MoveToPageReview, MediaTick, InMediaPhase, IInv, RowsTyped
<1>2. run'.round = run.round /\ run'.attempt = run.attempt /\ Phase(run') = "PAGE_REVIEW"
  BY <1>1 DEF To, RunRow, Phase
<1>3. /\ steps'.planning = steps.planning /\ steps'.plan = steps.plan
      /\ steps'.delivery = steps.delivery /\ steps'.image = steps.image
  BY <1>1 DEF MoveToPageReview, StepRows
<1>4. NothingUnfinished' /\ At("idle")'
  BY <1>1, <1>3 DEF IInv, AccountsFit, NothingUnfinished, At
<1>5. Drawn'
  BY <1>2, <1>4 DEF Drawn, At
<1>. QED BY <1>1, <1>2, <1>3, <1>5, TickMoves DEF Course

-----------------------------------------------------------------------------
(* The review of the page. *)

LEMMA BeginPageHolds == ASSUME IInv, CInv, BeginPage PROVE CInv'
<1>1. /\ run.status = "PAGE_REVIEW" /\ At("idle") /\ IInv' /\ run' = run /\ steps \in StepRows
      /\ worker'.at \in {"page", "decide"} /\ worker'.round = run.round
  BY BeginPageStep DEF BeginPage, Tick, Goes, IInv, RowsTyped
<1>2. RowsStand
  BY <1>1 DEF BeginPage, RowsStand, StepRows
<1>3. NothingUnfinished' = NothingUnfinished
  BY <1>2 DEF RowsStand, NothingUnfinished
<1>4. ASSUME NeverRejected PROVE WorkerInPlace' /\ Drawn'
  BY <1>1, <1>3, <1>4 DEF CInv, WorkerInPlace, WorksIn, Drawn, Quiet, At, Phase
<1>. QED BY <1>1, <1>2, <1>4, BeginsHolds DEF RecoverableStates, At, RowsStand

LEMMA PageReviewedHolds == ASSUME IInv, CInv, PageReviewed PROVE CInv'
<1>1. /\ At("page") /\ IInv' /\ run' = run /\ steps \in StepRows /\ worker \in WorkerRow
      /\ worker' = [worker EXCEPT !.at = "decide"]
  BY PageReviewedStep DEF PageReviewed, Continues, IInv, RowsTyped
<1>2. RowsStand
  BY <1>1 DEF PageReviewed, RowsStand, StepRows
<1>3. NothingUnfinished' = NothingUnfinished
  BY <1>2 DEF RowsStand, NothingUnfinished
<1>4. /\ worker'.at = "decide" /\ worker'.round = worker.round
      /\ ~At("idle") /\ ~At("planning") /\ ~At("delivery") /\ ~At("delivery")'
  BY <1>1 DEF WorkerRow, At
<1>5. BlueprintFits'
  BY <1>1, <1>2, <1>4 DEF CInv, BlueprintFits, Begun, RowsStand
<1>6. OffersFit' /\ AwaitingRests'
  BY <1>1, <1>2, <1>4 DEF CInv, OffersFit, Offered, AwaitingRests, RowsStand
<1>7. DeliveriesFit'
  BY <1>1, <1>2, <1>4 DEF CInv, DeliveriesFit, DeliveryBegan, RowsStand, At
<1>8. ASSUME NeverRejected
      PROVE  WorkerInPlace' /\ Drawn' /\ Phase(run') \notin {"DELIVERING", "COMPLETED"}
  <2>1. Phase(run) \in {"PAGE_REVIEW", "CANCELLED"} /\ worker.round = run.round /\ Drawn
    BY <1>1, <1>8 DEF CInv, WorkerInPlace, WorksIn, At
  <2>. QED BY <1>1, <1>2, <1>3, <1>4, <2>1 DEF WorkerInPlace, WorksIn, Drawn, At, Quiet
<1>. QED BY <1>5, <1>6, <1>7, <1>8 DEF CInv, Judging

AtReview == At("page") \/ At("decide") \/ At("deck") \/ At("scope") \/ At("plan")

LEMMA ReviewedPhase ==
  ASSUME CInv, AtReview, NeverRejected
  PROVE  /\ Phase(run) \in {"PAGE_REVIEW", "DECK_REVIEW", "CANCELLED"}
         /\ worker.round = run.round
         /\ Phase(run) # "CANCELLED" => NothingUnfinished
  BY DEF CInv, AtReview, WorkerInPlace, WorksIn, Drawn, Quiet, At

\* A worker that reviews is done, in the round.
LEMMA ReviewDone ==
  ASSUME IInv, IInv', CInv, AtReview, Idle,
         run'.round = run.round, run'.attempt = run.attempt,
         Phase(run) = "CANCELLED" => Phase(run') = "CANCELLED",
         steps'.planning = steps.planning, steps'.delivery = steps.delivery,
         steps'.image = steps.image,
         \A q \in 1..MaxRounds : Offered(q)' => Offered(q),
         Judging => (Phase(run') \in {"DELIVERING", "COMPLETED"} => Judged')
  PROVE  CInv'
<1>1. NothingUnfinished' = NothingUnfinished
  BY DEF NothingUnfinished
<1>2. At("idle")'
  BY DEF Idle, Resting, At
<1>3. ASSUME NeverRejected PROVE Drawn'
  BY <1>1, <1>2, <1>3, ReviewedPhase DEF Drawn, Quiet, At
<1>. QED BY <1>3, DoneHolds DEF AtReview, At

\* It leaves the Run alone, or fails it.
LEMMA ReviewFalls ==
  ASSUME IInv, IInv', CInv, AtReview, Idle, Falls(run, run'),
         steps'.planning = steps.planning, steps'.delivery = steps.delivery,
         steps'.image = steps.image,
         \A q \in 1..MaxRounds : Offered(q)' => Offered(q)
  PROVE  CInv'
<1>1. PhaseKept(run, run')
  BY FallsKeepPhase DEF IInv, RowsTyped
<1>2. Judging => Phase(run') \notin {"DELIVERING", "COMPLETED"}
  BY <1>1, ReviewedPhase DEF PhaseKept, Judging
<1>. QED BY <1>1, <1>2, ReviewDone DEF PhaseKept, RecoverableStates

\* It hands the Run to a person, or fails it.
LEMMA ToPersonHolds ==
  ASSUME IInv, CInv, AtReview, MoveOrThrow("NEEDS_HUMAN"), IInv'
  PROVE  CInv'
<1>1. run \in RunRow /\ run.status # "RECOVERING"
  BY DEF IInv, RowsTyped, WorkerFits, AtReview, At
<1>2. CASE Throw
  BY <1>1, <1>2, ThrowHolds
<1>3. CASE /\ CanTransition(run, "NEEDS_HUMAN") /\ run' = To(run, "NEEDS_HUMAN") /\ Idle
           /\ UNCHANGED <<steps, issues>>
  <2>1. /\ run'.round = run.round /\ run'.attempt = run.attempt /\ Phase(run') = "NEEDS_HUMAN"
    BY <1>1, <1>3 DEF To, RunRow, Phase
  <2>2. Phase(run) # "CANCELLED"
    BY <1>1, <1>3, PhaseIsStatus DEF CanTransition, Transitions
  <2>. QED BY <1>3, <2>1, <2>2, ReviewDone DEF Offered
<1>. QED BY <1>2, <1>3 DEF MoveOrThrow

\* The deck is reviewed next.
LEMMA DeckReviewHolds ==
  ASSUME IInv, CInv, AtReview, CanTransition(run, "DECK_REVIEW"), run' = ToDeckReview(run), Idle,
         steps' = steps, IInv'
  PROVE  CInv'
<1>1. run \in RunRow
  BY DEF IInv, RowsTyped
<1>2. /\ run'.round = run.round /\ run'.attempt = run.attempt /\ Phase(run') = "DECK_REVIEW"
  BY <1>1 DEF ToDeckReview, To, RunRow, Phase
<1>3. Phase(run) # "CANCELLED"
  BY <1>1, PhaseIsStatus DEF CanTransition, Transitions
<1>. QED BY <1>2, <1>3, ReviewDone DEF Offered

LEMMA PageApprovedHolds == ASSUME IInv, CInv, PageApproved PROVE CInv'
<1>1. AtReview /\ Idle /\ steps' = steps /\ run.status # "RECOVERING" /\ IInv'
  BY PageApprovedStep DEF PageApproved, IInv, WorkerFits, At, AtReview
<1>2. CASE CanTransition(run, "DECK_REVIEW")
  BY <1>1, <1>2, DeckReviewHolds DEF PageApproved
<1>3. CASE ~CanTransition(run, "DECK_REVIEW")
  <2>1. Falls(run, run')
    BY <1>1, <1>3, FatalFalls DEF PageApproved
  <2>. QED BY <1>1, <2>1, ReviewFalls DEF Offered, Falls, Suspends
<1>. QED BY <1>2, <1>3

LEMMA PageReviewFailedHolds == ASSUME IInv, CInv, PageReviewFailed PROVE CInv'
<1>1. run \in RunRow /\ steps \in StepRows /\ RunFits(run) /\ AtReview /\ IInv'
  BY PageReviewFailedStep DEF PageReviewFailed, IInv, RowsTyped, AtReview
<1>2. CASE MoveOrThrow("NEEDS_HUMAN")
  BY <1>1, <1>2, ToPersonHolds
<1>3. CASE ~MoveOrThrow("NEEDS_HUMAN")
  <2>1. /\ Recoverable(run) /\ run' = BeginRecovery(run, steps.page[worker.round]) /\ Idle
        /\ \E pages : steps' = [steps EXCEPT !.page = pages]
    BY <1>3 DEF PageReviewFailed
  <2>2. Falls(run, run')
    BY <1>1, <2>1, RecoveryFalls DEF Recoverable
  <2>3. /\ steps'.planning = steps.planning /\ steps'.delivery = steps.delivery
        /\ steps'.image = steps.image /\ steps'.plan = steps.plan
    BY <1>1, <2>1 DEF StepRows
  <2>. QED BY <1>1, <2>1, <2>2, <2>3, ReviewFalls DEF Offered, Falls, Suspends
<1>. QED BY <1>2, <1>3

LEMMA RevisionOfPageExhaustedHolds == ASSUME IInv, CInv, RevisionOfPageExhausted PROVE CInv'
<1>1. /\ AtReview /\ Idle /\ steps' = steps /\ run.status # "RECOVERING" /\ IInv'
      /\ run \in RunRow /\ RunFits(run)
  BY RevisionOfPageExhaustedStep
     DEF RevisionOfPageExhausted, PageRejected, IInv, RowsTyped, WorkerFits, At, AtReview
<1>2. \A code \in FailureCodes : Falls(run, Fail(run, code))
  BY <1>1, FailFalls
<1>3. CASE CanTransition(run, "DECK_REVIEW") /\ run' = ToDeckReview(run)
  BY <1>1, <1>3, DeckReviewHolds
<1>4. CASE ~(CanTransition(run, "DECK_REVIEW") /\ run' = ToDeckReview(run))
  <2>1. (\E code \in FailureCodes : run' = Fail(run, code)) \/ run' = Fatal
    BY <1>4 DEF RevisionOfPageExhausted, FailureCodes
  <2>2. Falls(run, run')
    BY <1>1, <1>2, <2>1, FatalFalls
  <2>. QED BY <1>1, <2>2, ReviewFalls DEF Offered, Falls, Suspends
<1>. QED BY <1>3, <1>4

LEMMA PageToPersonHolds == ASSUME IInv, CInv, PageToPerson PROVE CInv'
  BY ToPersonHolds, PageToPersonStep DEF PageToPerson, PageRejected, AtReview

\* The Run is in the next round, to be revised.
LEMMA RoundHolds ==
  ASSUME IInv, IInv', CInv, worker' = worker \/ Idle, NeverRejected => At("idle")',
         run'.round = run.round + 1, run'.attempt = run.attempt, Phase(run') = "REVISING",
         steps'.planning = steps.planning, steps'.delivery = steps.delivery,
         steps'.image = steps.image, steps.planning[run.attempt] = "COMPLETED",
         \A q \in 1..MaxRounds : Offered(q)' => steps.plan[q].st = "COMPLETED",
         NeverRejected => NothingUnfinished
  PROVE  CInv'
<1>1. /\ run.round \in Nat /\ run'.round \in Rounds /\ worker.round <= run.round
      /\ worker.round \in Nat /\ run.round \in Rounds
  BY LifecycleAssumption DEF IInv, RowsTyped, RunRow, Rounds, WorkerFits, WorkerRow
<1>2. NothingUnfinished' = NothingUnfinished
  BY DEF NothingUnfinished
<1>3. BlueprintFits'
  BY <1>1 DEF CInv, BlueprintFits
<1>4. OffersFit' /\ AwaitingRests'
  <2>1. \A q \in 1..MaxRounds : Offered(q)' => Offered(q) /\ q # run.round + 1
    BY <1>1 DEF Offered
  <2>. QED BY <2>1 DEF CInv, OffersFit, AwaitingRests
<1>5. ~DeliveryBegan'
  BY <1>1, LifecycleAssumption DEF CInv, DeliveriesFit, DeliveryBegan, At, Idle, Resting, Rounds
<1>6. DeliveriesFit'
  BY <1>1, <1>5, LifecycleAssumption DEF CInv, DeliveriesFit, Rounds
<1>7. ASSUME NeverRejected PROVE WorkerInPlace' /\ Drawn'
  BY <1>2, <1>7 DEF WorkerInPlace, Drawn, At
<1>. QED BY <1>3, <1>4, <1>6, <1>7 DEF CInv

LEMMA RevisePageHolds == ASSUME IInv, CInv, RevisePage PROVE CInv'
<1>1. /\ run \in RunRow /\ steps \in StepRows /\ run.status # "RECOVERING" /\ AtReview /\ IInv'
      /\ At("decide")
  BY RevisePageStep DEF RevisePage, PageRejected, IInv, RowsTyped, WorkerFits, At, AtReview
<1>2. CASE Throw
  BY <1>1, <1>2, ThrowHolds
<1>. DEFINE q == worker.round + 1
            plan == [st |-> "COMPLETED", origin |-> "PAGE",
                     fixes |-> {PageIssue(worker.round, steps.page[worker.round])}]
<1>3. CASE ~Throw
  <2>1. /\ run.status = "PAGE_REVIEW" /\ run.round = worker.round
        /\ run' = [To(run, "REVISING") EXCEPT !.round = q]
        /\ steps' = [steps EXCEPT !.plan[q] = plan] /\ Idle
    BY <1>3 DEF RevisePage
  <2>. HIDE DEF plan
  <2>2. /\ run'.round = run.round + 1 /\ run'.attempt = run.attempt
        /\ Phase(run') = "REVISING" /\ Phase(run) = "PAGE_REVIEW"
    BY <1>1, <2>1 DEF To, RunRow, Phase
  <2>3. /\ steps'.planning = steps.planning /\ steps'.delivery = steps.delivery
        /\ steps'.image = steps.image
        /\ \A p \in 1..MaxRounds : p # q => steps'.plan[p] = steps.plan[p]
    BY <1>1, <2>1 DEF StepRows
  <2>4. steps.planning[run.attempt] = "COMPLETED"
    BY <2>2 DEF CInv, BlueprintFits, Begun, Course
  <2>5. NeverRejected => NothingUnfinished
    BY <2>2 DEF CInv, Drawn, Quiet
  <2>6. \A p \in 1..MaxRounds : Offered(p)' => steps.plan[p].st = "COMPLETED"
    BY <2>1, <2>2, <2>3, LifecycleAssumption DEF Offered, IInv, RowsTyped, RunRow, Rounds
  <2>. QED BY <1>1, <2>1, <2>2, <2>3, <2>4, <2>5, <2>6, RoundHolds DEF At, Idle, Resting
<1>. QED BY <1>2, <1>3

-----------------------------------------------------------------------------
(* The review of the deck. *)

LEMMA FailDeckStands ==
  ASSUME steps \in StepRows, NEW r, NEW kind, NEW real, FailDeck(r, kind, real)
  PROVE  RowsStand
  BY DEF FailDeck, StepRows, RowsStand

LEMMA DeckInputFailsHolds == ASSUME IInv, CInv, DeckInputFails PROVE CInv'
<1>1. /\ run.status = "DECK_REVIEW" /\ run.round \in Rounds /\ IInv' /\ steps \in StepRows
      /\ run \in RunRow
  BY DeckInputFailsStep DEF DeckInputFails, Tick, IInv, RowsTyped, RunRow
<1>2. CASE Throw
  BY <1>1, <1>2, ThrowHolds
<1>3. CASE ~Throw
  <2>1. PICK kind : FailDeck(run.round, kind, FALSE) /\ UNCHANGED <<issues, worker>>
    BY <1>3 DEF DeckInputFails
  <2>2. PhaseKept(run, run') /\ RowsStand
    BY <1>1, <2>1, FailDeckFalls, FailDeckStands, FallsKeepPhase
  <2>3. Phase(run') \notin {"DELIVERING", "COMPLETED"}
    BY <1>1, <2>2, PhaseIsStatus DEF PhaseKept
  <2>. QED BY <1>1, <2>1, <2>2, <2>3, PhaseHolds DEF JudgedKept
<1>. QED BY <1>2, <1>3

LEMMA BeginDeckHolds == ASSUME IInv, CInv, BeginDeck PROVE CInv'
<1>1. run.status = "DECK_REVIEW" /\ At("idle") /\ IInv' /\ steps \in StepRows
  BY BeginDeckStep DEF BeginDeck, Tick, IInv, RowsTyped
<1>2. CASE Throw
  BY <1>1, <1>2, ThrowHolds
<1>3. CASE ~Throw
  <2>1. run' = run /\ worker'.at = "deck" /\ worker'.round = run.round
    BY <1>3 DEF BeginDeck, Goes
  <2>2. RowsStand
    BY <1>1, <1>3 DEF BeginDeck, RowsStand, StepRows
  <2>3. NothingUnfinished' = NothingUnfinished
    BY <2>2 DEF RowsStand, NothingUnfinished
  <2>4. ASSUME NeverRejected PROVE WorkerInPlace' /\ Drawn'
    BY <1>1, <2>1, <2>3, <2>4 DEF CInv, WorkerInPlace, WorksIn, Drawn, Quiet, At, Phase
  <2>. QED BY <1>1, <2>1, <2>2, <2>4, BeginsHolds DEF RecoverableStates, At, RowsStand
<1>. QED BY <1>2, <1>3

\* The worker goes on to what the review is to be repaired by.
LEMMA ScopeHolds ==
  ASSUME IInv, IInv', CInv, Goes("scope"), RowsStand, ~At("planning"), ~At("delivery"),
         run.status = "DECK_REVIEW", Phase(run') = Phase(run),
         run'.round = run.round, run'.attempt = run.attempt
  PROVE  CInv'
<1>1. worker'.at = "scope" /\ worker'.round = run.round /\ Phase(run) = "DECK_REVIEW"
  BY DEF Goes, Phase
<1>2. NothingUnfinished' = NothingUnfinished
  BY DEF RowsStand, NothingUnfinished
<1>3. ASSUME NeverRejected PROVE WorkerInPlace' /\ Drawn'
  BY <1>1, <1>2, <1>3 DEF CInv, WorkerInPlace, WorksIn, Drawn, Quiet, At
<1>. QED BY <1>1, <1>3, BeginsHolds DEF RecoverableStates, At, RowsStand

\* The policy of the system takes a deck that is not to be revised again.
LEMMA SystemAcceptedRow ==
  ASSUME NEW r \in RunRow
  PROVE  /\ SystemAccepted(r).round = r.round /\ SystemAccepted(r).attempt = r.attempt
         /\ SystemAccepted(r).status = "DELIVERING"
         /\ SystemAccepted(r).disposition = "SYSTEM_POLICY_ACCEPTED"
         /\ SystemAccepted(r).automation = r.automation
         /\ Phase(SystemAccepted(r)) = "DELIVERING"
<1>. DEFINE s == SystemAccepted(r)
<1>1. /\ s.round = r.round /\ s.attempt = r.attempt /\ s.status = "DELIVERING"
      /\ s.disposition = "SYSTEM_POLICY_ACCEPTED" /\ s.automation = r.automation
  BY DEF SystemAccepted, To, RunRow
<1>. QED BY <1>1 DEF Phase

LEMMA ReplayDeckHolds == ASSUME IInv, CInv, ReplayDeck PROVE CInv'
<1>1. /\ run \in RunRow /\ RunFits(run) /\ run.status = "DECK_REVIEW" /\ At("idle") /\ IInv'
      /\ Phase(run) = "DECK_REVIEW" /\ steps' = steps /\ RowsStand
  BY ReplayDeckStep DEF ReplayDeck, Tick, IInv, RowsTyped, Phase, RowsStand
<1>2. \/ run' = SystemAccepted(run) /\ Idle /\ Bounded /\ issues' = {}
      \/ (\E code \in FailureCodes : run' = Fail(run, code)) /\ Idle
      \/ run' = run /\ (Idle \/ Goes("scope"))
  BY DEF ReplayDeck, FailureCodes, Exhausted
<1>3. CASE run' = SystemAccepted(run) /\ Idle /\ Bounded /\ issues' = {}
  <2>1. /\ run'.round = run.round /\ run'.attempt = run.attempt
        /\ Phase(run') = "DELIVERING" /\ run'.disposition = "SYSTEM_POLICY_ACCEPTED" /\ Bounded'
    BY <1>1, <1>3, SystemAcceptedRow DEF Bounded
  <2>2. Judged'
    BY <1>3, <2>1 DEF Judged
  <2>3. NothingUnfinished' = NothingUnfinished /\ At("idle")'
    BY <1>1, <1>3 DEF NothingUnfinished, Idle, Resting, At
  <2>4. NeverRejected => Drawn'
    BY <1>1, <2>1, <2>3 DEF CInv, Drawn, Quiet, At
  <2>. QED BY <1>1, <1>3, <2>1, <2>2, <2>4, TickMoves DEF Course
<1>4. CASE (\E code \in FailureCodes : run' = Fail(run, code)) /\ Idle
  <2>1. PhaseKept(run, run')
    BY <1>1, <1>4, FailFalls, FallsKeepPhase
  <2>. QED BY <1>1, <1>4, <2>1, PhaseHolds DEF PhaseKept, JudgedKept, Idle
<1>5. CASE run' = run /\ Idle
  BY <1>1, <1>5, PhaseHolds DEF PhaseKept, JudgedKept, Idle
<1>6. CASE run' = run /\ Goes("scope")
  BY <1>1, <1>6, ScopeHolds DEF At
<1>. QED BY <1>2, <1>3, <1>4, <1>5, <1>6

LEMMA DeckFailsHolds == ASSUME IInv, CInv, DeckFails PROVE CInv'
<1>1. /\ run.status # "RECOVERING" /\ worker.round \in Rounds /\ IInv' /\ AtReview
      /\ steps \in StepRows
  BY DeckFailsStep DEF DeckFails, IInv, RowsTyped, WorkerRow, WorkerFits, At, AtReview
<1>2. PICK kind : FailDeck(worker.round, kind, TRUE) /\ Idle /\ issues' = issues
  BY DEF DeckFails
<1>3. Falls(run, run') /\ RowsStand
  BY <1>1, <1>2, FailDeckFalls, FailDeckStands
<1>. QED BY <1>1, <1>2, <1>3, ReviewFalls DEF RowsStand, Offered, Falls, Suspends

\* What the review of the deck ends in.
DeckDelivers ==
  /\ CanTransition(run, "DELIVERING") /\ issues' = {} /\ Idle
  /\ \/ run' = SystemAccepted(run) /\ Bounded
     \/ /\ run' = [To(run, "DELIVERING") EXCEPT !.disposition = "REVIEW_PASSED"]
        /\ \E repair : steps' = SetDeck(steps, worker.round, [st |-> "COMPLETED", real |-> TRUE,
                                                   ok |-> TRUE, repair |-> repair])
DeckStays ==
  LET pending == [run EXCEPT !.disposition = "PENDING"]
  IN /\ run' = pending \/ \E code \in FailureCodes : run' = Fail(pending, code)
     /\ IF run'.status = "DECK_REVIEW" THEN Goes("scope") ELSE Idle

LEMMA DeckEnds == ASSUME DeckCompletes, ~Throw PROVE DeckDelivers \/ DeckStays
<1>. DEFINE redrawn == {q \in 1..MaxRounds :
                            /\ q <= worker.round /\ steps.plan[q].st = "COMPLETED"
                            /\ steps.apply[q] = "COMPLETED" /\ q \in steps.repaired}
            fixed == UNION {steps.plan[q].fixes : q \in redrawn}
            pending == [run EXCEPT !.disposition = "PENDING"]
<1>1. /\ "QUALITY_REMEDIATION_EXHAUSTED" \in FailureCodes
      /\ "QUALITY_ISSUE_STATE_INCONSISTENT" \in FailureCodes
  BY DEF FailureCodes
<1>2. PICK ok \in BOOLEAN, found \in SUBSET Levels : \E repair \in SUBSET found :
        LET open == (issues \ fixed) \cup DeckIssues(worker.round, found)
            blocked == Exhausted /\ BlockingOf(open) # {}
            accepts == Exhausted /\ ~blocked
            passed == ok /\ open = {} /\ ~run.accepted
            policy == accepts /\ ~passed /\ ~run.accepted
            completed == [steps EXCEPT !.deck[worker.round] =
                            [st |-> "COMPLETED", real |-> TRUE, ok |-> ok, repair |-> repair]]
        IN \/ /\ passed \/ policy
              /\ CanTransition(run, "DELIVERING")
              /\ run' = IF policy THEN SystemAccepted(run)
                        ELSE [To(run, "DELIVERING") EXCEPT !.disposition = "REVIEW_PASSED"]
              /\ steps' = completed /\ issues' = {} /\ Idle
           \/ /\ \/ run' = pending
                 \/ run' = Fail(pending, "QUALITY_REMEDIATION_EXHAUSTED")
                 \/ run' = Fail(pending, "QUALITY_ISSUE_STATE_INCONSISTENT")
              /\ IF run'.status = "DECK_REVIEW" THEN Goes("scope") ELSE Idle
  <2>. HIDE DEF redrawn, fixed
  <2>. QED BY ONLY DeckCompletes, ~Throw, ZenonT(60) DEF DeckCompletes, redrawn, fixed
<1>. QED BY <1>1, <1>2 DEF DeckDelivers, DeckStays, SetDeck, Exhausted

LEMMA DeckStands == ASSUME IInv, DeckCompletes, ~Throw PROVE RowsStand
<1>1. PICK review : steps' = [steps EXCEPT !.deck[worker.round] = review]
  BY ONLY DeckCompletes, ~Throw, ZenonT(60) DEF DeckCompletes
<1>. QED BY <1>1 DEF IInv, RowsTyped, RowsStand, StepRows

LEMMA DeckCompletesHolds == ASSUME IInv, CInv, DeckCompletes PROVE CInv'
<1>1. /\ run \in RunRow /\ RunFits(run) /\ steps \in StepRows /\ run.status # "RECOVERING"
      /\ At("deck") /\ AtReview /\ IInv' /\ worker.round \in Rounds
  BY DeckCompletesStep
     DEF DeckCompletes, IInv, RowsTyped, WorkerRow, WorkerFits, At, AtReview
<1>2. CASE Throw
  BY <1>1, <1>2, ThrowHolds
<1>3. CASE ~Throw /\ DeckDelivers
  <2>1. /\ run'.round = run.round /\ run'.attempt = run.attempt /\ Phase(run') = "DELIVERING"
        /\ \/ run'.disposition = "SYSTEM_POLICY_ACCEPTED" /\ Bounded'
           \/ run'.disposition = "REVIEW_PASSED" /\ steps'.deck[worker.round].st = "COMPLETED"
              /\ steps'.deck[worker.round].ok
    <3>1. CASE run' = SystemAccepted(run) /\ Bounded
      BY <1>1, <3>1, SystemAcceptedRow DEF Bounded
    <3>2. CASE /\ run' = [To(run, "DELIVERING") EXCEPT !.disposition = "REVIEW_PASSED"]
               /\ \E repair : steps' = SetDeck(steps, worker.round,
                      [st |-> "COMPLETED", real |-> TRUE, ok |-> TRUE, repair |-> repair])
      <4>1. /\ run'.round = run.round /\ run'.attempt = run.attempt
            /\ run'.status = "DELIVERING" /\ run'.disposition = "REVIEW_PASSED"
        BY <1>1, <3>2 DEF To, RunRow
      <4>2. steps'.deck[worker.round].st = "COMPLETED" /\ steps'.deck[worker.round].ok
        BY <1>1, <3>2 DEF SetDeck, StepRows
      <4>. QED BY <4>1, <4>2 DEF Phase
    <3>. QED BY <1>3, <3>1, <3>2 DEF DeckDelivers
  <2>2. RowsStand
    BY <1>3, DeckStands
  <2>3. Phase(run) # "CANCELLED"
    BY <1>1, <1>3, PhaseIsStatus DEF DeckDelivers, CanTransition, Transitions
  <2>4. Judging => Judged'
    BY <1>1, <1>3, <2>1, ReviewedPhase DEF Judging, Judged, DeckDelivers
  <2>. QED BY <1>1, <1>3, <2>1, <2>2, <2>3, <2>4, ReviewDone DEF DeckDelivers, RowsStand, Offered
<1>4. CASE ~Throw /\ DeckStays
  <2>. DEFINE pending == [run EXCEPT !.disposition = "PENDING"]
  <2>1. /\ pending \in RunRow /\ pending.status = run.status /\ pending.resume = run.resume
        /\ pending.recovery = run.recovery /\ pending.round = run.round
        /\ pending.attempt = run.attempt /\ pending.settled = run.settled
        /\ pending.pending = run.pending
    BY <1>1 DEF RunRow
  <2>2. \/ run' = pending
        \/ \E code \in FailureCodes : run' = Fail(pending, code)
    BY <1>4 DEF DeckStays
  <2>. HIDE DEF pending
  <2>3. RunFits(pending) /\ Phase(pending) = Phase(run)
    BY <1>1, <2>1 DEF RunFits, Phase
  <2>4. Falls(pending, run')
    BY <1>1, <2>1, <2>2, <2>3, FailFalls DEF Falls
  <2>5. PhaseKept(run, run')
    BY <2>1, <2>3, <2>4, FallsKeepPhase DEF PhaseKept
  <2>6. RowsStand
    BY <1>4, DeckStands
  <2>7. CASE Idle
    <3>1. Judging => Phase(run') \notin {"DELIVERING", "COMPLETED"}
      BY <1>1, <2>5, ReviewedPhase DEF PhaseKept, Judging
    <3>. QED BY <1>1, <2>5, <2>6, <2>7, <3>1, ReviewDone
         DEF PhaseKept, RecoverableStates, RowsStand, Offered
  <2>8. CASE run'.status = "DECK_REVIEW" /\ Goes("scope")
    <3>1. run.status = "DECK_REVIEW" /\ Phase(run') = Phase(run)
      BY <2>1, <2>4, <2>8 DEF Falls, Suspends, Phase
    <3>. QED BY <1>1, <2>5, <2>6, <2>8, <3>1, ScopeHolds DEF PhaseKept, At
  <2>. QED BY <1>4, <2>7, <2>8 DEF DeckStays
<1>. QED BY <1>2, <1>3, <1>4, DeckEnds

-----------------------------------------------------------------------------
(* What to revise, and its plan. *)

LEMMA ReviewHadPassedHolds == ASSUME IInv, CInv, ReviewHadPassed PROVE CInv'
  BY ThrowHolds, WorkingIsNotRecovering DEF ReviewHadPassed, At

LEMMA AcceptOrFailHolds ==
  ASSUME IInv, IInv', CInv, AtReview, Idle, NEW code \in FailureCodes, AcceptOrFail(code),
         steps'.planning = steps.planning, steps'.delivery = steps.delivery,
         steps'.image = steps.image,
         \A q \in 1..MaxRounds : Offered(q)' => Offered(q)
  PROVE  CInv'
<1>1. run \in RunRow /\ RunFits(run) /\ run.status # "RECOVERING"
  BY DEF IInv, RowsTyped, WorkerFits, AtReview, At
<1>2. CASE CanAccept /\ ~run.accepted
  <2>1. run' = SystemAccepted(run) /\ issues' = {} /\ Bounded /\ run.status = "DECK_REVIEW"
    BY <1>2 DEF AcceptOrFail, CanAccept
  <2>2. /\ run'.round = run.round /\ run'.attempt = run.attempt /\ Bounded'
        /\ run'.disposition = "SYSTEM_POLICY_ACCEPTED"
    BY <1>1, <2>1, SystemAcceptedRow DEF Bounded
  <2>3. Judged' /\ Phase(run) # "CANCELLED"
    BY <1>1, <2>1, <2>2, PhaseIsStatus DEF Judged
  <2>. QED BY <2>2, <2>3, ReviewDone
<1>3. CASE ~(CanAccept /\ ~run.accepted)
  <2>1. PhaseKept(run, run')
    BY <1>1, <1>3, FailFalls, FallsKeepPhase DEF AcceptOrFail
  <2>2. Judging => Phase(run') \notin {"DELIVERING", "COMPLETED"}
    BY <2>1, ReviewedPhase DEF PhaseKept, Judging
  <2>. QED BY <2>1, <2>2, ReviewDone DEF PhaseKept, RecoverableStates
<1>. QED BY <1>2, <1>3

LEMMA NothingToReviseHolds == ASSUME IInv, CInv, NothingToRevise PROVE CInv'
<1>1. AtReview /\ IInv'
  BY NothingToReviseStep DEF NothingToRevise, AtReview
<1>2. CASE MoveOrThrow("NEEDS_HUMAN")
  BY <1>1, <1>2, ToPersonHolds
<1>3. CASE (\E code \in FailureCodes : AcceptOrFail(code)) /\ Idle /\ steps' = steps
  <2>1. PICK code \in FailureCodes : AcceptOrFail(code)
    BY <1>3
  <2>2. run'.round = run.round
    BY <1>1, <2>1, AcceptOrFailMoves, WorkingIsNotRecovering
       DEF SameRound, NothingToRevise, At
  <2>. QED BY <1>1, <1>3, <2>1, <2>2, AcceptOrFailHolds DEF Offered
<1>. QED BY <1>2, <1>3 DEF NothingToRevise, FailureCodes

LEMMA ScopeInputFailsHolds == ASSUME IInv, CInv, ScopeInputFails PROVE CInv'
<1>1. AtReview /\ IInv' /\ run \in RunRow /\ RunFits(run)
  BY ScopeInputFailsStep DEF ScopeInputFails, Revisable, AtReview, IInv, RowsTyped
<1>2. CASE MoveOrThrow("NEEDS_HUMAN")
  BY <1>1, <1>2, ToPersonHolds
<1>3. CASE Recoverable(run) /\ (\E d \in Dispositions : run' = BeginRecovery(run, d)) /\ Idle
           /\ UNCHANGED <<steps, issues>>
  <2>1. Falls(run, run')
    BY <1>1, <1>3, RecoveryFalls DEF Recoverable
  <2>. QED BY <1>1, <1>3, <2>1, ReviewFalls DEF Offered, Falls, Suspends
<1>. QED BY <1>2, <1>3 DEF ScopeInputFails

LEMMA BeginRevisionPlanHolds == ASSUME IInv, CInv, BeginRevisionPlan PROVE CInv'
<1>1. /\ run \in RunRow /\ steps \in StepRows /\ RunFits(run) /\ run.status # "RECOVERING"
      /\ worker.round \in Nat /\ worker.round < MaxRounds /\ run.round \in Nat /\ At("scope")
      /\ AtReview /\ IInv'
  BY BeginRevisionPlanStep, WorkingIsNotRecovering, LifecycleAssumption
     DEF BeginRevisionPlan, Revisable, At, AtReview, IInv, RowsTyped, WorkerRow, RunRow, Rounds
<1>. DEFINE q == worker.round + 1
            plan == Begin(steps.plan[q])
<1>2. \/ Throw
      \/ Idle /\ UNCHANGED <<run, steps, issues>>
      \/ /\ steps.plan[q].st \in {"NONE", "RUNNING"}
         /\ steps' = SetPlan(steps, q, plan)
         /\ Goes("plan") /\ UNCHANGED <<run, issues>>
  BY RevisionPlanBegins
<1>3. CASE Throw
  BY <1>1, <1>3, ThrowHolds
<1>4. CASE Idle /\ UNCHANGED <<run, steps, issues>>
  BY <1>1, <1>4, PhaseHolds DEF RowsStand, PhaseKept, JudgedKept, Idle
<1>5. CASE /\ steps.plan[q].st \in {"NONE", "RUNNING"}
           /\ steps' = SetPlan(steps, q, plan)
           /\ Goes("plan") /\ UNCHANGED <<run, issues>>
  <2>1. q \in 1..MaxRounds
    BY <1>1, LifecycleAssumption
  <2>2. plan.st = "RUNNING"
    <3>1. steps.plan[q] \in Plans
      BY <1>1, <2>1 DEF StepRows
    <3>. QED BY <3>1 DEF Plans, Begin
  <2>. HIDE DEF plan
  <2>3. /\ steps'.planning = steps.planning /\ steps'.delivery = steps.delivery
        /\ steps'.image = steps.image /\ steps'.apply = steps.apply
        /\ steps'.plan = [steps.plan EXCEPT ![q] = plan]
    BY <1>1, <1>5, <2>1 DEF SetPlan, StepRows
  <2>4. \A p \in 1..MaxRounds : Offered(p)' => Offered(p)
    BY <1>1, <1>5, <2>1, <2>2, <2>3 DEF Offered, StepRows
  <2>5. worker'.at = "plan" /\ worker'.round = run.round
    BY <1>5 DEF Goes
  <2>6. NothingUnfinished' = NothingUnfinished
    BY <2>3 DEF NothingUnfinished
  <2>7. BlueprintFits'
    BY <1>1, <1>5, <2>3 DEF CInv, BlueprintFits, Begun, At
  <2>8. OffersFit' /\ AwaitingRests'
    BY <1>1, <1>5, <2>4 DEF CInv, OffersFit, AwaitingRests, At
  <2>9. DeliveriesFit'
    BY <1>1, <1>5, <2>3, <2>5 DEF CInv, DeliveriesFit, DeliveryBegan, At
  <2>10. ASSUME NeverRejected
         PROVE  WorkerInPlace' /\ Drawn' /\ Phase(run') \notin {"DELIVERING", "COMPLETED"}
    <3>1. Phase(run) \in {"DECK_REVIEW", "CANCELLED"} /\ Drawn
      BY <1>1, <2>10 DEF CInv, WorkerInPlace, WorksIn, At
    <3>. QED BY <1>5, <2>5, <2>6, <3>1 DEF WorkerInPlace, WorksIn, Drawn, At, Quiet
  <2>. QED BY <2>7, <2>8, <2>9, <2>10 DEF CInv, Judging
<1>. QED BY <1>2, <1>3, <1>4, <1>5

LEMMA PlanReplacedHolds == ASSUME IInv, CInv, PlanReplaced PROVE CInv'
  BY PlanReplacedStep, PhaseHolds DEF PlanReplaced, RowsStand, PhaseKept, JudgedKept, Idle

\* A person is asked about the plan, or it is carried out.
LEMMA RevisionPlannedHolds == ASSUME IInv, CInv, RevisionPlanned PROVE CInv'
<1>. DEFINE q == worker.round + 1
            to == IF Bounded THEN "REVISING" ELSE "AWAITING_REVISION_APPROVAL"
            fixes == DeckIssues(worker.round, Review.repair)
            plan == Edited(steps.plan[q], "COMPLETED", fixes)
            moved == [To(run, to) EXCEPT !.round = IF Bounded THEN q ELSE @]
<1>1. /\ run \in RunRow /\ steps \in StepRows /\ RunFits(run) /\ run.status # "RECOVERING"
      /\ worker.round \in Nat /\ run.round = worker.round /\ q \in 1..MaxRounds
      /\ worker.round \in Rounds /\ At("plan") /\ AtReview /\ IInv'
  BY PlannedIsNext, RevisionPlannedStep DEF RevisionPlanned, Planned, AtReview
<1>2. \/ Throw
      \/ /\ CanTransition(run, to)
         /\ run' = moved /\ steps' = SetPlan(steps, q, plan) /\ Idle
  <2>1. \/ Throw
        \/ CanTransition(run, to) /\ run' = moved /\ Idle
    BY DEF RevisionPlanned
  <2>2. Throw \/ steps' = SetPlan(steps, q, plan)
    <3>1. Throw \/ steps' = EditPlan(steps, q, "COMPLETED", fixes)
      BY DEF RevisionPlanned, EditPlan
    <3>. HIDE DEF fixes
    <3>. QED BY <1>1, <3>1, PlanEdited
  <2>. QED BY <2>1, <2>2
<1>3. CASE Throw
  BY <1>1, <1>3, ThrowHolds
<1>4. CASE /\ CanTransition(run, to)
           /\ run' = moved /\ steps' = SetPlan(steps, q, plan) /\ Idle
  <2>. HIDE DEF plan
  <2>1. /\ steps'.planning = steps.planning /\ steps'.delivery = steps.delivery
        /\ steps'.image = steps.image /\ steps'.apply = steps.apply
        /\ steps'.plan = [steps.plan EXCEPT ![q] = plan]
    BY <1>1, <1>4 DEF SetPlan, StepRows
  <2>2. /\ run'.round = (IF Bounded THEN q ELSE run.round) /\ run'.attempt = run.attempt
        /\ Phase(run') = to
    BY <1>1, <1>4 DEF To, RunRow, Phase
  <2>3. \A p \in 1..MaxRounds : p # q => steps'.plan[p] = steps.plan[p]
    BY <1>1, <2>1 DEF StepRows
  <2>4. Phase(run) # "CANCELLED"
    BY <1>1, <1>4, PhaseIsStatus DEF CanTransition, Transitions
  <2>5. NeverRejected => NothingUnfinished
    BY <1>1, <2>4, ReviewedPhase
  <2>6. steps.planning[run.attempt] = "COMPLETED"
    BY <1>1 DEF CInv, BlueprintFits, Begun, At
  <2>7. CASE Bounded
    <3>1. \A p \in 1..MaxRounds : Offered(p)' => steps.plan[p].st = "COMPLETED"
      BY <1>1, <2>2, <2>3, <2>7 DEF Offered
    <3>. QED BY <1>1, <1>4, <2>1, <2>2, <2>5, <2>6, <2>7, <3>1, RoundHolds DEF At, Idle, Resting
  <2>8. CASE ~Bounded
    <3>1. /\ Phase(run') = "AWAITING_REVISION_APPROVAL" /\ run'.round = run.round /\ At("idle")'
      BY <1>4, <2>2, <2>8 DEF Idle, Resting, At
    <3>2. \A p \in 1..MaxRounds : Offered(p)' => p = run.round + 1 \/ Offered(p)
      BY <1>1, <2>3, <3>1 DEF Offered
    <3>3. OffersFit'
      BY <1>1, <3>1, <3>2 DEF CInv, OffersFit, At
    <3>4. BlueprintFits'
      BY <2>1, <2>2, <2>6 DEF CInv, BlueprintFits
    <3>5. DeliveriesFit'
      BY <1>1, <2>1, <3>1 DEF CInv, DeliveriesFit, DeliveryBegan, At
    <3>6. NothingUnfinished' = NothingUnfinished
      BY <2>1 DEF NothingUnfinished
    <3>7. ASSUME NeverRejected PROVE WorkerInPlace' /\ Drawn'
      BY <2>5, <3>1, <3>6, <3>7 DEF WorkerInPlace, Drawn, At
    <3>. QED BY <3>1, <3>3, <3>4, <3>5, <3>7 DEF CInv, AwaitingRests
  <2>. QED BY <2>7, <2>8
<1>. QED BY <1>2, <1>3, <1>4

LEMMA RevisionPlanFailsHolds == ASSUME IInv, CInv, RevisionPlanFails PROVE CInv'
<1>. DEFINE q == worker.round + 1
            plan == [steps.plan[q] EXCEPT !.st = "FAILED"]
<1>1. /\ run \in RunRow /\ steps \in StepRows /\ RunFits(run) /\ run.status # "RECOVERING"
      /\ q \in 1..MaxRounds /\ AtReview /\ IInv'
  BY PlannedIsNext, RevisionPlanFailsStep DEF RevisionPlanFails, Planned, AtReview
<1>2. "QUALITY_REMEDIATION_EXHAUSTED" \in FailureCodes
  BY DEF FailureCodes
<1>3. /\ Idle
      /\ \/ (\E d : RecoverIfPossible(d)) /\ UNCHANGED <<steps, issues>>
         \/ /\ steps' = SetPlan(steps, q, plan)
            /\ \/ AcceptOrFail("QUALITY_REMEDIATION_EXHAUSTED")
               \/ run' = Fail(run, "QUALITY_REMEDIATION_EXHAUSTED") /\ issues' = issues
  BY DEF RevisionPlanFails, SetPlan
<1>4. CASE (\E d : RecoverIfPossible(d)) /\ UNCHANGED <<steps, issues>>
  <2>1. Falls(run, run')
    BY <1>1, <1>4, RecoversOrStays
  <2>. QED BY <1>1, <1>3, <1>4, <2>1, ReviewFalls DEF Offered, Falls, Suspends
<1>5. CASE /\ steps' = SetPlan(steps, q, plan)
           /\ \/ AcceptOrFail("QUALITY_REMEDIATION_EXHAUSTED")
              \/ run' = Fail(run, "QUALITY_REMEDIATION_EXHAUSTED") /\ issues' = issues
  <2>1. plan.st = "FAILED"
    <3>1. steps.plan[q] \in Plans
      BY <1>1 DEF StepRows
    <3>. QED BY <3>1 DEF Plans
  <2>. HIDE DEF plan, q
  <2>2. /\ steps'.planning = steps.planning /\ steps'.delivery = steps.delivery
        /\ steps'.image = steps.image /\ steps'.plan = [steps.plan EXCEPT ![q] = plan]
    BY <1>1, <1>5 DEF SetPlan, StepRows
  <2>3. \A p \in 1..MaxRounds : steps'.plan[p].st = "COMPLETED" => steps.plan[p].st = "COMPLETED"
    BY <1>1, <2>1, <2>2 DEF StepRows
  <2>4. CASE AcceptOrFail("QUALITY_REMEDIATION_EXHAUSTED")
    <3>1. run'.round = run.round
      BY <1>1, <1>2, <2>4, AcceptOrFailMoves DEF SameRound
    <3>. QED BY <1>1, <1>2, <1>3, <2>2, <2>3, <2>4, <3>1, AcceptOrFailHolds DEF Offered
  <2>5. CASE run' = Fail(run, "QUALITY_REMEDIATION_EXHAUSTED") /\ issues' = issues
    <3>1. Falls(run, run') /\ run'.round = run.round
      BY <1>1, <1>2, <2>5, FailFalls, FallenSameRound DEF SameRound
    <3>. QED BY <1>1, <1>3, <2>2, <2>3, <3>1, ReviewFalls DEF Offered
  <2>. QED BY <1>5, <2>4, <2>5
<1>. QED BY <1>3, <1>4, <1>5

-----------------------------------------------------------------------------
(* The application of the plan. *)

LEMMA ApplicationInputFailsHolds == ASSUME IInv, CInv, ApplicationInputFails PROVE CInv'
<1>1. /\ run \in RunRow /\ steps \in StepRows /\ RunFits(run) /\ run.status = "REVISING"
      /\ At("idle") /\ Phase(run) = "REVISING" /\ IInv'
  BY ApplicationInputFailsStep DEF ApplicationInputFails, Tick, IInv, RowsTyped, Phase
<1>2. CASE Throw
  BY <1>1, <1>2, ThrowHolds
<1>3. CASE ~Throw
  <2>1. /\ \/ run' = BeginRecovery(run, "NON_RETRYABLE")
           \/ run' = Fail(run, "QUALITY_REMEDIATION_EXHAUSTED")
        /\ \E st \in {"RUNNING", "FAILED"} : steps' = SetApply(steps, run.round, st)
        /\ worker' = worker /\ steps.apply[run.round] = "NONE"
    BY <1>3 DEF ApplicationInputFails, SetApply
  <2>2. PhaseKept(run, run')
    BY <1>1, <2>1, RecoveryFalls, FailFalls, FallsKeepPhase
       DEF RecoverableStates, FailureCodes
  <2>3. /\ steps'.planning = steps.planning /\ steps'.plan = steps.plan
        /\ steps'.delivery = steps.delivery /\ steps'.image = steps.image
    BY <1>1, <2>1 DEF SetApply, StepRows
  <2>4. NothingUnfinished' = NothingUnfinished /\ At("idle")'
    BY <1>1, <2>1, <2>3 DEF NothingUnfinished, At
  <2>5. NeverRejected => Drawn'
    BY <1>1, <2>1, <2>4 DEF CInv, Drawn, At
  <2>. QED BY <1>1, <2>1, <2>2, <2>3, <2>5, TickMoves DEF PhaseKept, Course
<1>. QED BY <1>2, <1>3

LEMMA BeginApplicationHolds == ASSUME IInv, CInv, BeginApplication PROVE CInv'
<1>1. /\ run \in RunRow /\ steps \in StepRows /\ run.status = "REVISING" /\ At("idle")
      /\ run.round \in 1..MaxRounds /\ Phase(run) = "REVISING" /\ run' = run /\ IInv'
      /\ steps.apply[run.round] # "COMPLETED"
      /\ worker'.at = "apply" /\ worker'.round = run.round
  BY LifecycleAssumption, BeginApplicationStep
     DEF BeginApplication, Tick, Goes, IInv, RowsTyped, RunRow, RunFits, Rounds, Phase
<1>2. /\ steps'.planning = steps.planning /\ steps'.plan = steps.plan
      /\ steps'.delivery = steps.delivery /\ steps'.image = steps.image
  BY <1>1 DEF BeginApplication, StepRows
<1>3. NothingUnfinished' = NothingUnfinished
  BY <1>2 DEF NothingUnfinished
<1>4. ASSUME NeverRejected PROVE WorkerInPlace' /\ Drawn'
  BY <1>1, <1>3, <1>4 DEF CInv, WorkerInPlace, WorksIn, Drawn, Quiet, At
<1>. QED BY <1>1, <1>2, <1>4, BeginsHolds DEF RecoverableStates, At

\* The worker that applies is done, in the round.
LEMMA AppliedHolds ==
  ASSUME IInv, IInv', CInv, At("apply"), Idle, run'.round = run.round,
         run'.attempt = run.attempt, Phase(run') \notin {"DELIVERING", "COMPLETED"}
                                     \/ Phase(run') = Phase(run),
         steps'.planning = steps.planning, steps'.plan = steps.plan,
         steps'.delivery = steps.delivery, steps'.image = steps.image
  PROVE  CInv'
<1>1. NothingUnfinished' = NothingUnfinished /\ At("idle")'
  BY DEF NothingUnfinished, Idle, Resting, At
<1>2. ASSUME NeverRejected
      PROVE  NothingUnfinished /\ Phase(run) \notin {"DELIVERING", "COMPLETED"}
  BY <1>2 DEF CInv, WorkerInPlace, WorksIn, Drawn, At
<1>3. NeverRejected => Drawn'
  BY <1>1, <1>2 DEF Drawn, At
<1>. QED BY <1>2, <1>3, DoneHolds DEF At, Offered, Judging

LEMMA ApplicationCompletesHolds == ASSUME IInv, CInv, ApplicationCompletes PROVE CInv'
<1>1. steps \in StepRows /\ At("apply") /\ Idle /\ run' = run /\ IInv'
  BY ApplyingFits, ApplicationCompletesStep DEF ApplicationCompletes
<1>2. /\ steps'.planning = steps.planning /\ steps'.plan = steps.plan
      /\ steps'.delivery = steps.delivery /\ steps'.image = steps.image
  BY <1>1 DEF ApplicationCompletes, StepRows
<1>. QED BY <1>1, <1>2, AppliedHolds

LEMMA ApplicationFailsHolds == ASSUME IInv, CInv, ApplicationFails PROVE CInv'
<1>1. /\ run \in RunRow /\ steps \in StepRows /\ RunFits(run) /\ run.status # "RECOVERING"
      /\ At("apply") /\ IInv'
  BY ApplyingFits, ApplicationFailsStep DEF ApplicationFails
<1>2. CASE Throw
  BY <1>1, <1>2, ThrowHolds
<1>3. CASE ~Throw
  <2>1. /\ \/ \E d : RecoverIfPossible(d)
           \/ run' = Fail(run, "QUALITY_REMEDIATION_EXHAUSTED")
           \/ run' = To(run, "NEEDS_HUMAN")
        /\ steps' = steps \/ steps' = SetApply(steps, worker.round, "FAILED")
        /\ Idle
    BY <1>3 DEF ApplicationFails, SetApply
  <2>2. /\ steps'.planning = steps.planning /\ steps'.plan = steps.plan
        /\ steps'.delivery = steps.delivery /\ steps'.image = steps.image
    BY <1>1, <2>1 DEF SetApply, StepRows
  <2>3. CASE run' = To(run, "NEEDS_HUMAN")
    <3>1. /\ run'.round = run.round /\ run'.attempt = run.attempt
          /\ Phase(run') = "NEEDS_HUMAN"
      BY <1>1, <2>3 DEF To, RunRow, Phase
    <3>. QED BY <1>1, <2>1, <2>2, <3>1, AppliedHolds
  <2>4. CASE \/ \E d : RecoverIfPossible(d)
             \/ run' = Fail(run, "QUALITY_REMEDIATION_EXHAUSTED")
    <3>1. PhaseKept(run, run')
      BY <1>1, <2>4, RecoversOrStays, FailFalls, FallsKeepPhase DEF FailureCodes
    <3>. QED BY <1>1, <2>1, <2>2, <3>1, AppliedHolds DEF PhaseKept
  <2>. QED BY <2>1, <2>3, <2>4
<1>. QED BY <1>2, <1>3

-----------------------------------------------------------------------------
(* The delivery, and the end of a recovery. *)

\* A delivery is written, in the round the worker began it in.
LEMMA DeliveryWrites ==
  ASSUME steps \in StepRows, worker.round \in Rounds, NEW st,
         steps' = [steps EXCEPT !.delivery[worker.round] = st]
  PROVE  /\ steps'.planning = steps.planning /\ steps'.plan = steps.plan
         /\ steps'.apply = steps.apply /\ steps'.image = steps.image /\ steps'.deck = steps.deck
         /\ \A q \in Rounds : q # worker.round => steps'.delivery[q] = steps.delivery[q]
  BY DEF StepRows

LEMMA BeginDeliveryHolds == ASSUME IInv, CInv, BeginDelivery PROVE CInv'
<1>1. /\ steps \in StepRows /\ run.status = "DELIVERING" /\ run' = run /\ issues' = issues
      /\ At("idle") /\ run.round \in Nat /\ IInv' /\ Phase(run) = "DELIVERING"
      /\ worker'.at = "delivery" /\ worker'.round = run.round
      /\ steps' = [steps EXCEPT !.delivery[run.round] = "RUNNING"] /\ run.round \in Rounds
  BY LifecycleAssumption, BeginDeliveryStep
     DEF BeginDelivery, Tick, Goes, IInv, RowsTyped, RunRow, Rounds, Phase
<1>2. /\ steps'.planning = steps.planning /\ steps'.plan = steps.plan
      /\ steps'.apply = steps.apply /\ steps'.image = steps.image /\ steps'.deck = steps.deck
      /\ \A q \in Rounds : q # run.round => steps'.delivery[q] = steps.delivery[q]
  BY <1>1 DEF StepRows
<1>3. NothingUnfinished' = NothingUnfinished
  BY <1>2 DEF NothingUnfinished
<1>4. BlueprintFits'
  BY <1>1, <1>2 DEF CInv, BlueprintFits, Begun, Course
<1>5. OffersFit' /\ AwaitingRests'
  BY <1>1, <1>2 DEF CInv, OffersFit, Offered, AwaitingRests
<1>6. DeliveriesFit'
  BY <1>1, <1>2 DEF CInv, DeliveriesFit, DeliveryBegan, At
<1>7. NeverRejected => WorkerInPlace' /\ Drawn'
  BY <1>1, <1>2, <1>3 DEF CInv, WorkerInPlace, WorksIn, Drawn, Quiet, At
<1>8. Judging => Judged'
  BY <1>1, <1>2 DEF CInv, Judged, Bounded
<1>. QED BY <1>4, <1>5, <1>6, <1>7, <1>8 DEF CInv

\* The worker that delivers is done, in the round.
LEMMA DeliveredHolds ==
  ASSUME IInv, IInv', CInv, At("delivery"), Idle, run'.round = run.round,
         run'.attempt = run.attempt, run'.automation = run.automation, issues' = issues,
         Phase(run') \in {Phase(run), "FAILED"} \/
           (Phase(run) = "DELIVERING" /\ Phase(run') = "COMPLETED"),
         Phase(run') = "FAILED" \/ run'.disposition = run.disposition,
         NEW st, steps' = [steps EXCEPT !.delivery[worker.round] = st]
  PROVE  CInv'
<1>1. /\ steps \in StepRows /\ run.round \in Nat /\ worker.round \in Rounds
      /\ worker.round \in Nat /\ worker.round <= run.round
  BY LifecycleAssumption DEF IInv, RowsTyped, RunRow, WorkerRow, WorkerFits, Rounds
<1>2. /\ steps'.planning = steps.planning /\ steps'.plan = steps.plan
      /\ steps'.apply = steps.apply /\ steps'.image = steps.image /\ steps'.deck = steps.deck
      /\ \A q \in Rounds : q # worker.round => steps'.delivery[q] = steps.delivery[q]
  BY <1>1, DeliveryWrites
<1>3. NothingUnfinished' = NothingUnfinished /\ At("idle")' /\ ~At("delivery")'
  BY <1>2 DEF NothingUnfinished, Idle, Resting, At
<1>4. BlueprintFits'
  BY <1>2 DEF CInv, BlueprintFits, Begun, At
<1>5. OffersFit' /\ AwaitingRests'
  BY <1>2, <1>3 DEF CInv, OffersFit, Offered, AwaitingRests, At
<1>6. DeliveriesFit'
  <2>1. \A q \in Rounds : q > run'.round => steps'.delivery[q] = "NONE"
    BY <1>1, <1>2 DEF CInv, DeliveriesFit, Rounds
  <2>2. DeliveryBegan' => DeliveryBegan
    BY <1>1, <1>2, <1>3 DEF DeliveryBegan, IInv, RowsTyped, RunRow
  <2>. QED BY <1>3, <2>1, <2>2 DEF CInv, DeliveriesFit
<1>7. ASSUME NeverRejected PROVE WorkerInPlace' /\ Drawn'
  <2>1. Phase(run) \in {"DELIVERING", "CANCELLED"} /\ Drawn
    BY <1>7 DEF CInv, WorkerInPlace, WorksIn, At
  <2>. QED BY <1>2, <1>3, <2>1 DEF WorkerInPlace, Drawn, Quiet, At
<1>8. ASSUME Judging, Phase(run') \in {"DELIVERING", "COMPLETED"} PROVE Judged'
  BY <1>2, <1>8 DEF CInv, Judged, Bounded
<1>. QED BY <1>4, <1>5, <1>6, <1>7, <1>8 DEF CInv

LEMMA DeliveryCompletesHolds == ASSUME IInv, CInv, DeliveryCompletes PROVE CInv'
<1>1. run \in RunRow /\ run.status # "RECOVERING" /\ At("delivery") /\ IInv'
  BY WorkingIsNotRecovering, DeliveryCompletesStep DEF DeliveryCompletes, At, IInv, RowsTyped
<1>2. CASE Throw
  BY <1>1, <1>2, ThrowHolds
<1>3. CASE ~Throw
  <2>1. /\ run' = [To(run, "COMPLETED") EXCEPT !.finalization = Queue(@)]
        /\ steps' = [steps EXCEPT !.delivery[worker.round] = "COMPLETED"]
        /\ Idle /\ issues' = issues /\ CanTransition(run, "COMPLETED")
    BY <1>3 DEF DeliveryCompletes
  <2>2. /\ run'.round = run.round /\ run'.attempt = run.attempt
        /\ run'.automation = run.automation /\ run'.disposition = run.disposition
        /\ run'.status = "COMPLETED"
    BY <1>1, <2>1 DEF To, RunRow
  <2>3. run.status = "DELIVERING"
    BY <1>1, <2>1 DEF CanTransition, Transitions, RunRow, Statuses, PausableStates,
       RecoverableStates, Ending
  <2>. QED BY <1>1, <2>1, <2>2, <2>3, DeliveredHolds DEF Phase
<1>. QED BY <1>2, <1>3

LEMMA DeliveryFailsHolds == ASSUME IInv, CInv, DeliveryFails PROVE CInv'
<1>1. run \in RunRow /\ At("delivery") /\ IInv' /\ Idle /\ issues' = issues
  BY DeliveryFailsStep DEF DeliveryFails, IInv, RowsTyped
<1>2. Falls(run, run')
  BY RecoversOrStays DEF DeliveryFails
<1>3. /\ PhaseKept(run, run') /\ run'.automation = run.automation
      /\ run'.disposition = run.disposition \/ Phase(run') = "FAILED"
  BY <1>1, <1>2, FallsKeepPhase
<1>. QED BY <1>1, <1>3, DeliveredHolds DEF DeliveryFails, PhaseKept

\* The row moves within its phase, or fails in it, and nothing else happens.
LEMMA RowHolds ==
  ASSUME IInv, IInv', CInv, PhaseKept(run, run'), UNCHANGED <<steps, issues>>,
         worker' = worker \/ Idle,
         Phase(run') = "FAILED" \/ (run'.disposition = run.disposition
                                    /\ run'.automation = run.automation)
  PROVE  CInv'
  BY PhaseHolds DEF RowsStand, JudgedKept, Idle

LEMMA FinishFailureHolds == ASSUME IInv, CInv, FinishFailure PROVE CInv'
<1>1. /\ run \in RunRow /\ RunFits(run) /\ run.status = "RECOVERING" /\ run.pending # "NONE"
      /\ run' = CompleteFailure(run, run.pending) /\ IInv' /\ UNCHANGED <<steps, issues, worker>>
  BY FinishFailureStep DEF FinishFailure, Reconcile, Tick, IInv, RowsTyped
<1>2. run'.status = "FAILED" /\ run'.round = run.round /\ run'.attempt = run.attempt
  BY <1>1 DEF CompleteFailure, To, RunRow
<1>3. Phase(run) \in RecoverableStates
  BY <1>1 DEF Phase, RunFits, RunRow, Recoveries
<1>4. Phase(run') = "FAILED"
  BY <1>2 DEF Phase
<1>. QED BY <1>1, <1>2, <1>3, <1>4, RowHolds DEF PhaseKept

LEMMA ResumePhaseHolds == ASSUME IInv, CInv, ResumePhase PROVE CInv'
<1>1. /\ run \in RunRow /\ RunFits(run) /\ run.status = "RECOVERING" /\ IInv'
      /\ run.recovery.phase \in RecoverableStates
      /\ run' = [To(run, run.recovery.phase) EXCEPT !.recovery.active = FALSE]
      /\ UNCHANGED <<steps, issues, worker>>
  BY ResumePhaseStep
     DEF ResumePhase, ResumeRecovery, Tick, IInv, RowsTyped, RunRow, RunFits, Recoveries
<1>2. /\ run'.status = run.recovery.phase /\ run'.round = run.round
      /\ run'.attempt = run.attempt /\ run'.disposition = run.disposition
      /\ run'.automation = run.automation
  BY <1>1 DEF To, RunRow
<1>3. Phase(run') = Phase(run)
  BY <1>1, <1>2 DEF Phase, RecoverableStates
<1>. QED BY <1>1, <1>2, <1>3, RowHolds DEF PhaseKept

LEMMA FinalizeHolds == ASSUME IInv, CInv, Finalize PROVE CInv'
<1>1. /\ run \in RunRow /\ IInv' /\ run' = [run EXCEPT !.finalization = "DONE"]
      /\ UNCHANGED <<steps, issues, worker>>
  BY FinalizeStep DEF Finalize, IInv, RowsTyped
<1>2. /\ run'.status = run.status /\ run'.resume = run.resume /\ run'.recovery = run.recovery
      /\ run'.round = run.round /\ run'.attempt = run.attempt
      /\ run'.disposition = run.disposition /\ run'.automation = run.automation
  BY <1>1 DEF RunRow
<1>. QED BY <1>1, <1>2, RowHolds DEF PhaseKept, Phase

-----------------------------------------------------------------------------
(* The users. *)

\* A transition of a user, and what it leaves of the row.
LEMMA UserRow ==
  ASSUME NEW r \in RunRow, NEW to \in Statuses \ {"PAUSED", "RECOVERING"}
  PROVE  /\ To(r, to).round = r.round /\ To(r, to).attempt = r.attempt
         /\ To(r, to).disposition = r.disposition /\ To(r, to).automation = r.automation
         /\ To(r, to).status = to /\ Phase(To(r, to)) = to
<1>1. To(r, to) \in RunRow /\ To(r, to) = [r EXCEPT !.status = to, !.resume = "NONE"]
  BY ToMoves
<1>. QED BY <1>1 DEF RunRow, Phase

\* A person has the Run, and nobody works on it.
LEMMA PersonHasIt ==
  ASSUME IInv, CInv, NeverRejected, Phase(run) \in {"NEEDS_HUMAN", "AWAITING_REVISION_APPROVAL"}
  PROVE  At("idle") /\ NothingUnfinished
  BY DEF CInv, WorkerInPlace, WorksIn, Drawn, Quiet, At, IInv, RowsTyped, WorkerRow

\* A planning that failed is planned again, and nothing was drawn yet.
LEMMA PlansAgainHolds ==
  ASSUME IInv, IInv', CInv, run.status = "NEEDS_HUMAN", steps.planning[run.attempt] = "FAILED",
         run'.round = run.round, run'.attempt \in {run.attempt, run.attempt + 1},
         Phase(run') = "PLANNING", UNCHANGED <<steps, issues, worker>>
  PROVE  CInv'
<1>1. ~Begun /\ Phase(run) = "NEEDS_HUMAN"
  BY DEF CInv, BlueprintFits, Phase
<1>2. ~At("planning") /\ At("idle") /\ NothingUnfinished /\ run.attempt \in Nat
  BY <1>1, LifecycleAssumption DEF Begun, IInv, WorkerFits, RowsTyped, RunRow, Attempts
<1>3. NothingUnfinished' = NothingUnfinished /\ At("idle")'
  BY <1>2 DEF NothingUnfinished, At
<1>4. ~Begun'
  BY <1>1, <1>3 DEF Begun, Course, At
<1>5. \A b \in Attempts : b < run'.attempt => steps'.planning[b] # "COMPLETED"
  BY <1>2, LifecycleAssumption DEF CInv, BlueprintFits, Attempts
<1>6. BlueprintFits'
  BY <1>4, <1>5 DEF BlueprintFits
<1>7. OffersFit' /\ AwaitingRests'
  BY <1>1 DEF Begun, OffersFit, Offered, AwaitingRests
<1>8. DeliveriesFit'
  BY <1>1, <1>3, LifecycleAssumption
     DEF CInv, DeliveriesFit, DeliveryBegan, Begun, At, IInv, RowsTyped, RunRow
<1>9. WorkerInPlace' /\ Drawn'
  BY <1>2, <1>3 DEF WorkerInPlace, Drawn, Quiet, At
<1>. QED BY <1>6, <1>7, <1>8, <1>9 DEF CInv

LEMMA RetryPlanningHolds == ASSUME IInv, CInv, RetryPlanning PROVE CInv'
<1>1. run \in RunRow /\ IInv'
  BY RetryPlanningStep DEF IInv, RowsTyped
<1>. QED BY <1>1, UserRow, PlansAgainHolds DEF RetryPlanning, Statuses

LEMMA ReplanHolds == ASSUME IInv, CInv, Replan PROVE CInv'
<1>1. run \in RunRow /\ IInv'
  BY ReplanStep DEF IInv, RowsTyped
<1>2. run'.round = run.round /\ run'.attempt = run.attempt + 1 /\ Phase(run') = "PLANNING"
  BY <1>1 DEF Replan, To, RunRow, Phase
<1>. QED BY <1>1, <1>2, PlansAgainHolds DEF Replan

\* What a user does whom the worker does not see, when no plan is offered.
LEMMA MovedHolds ==
  ASSUME IInv, IInv', CInv, run'.round = run.round, run'.attempt = run.attempt,
         worker' = worker, steps' = steps, NEW to, Phase(run') = to,
         to \in {"PLANNING", "EXECUTING", "DECK_REVIEW", "DELIVERING"},
         Begun \/ to = "PLANNING", to # "PLANNING" => steps.planning[run.attempt] = "COMPLETED",
         NeverRejected \/ NeverOverridden => \A q \in 1..MaxRounds : ~Offered(q),
         NeverSentBack /\ DeliveryBegan => to = "DELIVERING",
         NeverRejected => WorkerInPlace' /\ Drawn',
         Judging => (Phase(run') \in {"DELIVERING", "COMPLETED"} => Judged')
  PROVE  CInv'
<1>1. NothingUnfinished' = NothingUnfinished
  BY DEF NothingUnfinished
<1>2. BlueprintFits'
  BY <1>1 DEF CInv, BlueprintFits, Begun, Course, At
<1>3. OffersFit' /\ AwaitingRests'
  BY DEF OffersFit, Offered, AwaitingRests
<1>4. DeliveriesFit'
  BY DEF CInv, DeliveriesFit, DeliveryBegan, At
<1>. QED BY <1>2, <1>3, <1>4 DEF CInv

LEMMA ApproveBlueprintHolds == ASSUME IInv, CInv, ApproveBlueprint PROVE CInv'
<1>1. /\ run \in RunRow /\ IInv' /\ run' = To(run, "EXECUTING")
      /\ UNCHANGED <<steps, issues, worker>>
      /\ CanTransition(run, "EXECUTING") /\ steps.planning[run.attempt] = "COMPLETED"
      /\ ~NeverSentBack /\ RunFits(run)
  BY ApproveBlueprintStep DEF ApproveBlueprint, NeverSentBack, IInv, RowsTyped
<1>2. run'.round = run.round /\ run'.attempt = run.attempt /\ Phase(run') = "EXECUTING"
  BY <1>1, UserRow DEF Statuses
<1>3. \/ run.status \in {"PLANNING", "AWAITING_BLUEPRINT_APPROVAL", "REVISING", "RECOVERING"}
      \/ run.status = "PAUSED" /\ run.resume = "EXECUTING"
  BY <1>1 DEF CanTransition, Transitions, RunRow, Statuses, RecoverableStates, Ending
<1>4. Phase(run) \notin {"AWAITING_REVISION_APPROVAL", "CANCELLED", "NEEDS_HUMAN"}
  BY <1>1, <1>3 DEF Phase, RunFits, RunRow, Recoveries, RecoverableStates
<1>5. NeverRejected \/ NeverOverridden => \A q \in 1..MaxRounds : ~Offered(q)
  BY <1>4 DEF CInv, OffersFit
<1>6. NothingUnfinished' = NothingUnfinished
  BY <1>1 DEF NothingUnfinished
<1>7. ASSUME NeverRejected PROVE WorkerInPlace' /\ Drawn'
  <2>1. At("idle") \/ At("media") \/ At("apply")
    <3>1. run.status = "RECOVERING" => At("idle")
      BY DEF IInv, WorkerFits
    <3>2. ~At("planning")
      BY <1>1 DEF IInv, WorkerFits
    <3>. QED BY <1>1, <1>3, <1>7, <3>1, <3>2
         DEF CInv, WorkerInPlace, WorksIn, Phase, At, IInv, RowsTyped, WorkerRow
  <2>. QED BY <1>1, <1>2, <1>6, <1>7, <2>1 DEF CInv, WorkerInPlace, WorksIn, Drawn, Quiet, At
<1>8. BlueprintFits'
  BY <1>1, <1>2 DEF CInv, BlueprintFits
<1>9. DeliveriesFit' /\ OffersFit' /\ AwaitingRests'
  BY <1>1, <1>2, <1>5 DEF CInv, DeliveriesFit, OffersFit, Offered, AwaitingRests
<1>. QED BY <1>2, <1>7, <1>8, <1>9 DEF CInv

LEMMA RequestBlueprintRevisionHolds ==
  ASSUME IInv, CInv, RequestBlueprintRevision PROVE CInv'
<1>1. /\ run \in RunRow /\ IInv' /\ run' = To(run, "PLANNING")
      /\ UNCHANGED <<steps, issues, worker>>
      /\ CanTransition(run, "PLANNING") /\ ~NeverSentBack /\ RunFits(run)
  BY RequestBlueprintRevisionStep
     DEF RequestBlueprintRevision, NeverSentBack, IInv, RowsTyped
<1>2. run'.round = run.round /\ run'.attempt = run.attempt /\ Phase(run') = "PLANNING"
  BY <1>1, UserRow DEF Statuses
<1>3. run.status \in {"AWAITING_BLUEPRINT_APPROVAL", "NEEDS_HUMAN", "RECOVERING"}
  BY <1>1 DEF CanTransition, Transitions, RunRow, Statuses, RecoverableStates, Ending,
     PausableStates
<1>4. Phase(run) \notin {"AWAITING_REVISION_APPROVAL", "CANCELLED"}
  BY <1>1, <1>3 DEF Phase, RunFits, RunRow, Recoveries, RecoverableStates
<1>5. NeverRejected => \A q \in 1..MaxRounds : ~Offered(q)
  BY <1>4 DEF CInv, OffersFit
<1>6. NeverRejected => At("idle")
  BY <1>3 DEF IInv, WorkerFits, CInv, WorkerInPlace, WorksIn, Phase, At, RowsTyped, WorkerRow
<1>7. NeverRejected => WorkerInPlace' /\ Drawn'
  BY <1>1, <1>2, <1>6 DEF WorkerInPlace, Drawn, Quiet, At
<1>8. NothingUnfinished' = NothingUnfinished
  BY <1>1 DEF NothingUnfinished
<1>. QED BY <1>1, <1>2, <1>5, <1>7, <1>8, MovedHolds DEF NeverOverridden

LEMMA PauseHolds == ASSUME IInv, CInv, Pause PROVE CInv'
  BY PauseStep, PauseKeepsPhase, RowHolds DEF Pause, IInv, RowsTyped

LEMMA ResumeHolds == ASSUME IInv, CInv, Resume PROVE CInv'
<1>1. /\ run \in RunRow /\ run.status = "PAUSED" /\ run.resume \in PausableStates /\ IInv'
      /\ run' = To(run, run.resume) /\ UNCHANGED <<steps, issues, worker>>
  BY ResumeStep DEF Resume, IInv, RowsTyped, RunFits, RunRow
<1>2. /\ run'.round = run.round /\ run'.attempt = run.attempt /\ Phase(run') = Phase(run)
      /\ run'.disposition = run.disposition /\ run'.automation = run.automation
  BY <1>1, UserRow DEF PausableStates, Statuses, Phase
<1>. QED BY <1>1, <1>2, RowHolds DEF PhaseKept

LEMMA CancelHolds == ASSUME IInv, CInv, Cancel PROVE CInv'
<1>1. /\ run \in RunRow /\ IInv' /\ UNCHANGED <<steps, issues, worker>>
      /\ run' = [To(run, "CANCELLED") EXCEPT !.finalization = Queue(@)]
  BY CancelStep DEF Cancel, IInv, RowsTyped
<1>2. run'.round = run.round /\ run'.attempt = run.attempt /\ Phase(run') = "CANCELLED"
  BY <1>1 DEF To, RunRow, Phase
<1>3. NothingUnfinished' = NothingUnfinished
  BY <1>1 DEF NothingUnfinished
<1>4. BlueprintFits'
  BY <1>1, <1>2, <1>3 DEF CInv, BlueprintFits, Begun, Course, At
<1>5. OffersFit' /\ AwaitingRests'
  BY <1>1, <1>2 DEF CInv, OffersFit, Offered, AwaitingRests, At
<1>6. DeliveriesFit'
  BY <1>1, <1>2 DEF CInv, DeliveriesFit, DeliveryBegan, At
<1>7. NeverRejected => WorkerInPlace' /\ Drawn'
  BY <1>1, <1>2, <1>3 DEF CInv, WorkerInPlace, WorksIn, Drawn, Quiet, At
<1>. QED BY <1>2, <1>4, <1>5, <1>6, <1>7 DEF CInv

\* A user moves the Run into the next round, whose plan is complete.
LEMMA UserRevisesHolds ==
  ASSUME IInv, IInv', CInv, worker' = worker, run.round + 1 \in 1..MaxRounds,
         run' = [To(run, "REVISING") EXCEPT !.round = run.round + 1],
         steps'.planning = steps.planning, steps'.delivery = steps.delivery,
         steps'.image = steps.image, steps.planning[run.attempt] = "COMPLETED",
         \A q \in 1..MaxRounds : q # run.round + 1 => steps'.plan[q] = steps.plan[q],
         NeverRejected => At("idle") /\ NothingUnfinished
  PROVE  CInv'
<1>1. run \in RunRow /\ run.round \in Nat
  BY LifecycleAssumption DEF IInv, RowsTyped, RunRow, Rounds
<1>2. run'.round = run.round + 1 /\ run'.attempt = run.attempt /\ Phase(run') = "REVISING"
  BY <1>1 DEF To, RunRow, Phase
<1>3. \A q \in 1..MaxRounds : Offered(q)' => steps.plan[q].st = "COMPLETED"
  BY <1>1, <1>2 DEF Offered
<1>4. NeverRejected => At("idle")'
  BY DEF At
<1>. QED BY <1>2, <1>3, <1>4, RoundHolds

LEMMA ApproveRevisionHolds == ASSUME IInv, CInv, ApproveRevision PROVE CInv'
<1>1. /\ run.round + 1 \in 1..MaxRounds /\ run.round \in Nat /\ run \in RunRow /\ IInv'
      /\ UNCHANGED <<steps, issues, worker>> /\ CanTransition(run, "REVISING")
      /\ run' = [To(run, "REVISING") EXCEPT !.round = run.round + 1]
      /\ steps.plan[run.round + 1].st = "COMPLETED" /\ RunFits(run)
  BY LifecycleAssumption, ApproveRevisionStep DEF ApproveRevision, IInv, RowsTyped, RunRow, Rounds
<1>2. steps.planning[run.attempt] = "COMPLETED"
  BY <1>1 DEF CInv, BlueprintFits, Begun
<1>3. Phase(run) # "CANCELLED"
  BY <1>1, PhaseIsStatus DEF CanTransition, Transitions
<1>4. NeverRejected => Phase(run) = "AWAITING_REVISION_APPROVAL"
  BY <1>1, <1>3 DEF CInv, OffersFit, Offered
<1>. QED BY <1>1, <1>2, <1>4, PersonHasIt, UserRevisesHolds

LEMMA RejectRevisionHolds == ASSUME IInv, CInv, RejectRevision PROVE CInv'
<1>1. /\ run \in RunRow /\ IInv' /\ run' = To(run, "NEEDS_HUMAN")
      /\ UNCHANGED <<steps, issues, worker>>
      /\ CanTransition(run, "NEEDS_HUMAN") /\ ~NeverRejected /\ RunFits(run)
  BY RejectRevisionStep DEF RejectRevision, NeverRejected, IInv, RowsTyped
<1>2. run'.round = run.round /\ run'.attempt = run.attempt /\ Phase(run') = "NEEDS_HUMAN"
  BY <1>1, UserRow DEF Statuses
<1>3. Phase(run) \notin {"NEEDS_HUMAN", "CANCELLED"}
  BY <1>1, PhaseIsStatus DEF CanTransition, Transitions
<1>4. NothingUnfinished' = NothingUnfinished
  BY <1>1 DEF NothingUnfinished
<1>5. BlueprintFits'
  BY <1>1, <1>2, <1>4 DEF CInv, BlueprintFits, Begun, Course, At
<1>6. OffersFit'
  <2>1. SUFFICES ASSUME NeverOverridden, NEW q \in 1..MaxRounds, Offered(q)'
                 PROVE  /\ q = run.round + 1 /\ At("idle")
                        /\ steps.planning[run.attempt] = "COMPLETED"
                        /\ steps.delivery[run.round] = "NONE"
    BY <1>1, <1>2 DEF OffersFit, At
  <2>2. Offered(q) /\ q = run.round + 1 /\ At("idle") /\ Phase(run) = "AWAITING_REVISION_APPROVAL"
    BY <1>1, <1>2, <1>3, <2>1 DEF CInv, OffersFit, Offered
  <2>3. steps.planning[run.attempt] = "COMPLETED"
    BY <2>2 DEF CInv, BlueprintFits, Begun, Course
  <2>4. steps.delivery[run.round] = "NONE"
    BY <2>1, <2>2 DEF CInv, DeliveriesFit, DeliveryBegan, NeverOverridden
  <2>. QED BY <2>2, <2>3, <2>4
<1>7. DeliveriesFit' /\ AwaitingRests'
  BY <1>1, <1>2 DEF CInv, DeliveriesFit, DeliveryBegan, AwaitingRests, At
<1>. QED BY <1>1, <1>5, <1>6, <1>7 DEF CInv, Judging

LEMMA SubmitLimitedRevisionHolds == ASSUME IInv, CInv, SubmitLimitedRevision PROVE CInv'
<1>. DEFINE q == run.round + 1
            failed == {ImageIssue(r) : r \in {r \in Rounds : steps.image[r] = "FAILED"}}
            plan == [st |-> "COMPLETED", origin |-> "MANUAL", fixes |-> issues \cap failed]
<1>1. /\ run.round \in Nat /\ q \in 1..MaxRounds /\ steps \in StepRows /\ run \in RunRow
      /\ steps' = [steps EXCEPT !.plan[q] = plan] /\ worker' = worker /\ IInv'
      /\ run' = [To(run, "REVISING") EXCEPT !.round = q] /\ run.status = "NEEDS_HUMAN"
  BY LifecycleAssumption, SubmitLimitedRevisionStep
     DEF SubmitLimitedRevision, IInv, RowsTyped, RunRow, Rounds
<1>. HIDE DEF plan
<1>2. /\ steps'.planning = steps.planning /\ steps'.delivery = steps.delivery
      /\ steps'.image = steps.image /\ steps'.plan = [steps.plan EXCEPT ![q] = plan]
  BY <1>1 DEF StepRows
<1>3. \A p \in 1..MaxRounds : p # q => steps'.plan[p] = steps.plan[p]
  BY <1>1, <1>2 DEF StepRows
<1>4. steps.planning[run.attempt] = "COMPLETED"
  <2>1. CASE run.round = 0
    <3>1. steps.planning[0] = "COMPLETED" /\ run.attempt \in Attempts /\ run.attempt \in Nat
      BY <1>1, <2>1, LifecycleAssumption
         DEF SubmitLimitedRevision, ActiveBlueprint, RunRow, Attempts
    <3>2. ~(0 < run.attempt)
      BY <3>1, LifecycleAssumption DEF CInv, BlueprintFits, Attempts
    <3>3. run.attempt = 0
      BY <3>1, <3>2
    <3>. QED BY <3>1, <3>3
  <2>2. CASE run.round >= 1
    BY <2>2 DEF CInv, BlueprintFits, Begun
  <2>. QED BY <1>1, <2>1, <2>2
<1>5. Phase(run) = "NEEDS_HUMAN"
  BY <1>1, PhaseIsStatus
<1>. QED BY <1>1, <1>2, <1>3, <1>4, <1>5, PersonHasIt, UserRevisesHolds

LEMMA AcceptWithOverrideHolds == ASSUME IInv, CInv, AcceptWithOverride PROVE CInv'
<1>1. /\ run \in RunRow /\ IInv' /\ run.status = "NEEDS_HUMAN" /\ ~NeverOverridden
      /\ UNCHANGED <<steps, worker>> /\ issues' = {} /\ ActiveBlueprint(run.attempt)
      /\ run' = [To(run, "DELIVERING") EXCEPT !.disposition = "ADMIN_OVERRIDE",
                                              !.accepted = TRUE]
  BY AcceptWithOverrideStep DEF AcceptWithOverride, NeverOverridden, IInv, RowsTyped
<1>2. /\ run'.round = run.round /\ run'.attempt = run.attempt
      /\ run'.disposition = "ADMIN_OVERRIDE" /\ Phase(run') = "DELIVERING"
  BY <1>1 DEF To, RunRow, Phase
<1>3. Phase(run) = "NEEDS_HUMAN"
  BY <1>1, PhaseIsStatus
<1>4. steps.planning[run.attempt] = "COMPLETED"
  BY <1>1, LifecycleAssumption DEF ActiveBlueprint, CInv, BlueprintFits, Begun, RunRow, Rounds
<1>5. NeverRejected => \A q \in 1..MaxRounds : ~Offered(q)
  BY <1>3 DEF CInv, OffersFit
<1>6. NothingUnfinished' = NothingUnfinished
  BY <1>1 DEF NothingUnfinished
<1>7. NeverRejected => WorkerInPlace' /\ Drawn'
  BY <1>1, <1>2, <1>3, <1>6, PersonHasIt DEF WorkerInPlace, Drawn, At
<1>8. BlueprintFits'
  BY <1>1, <1>2, <1>4 DEF CInv, BlueprintFits
<1>9. OffersFit' /\ AwaitingRests'
  BY <1>1, <1>2, <1>5 DEF OffersFit, Offered, AwaitingRests
<1>10. DeliveriesFit'
  BY <1>1, <1>2 DEF CInv, DeliveriesFit, DeliveryBegan, At
<1>11. Judged'
  BY <1>1, <1>2 DEF Judged
<1>. QED BY <1>7, <1>8, <1>9, <1>10, <1>11 DEF CInv

LEMMA RetryDeliveryHolds == ASSUME IInv, CInv, RetryDelivery PROVE CInv'
<1>1. /\ run \in RunRow /\ IInv' /\ run.status = "NEEDS_HUMAN" /\ run.round \in Rounds
      /\ UNCHANGED <<steps, issues, worker>> /\ run' = To(run, "DELIVERING")
      /\ steps.delivery[run.round] = "FAILED" /\ "RETRY_DELIVERY" \in UserActions
  BY RetryDeliveryStep DEF RetryDelivery, IInv, RowsTyped, RunRow
<1>2. run'.round = run.round /\ run'.attempt = run.attempt /\ Phase(run') = "DELIVERING"
  BY <1>1, UserRow DEF Statuses
<1>3. Phase(run) = "NEEDS_HUMAN" /\ DeliveryBegan
  BY <1>1, PhaseIsStatus DEF DeliveryBegan
<1>4. Begun /\ steps.planning[run.attempt] = "COMPLETED"
  BY <1>1 DEF CInv, BlueprintFits, Begun
<1>5. NeverRejected \/ NeverOverridden => \A q \in 1..MaxRounds : ~Offered(q)
  BY <1>1, <1>3 DEF CInv, OffersFit
<1>6. NothingUnfinished' = NothingUnfinished
  BY <1>1 DEF NothingUnfinished
<1>7. NeverRejected => WorkerInPlace' /\ Drawn'
  BY <1>1, <1>2, <1>3, <1>6, PersonHasIt DEF WorkerInPlace, Drawn, At
<1>8. ~Judging
  BY <1>1, <1>3 DEF Judging, CInv, DeliveriesFit
<1>. QED BY <1>1, <1>2, <1>4, <1>5, <1>7, <1>8, MovedHolds

LEMMA ReopenFailureHolds == ASSUME IInv, CInv, ReopenFailure PROVE CInv'
<1>1. /\ run \in RunRow /\ IInv' /\ run.status = "FAILED" /\ At("idle") /\ run.settled
      /\ UNCHANGED <<steps, issues, worker>> /\ ActiveBlueprint(run.attempt)
      /\ run' = [run EXCEPT !.status = "DECK_REVIEW", !.resume = "NONE", !.failed = "NONE",
                            !.disposition = "PENDING"]
      /\ \A r \in Rounds : steps.delivery[r] = "NONE"
  BY ReopenFailureStep
     DEF ReopenFailure, ReopenQualityFailure, IInv, RowsTyped, WorkerFits
<1>2. run'.round = run.round /\ run'.attempt = run.attempt /\ Phase(run') = "DECK_REVIEW"
  BY <1>1 DEF RunRow, Phase
<1>3. Phase(run) = "FAILED" /\ NothingUnfinished
  BY <1>1, PhaseIsStatus DEF IInv, AccountsFit
<1>4. steps.planning[run.attempt] = "COMPLETED"
  BY <1>1, LifecycleAssumption DEF ActiveBlueprint, CInv, BlueprintFits, Begun, RunRow, Rounds
<1>5. NeverRejected \/ NeverOverridden => \A q \in 1..MaxRounds : ~Offered(q)
  BY <1>1, <1>3 DEF CInv, OffersFit
<1>6. NothingUnfinished' /\ At("idle")'
  BY <1>1, <1>3 DEF NothingUnfinished, At
<1>7. WorkerInPlace' /\ Drawn'
  BY <1>2, <1>6 DEF WorkerInPlace, Drawn, At
<1>8. BlueprintFits'
  BY <1>1, <1>2, <1>4 DEF CInv, BlueprintFits
<1>9. OffersFit' /\ AwaitingRests'
  BY <1>1, <1>2, <1>5 DEF OffersFit, Offered, AwaitingRests
<1>10. DeliveriesFit'
  BY <1>1, <1>2, <1>6 DEF CInv, DeliveriesFit, DeliveryBegan, At, RunRow
<1>. QED BY <1>2, <1>7, <1>8, <1>9, <1>10 DEF CInv

-----------------------------------------------------------------------------
(* The course of the Run, and what it says. *)

LEMMA CrashHolds == ASSUME IInv, CInv, Crash PROVE CInv'
  BY CrashStep, RowHolds DEF Crash, PhaseKept

LEMMA StutterHolds == ASSUME IInv, CInv, UNCHANGED vars PROVE CInv'
  BY StutterStep, RowHolds DEF vars, PhaseKept

LEMMA InitHolds == Init => CInv
<1>. SUFFICES ASSUME Init PROVE CInv
  OBVIOUS
<1>1. run.status = "PLANNING" /\ run.round = 0 /\ run.attempt = 0 /\ worker = Resting
  BY DEF Init
<1>2. /\ steps.planning = [a \in Attempts |-> "NONE"] /\ steps.image = [r \in Rounds |-> "NONE"]
      /\ steps.delivery = [r \in Rounds |-> "NONE"] /\ steps.plan = [r \in 1..MaxRounds |-> NoPlan]
  BY DEF Init
<1>3. At("idle") /\ Phase(run) = "PLANNING" /\ NothingUnfinished
  BY <1>1, <1>2 DEF Resting, At, Phase, NothingUnfinished, Unfinished
<1>4. (\A r \in Rounds : steps.delivery[r] = "NONE") /\ 0 \in Rounds
  BY <1>2, LifecycleAssumption DEF Rounds
<1>5. \A q \in 1..MaxRounds : steps.plan[q].st # "COMPLETED"
  BY <1>2 DEF NoPlan
<1>6. ~Begun
  BY <1>1, <1>3, <1>4, <1>5 DEF Begun, Course
<1>7. BlueprintFits
  BY <1>1, <1>2, <1>6 DEF BlueprintFits
<1>8. OffersFit /\ AwaitingRests
  BY <1>3, <1>5 DEF OffersFit, Offered, AwaitingRests
<1>9. DeliveriesFit
  BY <1>1, <1>3, <1>4 DEF DeliveriesFit, DeliveryBegan, At
<1>10. WorkerInPlace /\ Drawn
  BY <1>3 DEF WorkerInPlace, Drawn, At
<1>. QED BY <1>3, <1>7, <1>8, <1>9, <1>10 DEF CInv

LEMMA NextHolds == IInv /\ CInv /\ [Next]_vars => CInv'
<1>. SUFFICES ASSUME IInv, CInv, [Next]_vars PROVE CInv'
  OBVIOUS
<1>1. CASE Planning
  BY <1>1, SourceOutageHolds, BeginPlanningHolds, StageCompletesHolds, PlanningCompletesHolds,
     PlanningFailsHolds DEF Planning
<1>2. CASE Drawing
  BY <1>2, BeginImageHolds, BudgetShortHolds, SubmitImageHolds, ImageNotSubmittedHolds,
     ImageSubmissionFailsHolds, ImageEditUnavailableHolds, ImageBlockedHolds, AnswerImageHolds,
     SettleAccountingHolds, MoveToPageReviewHolds DEF Drawing
<1>3. CASE Reviewing
  BY <1>3, BeginPageHolds, PageReviewedHolds, PageApprovedHolds, PageReviewFailedHolds,
     RevisePageHolds, RevisionOfPageExhaustedHolds, PageToPersonHolds, DeckInputFailsHolds,
     BeginDeckHolds, ReplayDeckHolds, DeckCompletesHolds, DeckFailsHolds DEF Reviewing
<1>4. CASE Revising
  BY <1>4, ReviewHadPassedHolds, NothingToReviseHolds, ScopeInputFailsHolds,
     BeginRevisionPlanHolds, PlanReplacedHolds, RevisionPlannedHolds, RevisionPlanFailsHolds,
     ApplicationInputFailsHolds, BeginApplicationHolds, ApplicationCompletesHolds,
     ApplicationFailsHolds DEF Revising
<1>5. CASE Delivering
  BY <1>5, BeginDeliveryHolds, DeliveryCompletesHolds, DeliveryFailsHolds, FinishFailureHolds,
     ResumePhaseHolds, FinalizeHolds DEF Delivering
<1>6. CASE Users
  BY <1>6, RetryPlanningHolds, ReplanHolds, ApproveBlueprintHolds,
     RequestBlueprintRevisionHolds, PauseHolds, ResumeHolds, CancelHolds, ApproveRevisionHolds,
     RejectRevisionHolds, SubmitLimitedRevisionHolds, AcceptWithOverrideHolds,
     RetryDeliveryHolds, ReopenFailureHolds DEF Users
<1>7. CASE Crash
  BY <1>7, CrashHolds
<1>8. CASE UNCHANGED vars
  BY <1>8, StutterHolds
<1>. QED BY <1>1, <1>2, <1>3, <1>4, <1>5, <1>6, <1>7, <1>8 DEF Next

LEMMA CourseInductive == Spec => [](IInv /\ CInv)
<1>1. Init => IInv /\ CInv
  BY InitFits, InitHolds
<1>2. (IInv /\ CInv) /\ [Next]_vars => (IInv /\ CInv)'
  BY NextKeeps, NextHolds
<1>. QED BY <1>1, <1>2, PTL DEF Spec

-----------------------------------------------------------------------------
(* Hard issues. *)

\* An issue is closed as HardIssuesOnlyRepaired has it.
Closed(i) ==
  \/ run.status = "NEEDS_HUMAN" /\ run'.disposition = "ADMIN_OVERRIDE"
  \/ i.of = "planning" /\ run'.status = "EXECUTING"
  \/ i.of = "image" /\ steps'.image[i.n] = "COMPLETED"
  \/ \E q \in 1..run.round : steps.plan[q].st = "COMPLETED" /\ i \in steps.plan[q].fixes

NotWaived == \A i \in issues \ issues' : i.level = "HARD" => Closed(i)

LEMMA KeptIsNotWaived == ASSUME issues \subseteq issues' PROVE NotWaived
  BY DEF NotWaived

\* What the policy does not block on is not hard.
LEMMA AcceptedIsNotHard ==
  ASSUME NEW open, BlockingOf(open) = {}
  PROVE  \A i \in open : i.level # "HARD"
  BY DEF BlockingOf

LEMMA AcceptOrFailNotWaived == ASSUME NEW code, AcceptOrFail(code) PROVE NotWaived
  BY AcceptedIsNotHard DEF AcceptOrFail, CanAccept, NotWaived

LEMMA PlanningCompletesNotWaived == ASSUME IInv, PlanningCompletes PROVE NotWaived
<1>1. CASE Throw
  BY <1>1, KeptIsNotWaived DEF Throw
<1>2. CASE ~Throw
  <2>1. /\ run' = To(run, "EXECUTING") /\ run \in RunRow
        /\ \A i \in issues \ issues' : \E b \in Attempts : i = PlanningIssue(b)
    BY <1>2 DEF PlanningCompletes, IInv, RowsTyped, RunRow
  <2>2. run'.status = "EXECUTING"
    BY <2>1, UserRow DEF Statuses
  <2>. QED BY <2>1, <2>2 DEF NotWaived, Closed, PlanningIssue
<1>. QED BY <1>1, <1>2

LEMMA AnswerImageNotWaived == ASSUME IInv, AnswerImage PROVE NotWaived
<1>1. PICK r \in Rounds :
        \/ steps' = [steps EXCEPT !.image[r] = "COMPLETED"] /\ issues' = issues \ {ImageIssue(r)}
        \/ issues \subseteq issues'
  BY DEF AnswerImage
<1>2. CASE issues \subseteq issues'
  BY <1>2, KeptIsNotWaived
<1>3. CASE steps' = [steps EXCEPT !.image[r] = "COMPLETED"] /\ issues' = issues \ {ImageIssue(r)}
  <2>1. steps'.image[r] = "COMPLETED"
    BY <1>3 DEF IInv, RowsTyped, StepRows
  <2>. QED BY <1>3, <2>1 DEF NotWaived, Closed, ImageIssue
<1>. QED BY <1>1, <1>2, <1>3

\* The plans a review of the page finds complete are of rounds that were reached.
LEMMA PageApprovedNotWaived ==
  ASSUME IInv, CInv, NeverRejected \/ NeverOverridden, PageApproved
  PROVE  NotWaived
<1>1. ~At("idle") /\ run.round \in Nat
  BY LifecycleAssumption DEF PageApproved, At, IInv, RowsTyped, RunRow, Rounds
<1>2. \A q \in 1..MaxRounds : steps.plan[q].st = "COMPLETED" => q \in 1..run.round
  BY <1>1, LifecycleAssumption DEF CInv, OffersFit, Offered
<1>3. \A i \in issues \ issues' :
        \E q \in 1..MaxRounds : steps.plan[q].st = "COMPLETED" /\ i \in steps.plan[q].fixes
  BY DEF PageApproved
<1>. QED BY <1>2, <1>3 DEF NotWaived, Closed

LEMMA ReplayDeckNotWaived == ASSUME ReplayDeck PROVE NotWaived
<1>1. BlockingOf(issues) = {} \/ issues' = issues
  BY DEF ReplayDeck
<1>. QED BY <1>1, AcceptedIsNotHard DEF NotWaived

LEMMA DeckCompletesNotWaived == ASSUME IInv, DeckCompletes PROVE NotWaived
<1>. DEFINE redrawn == {q \in 1..MaxRounds :
                            /\ q <= worker.round /\ steps.plan[q].st = "COMPLETED"
                            /\ steps.apply[q] = "COMPLETED" /\ q \in steps.repaired}
            fixed == UNION {steps.plan[q].fixes : q \in redrawn}
            Open(found) == (issues \ fixed) \cup DeckIssues(worker.round, found)
<1>1. CASE Throw
  BY <1>1, KeptIsNotWaived DEF Throw
<1>2. CASE ~Throw
  <2>1. PICK found \in SUBSET Levels :
          \/ issues' = Open(found)
          \/ Open(found) = {}
          \/ BlockingOf(Open(found)) = {}
    BY ONLY <1>2, DeckCompletes, ZenonT(60) DEF DeckCompletes
  <2>2. \A i \in issues \ issues' : i.level = "HARD" => i \in fixed
    BY <2>1, AcceptedIsNotHard
  <2>3. \A q \in redrawn : q \in 1..run.round /\ steps.plan[q].st = "COMPLETED"
    BY LifecycleAssumption DEF IInv, WorkerFits, RowsTyped, RunRow, WorkerRow, Rounds
  <2>4. \A i \in fixed : \E q \in redrawn : i \in steps.plan[q].fixes
    OBVIOUS
  <2>. HIDE DEF redrawn, fixed
  <2>. QED BY <2>2, <2>3, <2>4 DEF NotWaived, Closed
<1>. QED BY <1>1, <1>2

LEMMA AcceptWithOverrideNotWaived == ASSUME IInv, AcceptWithOverride PROVE NotWaived
<1>1. run'.disposition = "ADMIN_OVERRIDE" /\ run.status = "NEEDS_HUMAN"
  BY DEF AcceptWithOverride, To, IInv, RowsTyped, RunRow
<1>. QED BY <1>1 DEF NotWaived, Closed

LEMMA NextNotWaived ==
  ASSUME NeverRejected \/ NeverOverridden
  PROVE  IInv /\ CInv /\ [Next]_vars => [NotWaived]_vars
<1>. SUFFICES ASSUME IInv, CInv, Next PROVE NotWaived
  OBVIOUS
<1>1. CASE Planning
  BY <1>1, PlanningCompletesNotWaived, KeptIsNotWaived
     DEF Planning, SourceOutage, BeginPlanning, StageCompletes, PlanningFails, Throw
<1>2. CASE Drawing
  BY <1>2, AnswerImageNotWaived, KeptIsNotWaived
     DEF Drawing, BeginImage, BudgetShort, MoveOrThrow, Throw, SubmitImage, ImageNotSubmitted,
         ImageSubmissionFails, ImageEditUnavailable, ImageBlocked, SettleAccounting,
         MoveToPageReview
<1>3. CASE Reviewing
  <2>1. PageReviewed => issues \subseteq issues'
    BY DEF PageReviewed
  <2>2. BeginPage \/ PageReviewFailed \/ RevisePage \/ RevisionOfPageExhausted \/ PageToPerson
          => issues' = issues
    BY DEF BeginPage, PageReviewFailed, RevisePage, RevisionOfPageExhausted, PageToPerson,
           MoveOrThrow, Throw
  <2>3. DeckInputFails \/ BeginDeck \/ DeckFails => issues' = issues
    BY DEF DeckInputFails, BeginDeck, DeckFails, Throw
  <2>. QED BY <1>3, <2>1, <2>2, <2>3, PageApprovedNotWaived, ReplayDeckNotWaived,
          DeckCompletesNotWaived, KeptIsNotWaived DEF Reviewing
<1>4. CASE Revising
  <2>1. ReviewHadPassed \/ ScopeInputFails \/ BeginRevisionPlan \/ PlanReplaced \/ RevisionPlanned
          => issues' = issues
    BY DEF ReviewHadPassed, ScopeInputFails, BeginRevisionPlan, PlanReplaced, RevisionPlanned,
           MoveOrThrow, Throw
  <2>2. ApplicationInputFails \/ BeginApplication \/ ApplicationCompletes \/ ApplicationFails
          => issues' = issues
    BY DEF ApplicationInputFails, BeginApplication, ApplicationCompletes, ApplicationFails, Throw
  <2>3. NothingToRevise => NotWaived
    BY AcceptOrFailNotWaived, KeptIsNotWaived DEF NothingToRevise, MoveOrThrow, Throw
  <2>4. RevisionPlanFails => NotWaived
    BY AcceptOrFailNotWaived, KeptIsNotWaived DEF RevisionPlanFails
  <2>. QED BY <1>4, <2>1, <2>2, <2>3, <2>4, KeptIsNotWaived DEF Revising
<1>5. CASE Delivering \/ Crash
  BY <1>5, KeptIsNotWaived
     DEF Delivering, BeginDelivery, DeliveryCompletes, DeliveryFails, FinishFailure, ResumePhase,
         Finalize, Throw, Crash
<1>6. CASE Users
  BY <1>6, AcceptWithOverrideNotWaived, KeptIsNotWaived
     DEF Users, RetryPlanning, Replan, ApproveBlueprint, RequestBlueprintRevision, Pause, Resume,
         Cancel, ApproveRevision, RejectRevision, SubmitLimitedRevision, RetryDelivery,
         ReopenFailure
<1>. QED BY <1>1, <1>2, <1>3, <1>4, <1>5, <1>6 DEF Next

\* The system waives no hard issue, unless users may reject a revision and send
\* the blueprint back or have the deck accepted.
THEOREM HardIssuesAreRepaired ==
  ASSUME NeverRejected \/ NeverOverridden
  PROVE  Spec => HardIssuesOnlyRepaired
<1>1. [][NotWaived]_vars => HardIssuesOnlyRepaired
  <2>1. NotWaived <=>
          \A i \in issues \ issues' : i.level = "HARD" =>
             \/ run.status = "NEEDS_HUMAN" /\ run'.disposition = "ADMIN_OVERRIDE"
             \/ i.of = "planning" /\ run'.status = "EXECUTING"
             \/ i.of = "image" /\ steps'.image[i.n] = "COMPLETED"
             \/ \E q \in 1..run.round : steps.plan[q].st = "COMPLETED" /\ i \in steps.plan[q].fixes
    BY DEF NotWaived, Closed
  <2>. QED BY <2>1, PTL DEF HardIssuesOnlyRepaired
<1>. QED BY <1>1, CourseInductive, NextNotWaived, PTL DEF Spec

-----------------------------------------------------------------------------
(* Recoveries, pauses and ends. *)

Suspended == TerminalStates \cup {"PAUSED", "RECOVERING"}

\* What is suspended is left where it is.
Waits == run.status \in Suspended => run'.status = run.status

LEMMA FallWaits == ASSUME IInv, Falls(run, run') PROVE Waits
  BY DEF Falls, Suspends, Waits, Suspended, TerminalStates, RecoverableStates

LEMMA ThrowWaits == ASSUME IInv, Throw, ~At("idle") \/ run.status # "RECOVERING" PROVE Waits
  BY FatalFalls, FallWaits, WorkingIsNotRecovering DEF Throw

\* A transition is refused where it would take the Run out of what suspends it.
LEMMA RefusedWhileSuspended ==
  ASSUME IInv, run.status \in Suspended \ {"RECOVERING"}
  PROVE  \A to \in {"EXECUTING", "PAGE_REVIEW", "DECK_REVIEW", "REVISING", "PAUSED", "NEEDS_HUMAN",
                    "DELIVERING", "COMPLETED", "AWAITING_REVISION_APPROVAL"} :
            CanTransition(run, to) => run.status = "PAUSED" /\ run.resume = to
  BY DEF CanTransition, Transitions, Suspended, TerminalStates

LEMMA MoveWaits ==
  ASSUME IInv, NEW to \in {"PAUSED", "NEEDS_HUMAN", "DELIVERING", "COMPLETED"}, MoveOrThrow(to),
         ~At("idle")
  PROVE  Waits
<1>1. run.status # "RECOVERING" /\ run \in RunRow
  BY WorkingIsNotRecovering DEF IInv, RowsTyped
<1>2. CASE Throw
  BY <1>2, ThrowWaits
<1>3. CASE CanTransition(run, to)
  BY <1>1, <1>3, RefusedWhileSuspended DEF Waits, RunRow, PausableStates
<1>. QED BY <1>2, <1>3 DEF MoveOrThrow

LEMMA RecoverWaits == ASSUME IInv, NEW d, RecoverIfPossible(d) PROVE Waits
  BY DEF RecoverIfPossible, Recoverable, RecoverableStates, Waits, Suspended, TerminalStates

\* The worker moves nothing that is suspended, but by the two steps that end a
\* recovery.
LEMMA WorkerWaits ==
  ASSUME IInv, CInv, Planning \/ Drawing \/ Reviewing \/ Revising
  PROVE  Waits
<1>. SUFFICES ASSUME run.status \in Suspended PROVE run'.status = run.status
  BY DEF Waits
<1>1. /\ run \in RunRow /\ run.status \notin {"PLANNING", "EXECUTING", "REVISING", "PAGE_REVIEW",
                                              "DECK_REVIEW", "DELIVERING"}
      /\ ~InMediaPhase(run) /\ ~Recoverable(run)
  BY DEF IInv, RowsTyped, Suspended, TerminalStates, InMediaPhase, Recoverable, RecoverableStates
<1>2. ~At("idle") => run.status # "RECOVERING"
  BY WorkingIsNotRecovering
<1>3. \A to \in {"EXECUTING", "DECK_REVIEW", "REVISING", "AWAITING_REVISION_APPROVAL",
                 "DELIVERING"} :
         ~At("idle") /\ CanTransition(run, to) => run.status = "PAUSED" /\ run.resume = to
  BY <1>2, RefusedWhileSuspended
<1>4. \A code : Fail(run, code) = run \/ run.status = "RECOVERING"
  BY DEF Fail, IgnoresFailure, Suspended
<1>5. ~At("idle") => Fatal = run
  BY <1>2, <1>4 DEF Fatal
<1>6. CASE Planning
  <2>1. CASE PlanningCompletes
    <3>1. ~CanTransition(run, "EXECUTING") /\ ~At("idle")
      BY <2>1, <1>3 DEF PlanningCompletes, IInv, WorkerFits, On, At
    <3>. QED BY <2>1, <3>1, <1>5 DEF PlanningCompletes, Throw
  <2>2. PlanningFails => ~At("idle")
    BY DEF PlanningFails, At
  <2>. QED BY <1>1, <1>5, <1>6, <2>1, <2>2
       DEF Planning, SourceOutage, BeginPlanning, Tick, StageCompletes, ClearRecovery,
           PlanningFails, Throw
<1>7. CASE Drawing
  <2>1. CASE BudgetShort
    <3>1. ~At("idle")
      BY <2>1 DEF BudgetShort, At
    <3>. QED BY <2>1, <3>1, MoveWaits DEF BudgetShort, Waits
  <2>2. CASE ImageSubmissionFails
    <3>1. PICK reserved \in BOOLEAN, d \in Dispositions :
            LET held == [run EXCEPT !.settled = @ /\ ~reserved]
            IN run' = IF Recoverable(held) THEN BeginRecovery(held, d) ELSE held
      BY <2>2 DEF ImageSubmissionFails
    <3>. DEFINE held == [run EXCEPT !.settled = @ /\ ~reserved]
    <3>2. held.status = run.status
      BY <1>1 DEF RunRow
    <3>. QED BY <1>1, <3>1, <3>2 DEF Recoverable
  <2>3. CASE AnswerImage
    <3>1. run' = run \/ \E d \in Dispositions : RecoverIfPossible(d)
      BY <2>3 DEF AnswerImage
    <3>. QED BY <3>1, RecoverWaits DEF Waits
  <2>4. CASE BeginImage \/ SubmitImage \/ ImageNotSubmitted
    BY <1>1, <2>4 DEF BeginImage, SubmitImage, ImageNotSubmitted, RunRow
  <2>5. CASE ImageEditUnavailable \/ ImageBlocked \/ MoveToPageReview
    BY <1>1, <2>5 DEF ImageEditUnavailable, ImageBlocked, MoveToPageReview, MediaTick
  <2>6. CASE SettleAccounting
    BY <1>1, <2>6 DEF SettleAccounting, RunRow
  <2>. QED BY <1>7, <2>1, <2>2, <2>3, <2>4, <2>5, <2>6 DEF Drawing
<1>8. CASE Reviewing
  <2>1. CASE PageApproved \/ RevisionOfPageExhausted
    <3>1. ~CanTransition(run, "DECK_REVIEW") /\ ~At("idle")
      BY <2>1, <1>3 DEF PageApproved, RevisionOfPageExhausted, PageRejected, IInv,
                       WorkerFits, On, At
    <3>. QED BY <2>1, <3>1, <1>2, <1>4, <1>5 DEF PageApproved, RevisionOfPageExhausted
  <2>2. CASE PageReviewFailed \/ PageToPerson
    <3>1. ~At("idle")
      BY <2>2 DEF PageReviewFailed, PageToPerson, PageRejected, At
    <3>. QED BY <1>1, <2>2, <3>1, MoveWaits DEF PageReviewFailed, PageToPerson, Waits
  <2>3. CASE RevisePage
    <3>1. ~At("idle")
      BY <2>3 DEF RevisePage, PageRejected, At
    <3>. QED BY <1>1, <1>5, <2>3, <3>1 DEF RevisePage, Throw
  <2>4. CASE DeckCompletes
    <3>1. ~At("idle") /\ ~On(run, "DELIVERING")
      BY <1>1, <2>4 DEF DeckCompletes, At, On, RunRow, PausableStates
    <3>2. ~CanTransition(run, "DELIVERING")
      BY <3>1, <1>3 DEF On
    <3>3. CASE Throw
      BY <1>5, <3>1, <3>3 DEF Throw
    <3>4. CASE ~Throw
      <4>. DEFINE pending == [run EXCEPT !.disposition = "PENDING"]
      <4>1. run' = pending \/ \E code \in FailureCodes : run' = Fail(pending, code)
        <5>1. \A c \in {"QUALITY_REMEDIATION_EXHAUSTED", "QUALITY_ISSUE_STATE_INCONSISTENT"} :
                c \in FailureCodes
          BY DEF FailureCodes
        <5>. QED BY ONLY <3>2, <3>4, <2>4, <5>1, ZenonT(60) DEF DeckCompletes
      <4>2. pending.status = run.status /\ pending.status # "RECOVERING"
        BY <1>1, <1>2, <3>1 DEF RunRow
      <4>3. IgnoresFailure(pending)
        BY <4>2 DEF IgnoresFailure, Suspended
      <4>. QED BY <4>1, <4>2, <4>3 DEF Fail
    <3>. QED BY <3>3, <3>4
  <2>5. CASE DeckFails
    <3>1. PICK kind : FailDeck(worker.round, kind, TRUE)
      BY <2>5 DEF DeckFails
    <3>2. ~At("idle")
      BY <2>5 DEF DeckFails, At
    <3>. QED BY <1>2, <1>4, <3>1, <3>2, RecoverWaits DEF FailDeck, Waits
  <2>6. CASE BeginPage \/ DeckInputFails \/ BeginDeck \/ ReplayDeck
    BY <1>1, <2>6 DEF BeginPage, DeckInputFails, BeginDeck, ReplayDeck, Tick
  <2>7. CASE PageReviewed
    BY <2>7 DEF PageReviewed
  <2>. QED BY <1>8, <2>1, <2>2, <2>3, <2>4, <2>5, <2>6, <2>7 DEF Reviewing
<1>9. CASE Revising
  <2>1. \A code : ~At("idle") /\ AcceptOrFail(code) => run' = run
    BY <1>1, <1>2, <1>4 DEF AcceptOrFail, CanAccept
  <2>2. CASE ReviewHadPassed \/ NothingToRevise \/ ScopeInputFails \/ BeginRevisionPlan
    <3>1. ~At("idle")
      BY <2>2 DEF ReviewHadPassed, NothingToRevise, ScopeInputFails, BeginRevisionPlan,
                  Revisable, At
    <3>2. MoveOrThrow("NEEDS_HUMAN") \/ run' = run
      BY <1>1, <1>5, <2>1, <2>2, <3>1
         DEF ReviewHadPassed, NothingToRevise, ScopeInputFails, BeginRevisionPlan, Throw
    <3>. QED BY <3>1, <3>2, MoveWaits DEF Waits
  <2>3. CASE RevisionPlanned
    <3>1. ~At("idle") /\ Planned
      BY <2>3 DEF RevisionPlanned, Planned, At
    <3>2. run.round = worker.round /\ ~On(run, "REVISING")
      BY <3>1, PlannedIsNext DEF IInv, WorkerFits, Planned
    <3>3. run.resume = "AWAITING_REVISION_APPROVAL" => run.status # "PAUSED"
      BY <3>1 DEF CInv, AwaitingRests, Phase
    <3>4. ~CanTransition(run, "REVISING") /\ ~CanTransition(run, "AWAITING_REVISION_APPROVAL")
      BY <1>3, <3>1, <3>2, <3>3 DEF On
    <3>. QED BY <1>5, <2>3, <3>1, <3>4 DEF RevisionPlanned, Throw
  <2>4. CASE RevisionPlanFails
    <3>1. ~At("idle")
      BY <2>4 DEF RevisionPlanFails, Planned, At
    <3>2. run' = run \/ \E d \in Dispositions : RecoverIfPossible(d)
      BY <1>2, <1>4, <2>1, <2>4, <3>1 DEF RevisionPlanFails
    <3>. QED BY <3>2, RecoverWaits DEF Waits
  <2>5. CASE PlanReplaced \/ ApplicationCompletes
    BY <2>5 DEF PlanReplaced, ApplicationCompletes
  <2>6. CASE ApplicationInputFails \/ BeginApplication
    BY <1>1, <2>6 DEF ApplicationInputFails, BeginApplication, Tick
  <2>7. CASE ApplicationFails
    <3>1. ~At("idle")
      BY <2>7 DEF ApplicationFails, At
    <3>2. \/ run' = run \/ MoveOrThrow("NEEDS_HUMAN")
          \/ \E d \in Dispositions : RecoverIfPossible(d)
      <4>1. CanTransition(run, "NEEDS_HUMAN") => FALSE
        BY <1>1, <1>2, <3>1, RefusedWhileSuspended DEF RunRow, PausableStates
      <4>. QED BY <1>2, <1>4, <1>5, <2>7, <3>1, <4>1 DEF ApplicationFails, Throw
    <3>. QED BY <3>1, <3>2, MoveWaits, RecoverWaits DEF Waits
  <2>. QED BY <1>9, <2>2, <2>3, <2>4, <2>5, <2>6, <2>7 DEF Revising
<1>. QED BY <1>6, <1>7, <1>8, <1>9

\* The three properties, of a step.
RecoveryEnds ==
  run.status = "RECOVERING" /\ run'.status # "RECOVERING" =>
    /\ run'.round = run.round /\ run'.attempt = run.attempt
    /\ \/ run'.status = "CANCELLED"
       \/ run.pending = "NONE" /\ run'.status = run.recovery.phase
       \/ run.pending # "NONE" /\ run'.status = "FAILED" /\ run'.failed = run.pending
EndLasts ==
  run.status \in TerminalStates /\ run'.status # run.status =>
    /\ run.status = "FAILED" /\ run.failed = "QUALITY_REMEDIATION_EXHAUSTED"
    /\ run'.status = "DECK_REVIEW"
    /\ run.settled /\ run.finalization = "DONE"
    /\ \A r \in Rounds : steps.delivery[r] = "NONE"
PauseLasts == run.status = "PAUSED" /\ run'.status # "PAUSED" => worker' = worker
Released == RecoveryEnds /\ EndLasts /\ PauseLasts

LEMMA WaitsReleased == ASSUME Waits PROVE Released
  BY DEF Waits, Released, RecoveryEnds, EndLasts, PauseLasts, Suspended

LEMMA RecoveryReleased ==
  ASSUME IInv, FinishFailure \/ ResumePhase
  PROVE  Released
<1>1. run \in RunRow /\ RunFits(run) /\ run.status = "RECOVERING" /\ worker' = worker
  BY DEF FinishFailure, ResumePhase, Tick, IInv, RowsTyped
<1>2. CASE FinishFailure
  <2>1. run' = CompleteFailure(run, run.pending) /\ run.pending # "NONE"
    BY <1>2 DEF FinishFailure, Reconcile
  <2>2. /\ run'.status = "FAILED" /\ run'.failed = run.pending
        /\ run'.round = run.round /\ run'.attempt = run.attempt
    BY <1>1, <2>1 DEF CompleteFailure, To, RunRow
  <2>. QED BY <1>1, <2>1, <2>2 DEF Released, RecoveryEnds, EndLasts, PauseLasts, TerminalStates
<1>3. CASE ResumePhase
  <2>1. /\ run.pending = "NONE"
        /\ run' = [To(run, run.recovery.phase) EXCEPT !.recovery.active = FALSE]
    BY <1>3 DEF ResumePhase, ResumeRecovery
  <2>2. run.recovery.phase \in Statuses \ {"PAUSED"}
    BY <1>1 DEF RunFits, RunRow, Recoveries, RecoverableStates, Statuses
  <2>3. /\ run'.status = run.recovery.phase
        /\ run'.round = run.round /\ run'.attempt = run.attempt
    BY <1>1, <2>1, <2>2 DEF To, RunRow
  <2>. QED BY <1>1, <2>1, <2>3 DEF Released, RecoveryEnds, EndLasts, PauseLasts, TerminalStates
<1>. QED BY <1>2, <1>3

\* A user cancels what recovers, opens again what failed of its quality, and
\* resumes or cancels what is paused.
LEMMA UsersReleased ==
  ASSUME IInv, CInv, NeverSentBack, NeverRejected \/ NeverOverridden, Users
  PROVE  Released
<1>1. run \in RunRow /\ worker' = worker
  BY DEF IInv, RowsTyped, Users, RetryPlanning, Replan, ApproveBlueprint, RequestBlueprintRevision,
         Pause, Resume, Cancel, ApproveRevision, RejectRevision, SubmitLimitedRevision,
         AcceptWithOverride, RetryDelivery, ReopenFailure
<1>2. ~ApproveBlueprint /\ ~RequestBlueprintRevision
  BY DEF NeverSentBack, ApproveBlueprint, RequestBlueprintRevision
<1>3. RecoveryEnds
  <2>. SUFFICES ASSUME run.status = "RECOVERING" PROVE RecoveryEnds
    BY DEF RecoveryEnds
  <2>1. ~ApproveRevision
    <3>1. ASSUME ApproveRevision PROVE Offered(run.round + 1) /\ run.round + 1 \in 1..MaxRounds
      BY <1>1, <3>1, LifecycleAssumption DEF ApproveRevision, Offered, RunRow, Rounds
    <3>2. Phase(run) \in RecoverableStates \cup {"NONE"}
      BY <1>1 DEF Phase, RunRow, Recoveries
    <3>. QED BY <3>1, <3>2 DEF CInv, OffersFit, RecoverableStates
  <2>2. ~RejectRevision
    BY DEF RejectRevision, CanTransition, Transitions, RecoverableStates, Ending
  <2>3. CASE Cancel
    <3>1. run'.status = "CANCELLED" /\ run'.round = run.round /\ run'.attempt = run.attempt
      BY <1>1, <2>3 DEF Cancel, To, RunRow
    <3>. QED BY <3>1 DEF RecoveryEnds
  <2>. QED BY <1>2, <2>1, <2>2, <2>3
       DEF Users, RetryPlanning, Replan, Pause, Resume, SubmitLimitedRevision, AcceptWithOverride,
           RetryDelivery, ReopenFailure, PausableStates
<1>4. EndLasts
  <2>. SUFFICES ASSUME run.status \in TerminalStates PROVE EndLasts
    BY DEF EndLasts
  <2>1. \A to : ~CanTransition(run, to)
    BY DEF CanTransition, Transitions, TerminalStates
  <2>2. CASE ReopenFailure
    <3>1. run'.status = "DECK_REVIEW"
      BY <1>1, <2>2 DEF ReopenFailure, ReopenQualityFailure, RunRow
    <3>. QED BY <2>2, <3>1 DEF EndLasts, ReopenFailure
  <2>. QED BY <1>2, <2>1, <2>2
       DEF Users, RetryPlanning, Replan, Pause, Resume, Cancel, ApproveRevision, RejectRevision,
           SubmitLimitedRevision, AcceptWithOverride, RetryDelivery, PausableStates, TerminalStates
<1>. QED BY <1>1, <1>3, <1>4 DEF Released, PauseLasts

LEMMA NextReleased ==
  ASSUME NeverSentBack, NeverRejected \/ NeverOverridden
  PROVE  IInv /\ CInv /\ [Next]_vars => [Released]_vars
<1>. SUFFICES ASSUME IInv, CInv, Next PROVE Released
  OBVIOUS
<1>1. CASE Planning \/ Drawing \/ Reviewing \/ Revising
  BY <1>1, WorkerWaits, WaitsReleased
<1>2. CASE Crash
  BY <1>2, WaitsReleased DEF Crash, Waits
<1>3. CASE Delivering
  <2>1. CASE FinishFailure \/ ResumePhase
    BY <2>1, RecoveryReleased
  <2>2. BeginDelivery => Waits
    BY DEF BeginDelivery, Tick, Waits
  <2>3. DeliveryFails => Waits
    BY RecoverWaits DEF DeliveryFails
  <2>4. Finalize => Waits
    BY DEF Finalize, Waits, IInv, RowsTyped, RunRow
  <2>5. CASE DeliveryCompletes
    <3>1. ~At("idle")
      BY <2>5 DEF DeliveryCompletes, At
    <3>2. CASE Throw
      BY <3>1, <3>2, ThrowWaits, WaitsReleased
    <3>3. CASE CanTransition(run, "COMPLETED")
      <4>1. run.status \notin Suspended
        BY <3>1, <3>3, RefusedWhileSuspended, WorkingIsNotRecovering
           DEF IInv, RowsTyped, RunRow, PausableStates
      <4>. QED BY <4>1, WaitsReleased DEF Waits
    <3>. QED BY <2>5, <3>2, <3>3 DEF DeliveryCompletes
  <2>. QED BY <1>3, <2>1, <2>2, <2>3, <2>4, <2>5, WaitsReleased DEF Delivering
<1>4. CASE Users
  BY <1>4, UsersReleased
<1>. QED BY <1>1, <1>2, <1>3, <1>4 DEF Next

\* A recovery ends in what it suspended or waited for, an end is final and a pause
\* is left by users, unless users may send the blueprint back, or reject a
\* revision and have the deck accepted.
THEOREM SuspensionsAreHeld ==
  ASSUME NeverSentBack, NeverRejected \/ NeverOverridden
  PROVE  Spec => SuspensionsHold
<1>1. [][Released]_vars => RecoveryRestoresPhase
  <2>1. Released =>
          (run.status = "RECOVERING" /\ run'.status # "RECOVERING" =>
             /\ run'.round = run.round /\ run'.attempt = run.attempt
             /\ \/ run'.status = "CANCELLED"
                \/ run.pending = "NONE" /\ run'.status = run.recovery.phase
                \/ run.pending # "NONE" /\ run'.status = "FAILED" /\ run'.failed = run.pending)
    BY DEF Released, RecoveryEnds
  <2>. QED BY <2>1, PTL DEF RecoveryRestoresPhase
<1>2. [][Released]_vars => EndIsFinal
  <2>1. Released =>
          (run.status \in TerminalStates /\ run'.status # run.status =>
             /\ run.status = "FAILED" /\ run.failed = "QUALITY_REMEDIATION_EXHAUSTED"
             /\ run'.status = "DECK_REVIEW"
             /\ run.settled /\ run.finalization = "DONE"
             /\ \A r \in Rounds : steps.delivery[r] = "NONE")
    BY DEF Released, EndLasts
  <2>. QED BY <2>1, PTL DEF EndIsFinal
<1>3. [][Released]_vars => PausedWaits
  <2>1. Released => (run.status = "PAUSED" /\ run'.status # "PAUSED" => worker' = worker)
    BY DEF Released, PauseLasts
  <2>. QED BY <2>1, PTL DEF PausedWaits
<1>. QED BY <1>1, <1>2, <1>3, CourseInductive, NextReleased, PTL DEF Spec, SuspensionsHold
-----------------------------------------------------------------------------
(* The image that is delivered. *)

DrawnIn(r) == steps.image[r] = "COMPLETED"
SomeImage == \E r \in 0..run.round : DrawnIn(r)

\* What is reviewed, and what is delivered without an administrator, is the image
\* of the round.  Past the first review there is an image of some round, also for
\* a person who has the Run together with its blueprint.  The worker draws what
\* nothing was drawn for.
RoundIsDrawn ==
  \/ Phase(run) \in {"PAGE_REVIEW", "DECK_REVIEW"}
  \/ Phase(run) \in {"DELIVERING", "COMPLETED"} /\ run.disposition # "ADMIN_OVERRIDE"
SomeRoundIsDrawn ==
  \/ Phase(run) \in {"AWAITING_REVISION_APPROVAL", "DELIVERING", "COMPLETED"}
  \/ Phase(run) = "NEEDS_HUMAN" /\ steps.planning[run.attempt] = "COMPLETED"
  \/ run.round >= 1
Imaged ==
  /\ RoundIsDrawn => DrawnIn(run.round)
  /\ SomeRoundIsDrawn => SomeImage
  /\ At("media") => steps.image[worker.round] = "NONE"

\* What a step does to the images: none is lost, and the worker begins to draw
\* only where there is none.
ImagesStay ==
  /\ \A r \in Rounds : DrawnIn(r) => DrawnIn(r)'
  /\ At("media")' => steps'.image[worker'.round] = "NONE"

\* What a step may do to the phase: it keeps it; it goes where no image is asked
\* for; or an image is there for where it goes.
Steers ==
  \/ /\ PhaseKept(run, run') /\ steps'.planning = steps.planning
     /\ Phase(run') \in {"DELIVERING", "COMPLETED"} => run'.disposition = run.disposition
  \/ /\ run'.round = run.round
     /\ \/ Phase(run') \in {"PLANNING", "EXECUTING", "CANCELLED", "FAILED"}
        \/ Phase(run') = "NEEDS_HUMAN" /\ steps'.planning[run'.attempt] # "COMPLETED"
        \/ DrawnIn(run.round)
  \/ /\ SomeImage /\ run'.round \in {run.round, run.round + 1}
     /\ \/ Phase(run') \in {"REVISING", "NEEDS_HUMAN"}
        \/ Phase(run') \in {"DELIVERING", "COMPLETED"} /\ run'.disposition = "ADMIN_OVERRIDE"

LEMMA SteeredIsImaged ==
  ASSUME IInv, Imaged, ImagesStay, Steers
  PROVE  Imaged'
<1>1. /\ run.round \in Nat /\ run.round \in Rounds /\ \A r \in 0..run.round : r \in Rounds
      /\ run'.round >= run.round
  BY LifecycleAssumption DEF IInv, RowsTyped, RunRow, Rounds, Steers, PhaseKept
<1>2. SomeImage => SomeImage'
  <2>1. SUFFICES ASSUME NEW r \in 0..run.round, DrawnIn(r) PROVE SomeImage'
    BY DEF SomeImage
  <2>2. DrawnIn(r)' /\ r \in 0..run'.round
    BY <1>1, <2>1, LifecycleAssumption
       DEF ImagesStay, Steers, PhaseKept
  <2>. QED BY <2>2 DEF SomeImage
<1>3. DrawnIn(run.round) => steps'.image[run.round] = "COMPLETED" /\ SomeImage
  BY <1>1 DEF ImagesStay, SomeImage, DrawnIn
<1>4. CASE /\ PhaseKept(run, run') /\ steps'.planning = steps.planning
           /\ Phase(run') \in {"DELIVERING", "COMPLETED"} => run'.disposition = run.disposition
  <2>1. RoundIsDrawn' => RoundIsDrawn
    BY <1>4 DEF RoundIsDrawn, PhaseKept
  <2>2. SomeRoundIsDrawn' => SomeRoundIsDrawn
    BY <1>4 DEF SomeRoundIsDrawn, PhaseKept
  <2>. QED BY <1>2, <1>3, <1>4, <2>1, <2>2 DEF Imaged, ImagesStay, PhaseKept, DrawnIn
<1>5. CASE run'.round = run.round /\ DrawnIn(run.round)
  BY <1>2, <1>3, <1>5 DEF Imaged, ImagesStay, DrawnIn
<1>6. CASE /\ run'.round = run.round
           /\ \/ Phase(run') \in {"PLANNING", "EXECUTING", "CANCELLED", "FAILED"}
              \/ Phase(run') = "NEEDS_HUMAN" /\ steps'.planning[run'.attempt] # "COMPLETED"
  <2>1. ~RoundIsDrawn' /\ (SomeRoundIsDrawn' => run.round >= 1)
    BY <1>6 DEF RoundIsDrawn, SomeRoundIsDrawn
  <2>. QED BY <1>2, <2>1 DEF Imaged, ImagesStay, SomeRoundIsDrawn
<1>7. CASE /\ SomeImage
           /\ \/ Phase(run') \in {"REVISING", "NEEDS_HUMAN"}
              \/ Phase(run') \in {"DELIVERING", "COMPLETED"} /\ run'.disposition = "ADMIN_OVERRIDE"
  <2>1. ~RoundIsDrawn'
    BY <1>7 DEF RoundIsDrawn
  <2>. QED BY <1>2, <1>7, <2>1 DEF Imaged, ImagesStay
<1>. QED BY <1>4, <1>5, <1>6, <1>7 DEF Steers
\* Whatever reviews, applies or delivers writes no image.
LEMMA ImagesKept ==
  ASSUME Imaged, steps'.image = steps.image, worker' = worker \/ ~At("media")'
  PROVE  ImagesStay
  BY DEF ImagesStay, DrawnIn, Imaged, At

LEMMA AnswersStay == ASSUME IInv, AnswerImage PROVE ImagesStay
<1>1. PICK r \in Rounds :
        /\ At("idle") /\ worker' = worker /\ steps.image[r] \in Unfinished
        /\ \/ steps' = SetImage(steps, r, "COMPLETED")
           \/ \E to \in {"FAILED", "UNKNOWN"}, d \in Dispositions :
                \E broken \in {steps.broken, Broken(d)} :
                   steps' = SetBroken(SetImage(steps, r, to), broken)
           \/ steps' = SetImage(steps, r, "PENDING")
  BY DEF AnswerImage, SetImage, SetBroken
<1>2. \A b : \A q \in Rounds, to \in ImageStates :
        /\ SetImage(steps, r, to).image = SetBroken(SetImage(steps, r, to), b).image
        /\ q # r => SetImage(steps, r, to).image[q] = steps.image[q]
  BY DEF SetImage, SetBroken, IInv, RowsTyped, StepRows
<1>3. \E to \in ImageStates : steps'.image = SetImage(steps, r, to).image
  BY <1>1, <1>2 DEF ImageStates
<1>. QED BY <1>1, <1>2, <1>3 DEF ImagesStay, DrawnIn, At, Unfinished

LEMMA NextKeepsImages == ASSUME IInv, Imaged, Next PROVE ImagesStay
<1>1. /\ steps \in StepRows /\ worker \in WorkerRow /\ run.round \in Rounds
      /\ run.attempt \in Attempts
  BY DEF IInv, RowsTyped, RunRow
<1>2. CASE SubmitImage
  <2>1. /\ worker.round \in Rounds /\ steps.image[worker.round] = "NONE" /\ ~At("media")'
        /\ steps' = [steps EXCEPT !.image[worker.round] = "PENDING"]
    BY <1>1, <1>2 DEF SubmitImage, Imaged, Idle, Resting, At, WorkerRow
  <2>. QED BY <1>1, <2>1 DEF ImagesStay, DrawnIn, StepRows
<1>3. CASE AnswerImage
  BY <1>3, AnswersStay
<1>4. CASE BeginImage
  BY <1>4 DEF BeginImage, Goes, ImagesStay, DrawnIn
<1>5. CASE Planning
  <2>1. steps'.image = steps.image
    <3>1. CASE PlanningFails
      <4>. DEFINE failed == [steps EXCEPT !.planning[run.attempt] = "FAILED"]
      <4>1. \/ steps' \in {failed, steps}
            \/ \E used \in {{}, {run.attempt}} :
                 steps' = [failed EXCEPT !.exhausted = failed.exhausted \cup used]
        BY <3>1 DEF PlanningFails, Throw
      <4>2. failed \in StepRows /\ failed.image = steps.image
        <5>1. "FAILED" \in StepStates
          BY DEF StepStates
        <5>. QED BY <1>1, <5>1, WritePlanning DEF SetPlanning, KeepsPlans
      <4>. HIDE DEF failed
      <4>. QED BY <4>1, <4>2 DEF StepRows
    <3>2. CASE BeginPlanning
      <4>. DEFINE read == [steps EXCEPT !.outages = steps.outages \ {run.attempt}]
      <4>1. steps' = read \/ steps' = [read EXCEPT !.planning[run.attempt] = "RUNNING"]
        BY <3>2 DEF BeginPlanning
      <4>2. read \in StepRows /\ read.image = steps.image
        BY <1>1 DEF StepRows
      <4>. HIDE DEF read
      <4>. QED BY <4>1, <4>2 DEF StepRows
    <3>. QED BY <1>1, <1>5, <3>1, <3>2
         DEF Planning, SourceOutage, StageCompletes, PlanningCompletes, Throw, StepRows
  <2>2. worker' = worker \/ ~At("media")'
    BY <1>5 DEF Planning, SourceOutage, BeginPlanning, StageCompletes, PlanningCompletes,
                PlanningFails, Throw, Goes, Idle, Resting, At
  <2>. QED BY <2>1, <2>2, ImagesKept
<1>6. CASE Drawing /\ ~(SubmitImage \/ AnswerImage \/ BeginImage)
  <2>1. steps'.image = steps.image
    BY <1>1, <1>6 DEF Drawing, BudgetShort, MoveOrThrow, Throw, ImageNotSubmitted,
       ImageSubmissionFails, ImageEditUnavailable, ImageBlocked, SettleAccounting,
       MoveToPageReview, StepRows
  <2>2. worker' = worker \/ ~At("media")'
    BY <1>6 DEF Drawing, BudgetShort, MoveOrThrow, Throw, ImageNotSubmitted,
       ImageSubmissionFails, ImageEditUnavailable, ImageBlocked, SettleAccounting,
       MoveToPageReview, Idle, Resting, At
  <2>. QED BY <2>1, <2>2, ImagesKept
<1>7. CASE Reviewing
  <2>1. steps'.image = steps.image
    <3>1. CASE DeckCompletes
      BY <3>1, DeckStands DEF Throw, RowsStand
    <3>2. CASE RevisePage
      <4>1. \E plan : steps' = [steps EXCEPT !.plan[worker.round + 1] = plan] \/ steps' = steps
        BY <3>2 DEF RevisePage, Throw
      <4>. QED BY <1>1, <4>1 DEF StepRows
    <3>3. CASE DeckInputFails \/ DeckFails
      BY <1>1, <3>3, FailDeckStands DEF DeckInputFails, DeckFails, Throw, RowsStand
    <3>4. CASE BeginPage \/ PageReviewed \/ BeginDeck
      BY <1>1, <3>4 DEF BeginPage, PageReviewed, BeginDeck, Throw, StepRows
    <3>5. CASE PageReviewFailed
      <4>1. \E page : steps' = [steps EXCEPT !.page = page] \/ steps' = steps
        BY <3>5 DEF PageReviewFailed, MoveOrThrow, Throw
      <4>. QED BY <1>1, <4>1 DEF StepRows
    <3>. QED BY <1>7, <3>1, <3>2, <3>3, <3>4, <3>5
         DEF Reviewing, PageApproved, RevisionOfPageExhausted, PageToPerson, MoveOrThrow, Throw,
             ReplayDeck
  <2>2. worker' = worker \/ ~At("media")'
    <3>1. CASE DeckCompletes
      <4>1. Idle \/ Goes("scope")
        BY <3>1, DeckEnds DEF DeckDelivers, DeckStays, Throw
      <4>. QED BY <4>1 DEF Idle, Goes, Resting, At
    <3>2. CASE BeginPage \/ PageReviewed \/ PageApproved \/ PageReviewFailed
      BY <1>1, <3>2 DEF BeginPage, PageReviewed, PageApproved, PageReviewFailed, MoveOrThrow, Throw,
         Goes, Continues, Idle, Resting, At, WorkerRow
    <3>3. CASE RevisePage \/ RevisionOfPageExhausted \/ PageToPerson \/ DeckFails
      <4>1. Idle
        BY <3>3 DEF RevisePage, RevisionOfPageExhausted, PageToPerson, DeckFails, MoveOrThrow, Throw
      <4>. QED BY <4>1 DEF Idle, Resting, At
    <3>4. CASE DeckInputFails \/ BeginDeck
      <4>1. worker' = worker \/ Idle \/ Goes("deck")
        BY <3>4 DEF DeckInputFails, BeginDeck, Throw
      <4>. QED BY <4>1 DEF Goes, Idle, Resting, At
    <3>5. CASE ReplayDeck
      <4>1. Idle \/ Goes("scope")
        BY <3>5 DEF ReplayDeck
      <4>. QED BY <4>1 DEF Idle, Goes, Resting, At
    <3>. QED BY <1>7, <3>1, <3>2, <3>3, <3>4, <3>5 DEF Reviewing
  <2>. QED BY <2>1, <2>2, ImagesKept
<1>8. CASE Revising
  <2>1. steps'.image = steps.image
    <3>1. CASE BeginRevisionPlan
      BY <1>1, <3>1 DEF BeginRevisionPlan, Throw, StepRows
    <3>2. CASE RevisionPlanned
      BY <1>1, <3>2 DEF RevisionPlanned, Throw, StepRows
    <3>3. CASE RevisionPlanFails \/ ApplicationInputFails
      BY <1>1, <3>3 DEF RevisionPlanFails, ApplicationInputFails, Throw, StepRows
    <3>4. CASE BeginApplication \/ ApplicationCompletes \/ ApplicationFails
      BY <1>1, <3>4 DEF BeginApplication, ApplicationCompletes, ApplicationFails, Throw, StepRows
    <3>. QED BY <1>8, <3>1, <3>2, <3>3, <3>4
         DEF Revising, ReviewHadPassed, NothingToRevise, ScopeInputFails, PlanReplaced,
             MoveOrThrow, Throw
  <2>2. worker' = worker \/ ~At("media")'
    BY <1>8 DEF Revising, ReviewHadPassed, NothingToRevise, ScopeInputFails, BeginRevisionPlan,
       PlanReplaced, RevisionPlanned, RevisionPlanFails, ApplicationInputFails, BeginApplication,
       ApplicationCompletes, ApplicationFails, MoveOrThrow, Throw, Goes, Idle, Resting, At
  <2>. QED BY <2>1, <2>2, ImagesKept
<1>9. CASE Delivering
  <2>1. steps'.image = steps.image
    BY <1>1, <1>9 DEF Delivering, BeginDelivery, DeliveryCompletes, DeliveryFails, FinishFailure,
       ResumePhase, Finalize, Throw, StepRows
  <2>2. worker' = worker \/ ~At("media")'
    BY <1>9 DEF Delivering, BeginDelivery, DeliveryCompletes, DeliveryFails, FinishFailure,
       ResumePhase, Finalize, Throw, Goes, Idle, Resting, At
  <2>. QED BY <2>1, <2>2, ImagesKept
<1>10. CASE Users
  <2>1. worker' = worker /\ (steps' = steps \/ SubmitLimitedRevision)
    BY <1>10 DEF Users, RetryPlanning, Replan, ApproveBlueprint, RequestBlueprintRevision, Pause,
       Resume, Cancel, ApproveRevision, RejectRevision, SubmitLimitedRevision,
       AcceptWithOverride, RetryDelivery, ReopenFailure
  <2>2. CASE SubmitLimitedRevision
    <3>1. \E plan : steps' = [steps EXCEPT !.plan[run.round + 1] = plan]
      BY <2>2 DEF SubmitLimitedRevision
    <3>. QED BY <1>1, <2>1, <3>1, ImagesKept DEF StepRows
  <2>. QED BY <2>1, <2>2, ImagesKept
<1>11. CASE Crash
  BY <1>11, ImagesKept DEF Crash, Idle, Resting, At
<1>. QED BY <1>2, <1>3, <1>4, <1>5, <1>6, <1>7, <1>8, <1>9, <1>10, <1>11 DEF Next
-----------------------------------------------------------------------------
(* Where a step takes the Run, and the image that is there. *)

LEMMA FallSteers ==
  ASSUME IInv, Falls(run, run'), steps'.planning = steps.planning
  PROVE  Steers
  BY FallsKeepPhase DEF IInv, RowsTyped, Steers

LEMMA ThrowSteers == ASSUME IInv, Throw, run.status # "RECOVERING" PROVE Steers
  BY FatalFalls, FallSteers DEF Throw

\* The row moves within its phase.
LEMMA RowSteers ==
  ASSUME PhaseKept(run, run'), steps'.planning = steps.planning,
         run'.disposition = run.disposition
  PROVE  Steers
  BY DEF Steers

LEMMA PlanningSteers == ASSUME IInv, CInv, Planning PROVE Steers
<1>1. /\ run \in RunRow /\ steps \in StepRows /\ RunFits(run) /\ run.attempt \in Attempts
      /\ RowsTyped /\ (~At("idle") => run.status # "RECOVERING")
  BY WorkingIsNotRecovering DEF IInv, RowsTyped, RunRow
<1>2. CASE \E d \in Dispositions : SourceOutage(d)
  <2>1. PICK d \in Dispositions : SourceOutage(d)
    BY <1>2
  <2>2. Falls(run, run') /\ steps'.planning = steps.planning
    BY <1>1, <2>1, RecoveryFalls DEF SourceOutage, Tick, RecoverableStates, StepRows
  <2>. QED BY <2>2, FallSteers
<1>3. CASE BeginPlanning
  <2>1. run.status = "PLANNING" /\ (run' = run \/ run' = ClearRecovery)
    BY <1>3 DEF BeginPlanning, Tick
  <2>2. Phase(run') = "PLANNING" /\ run'.round = run.round
    BY <1>1, <2>1, ClearKeepsPhase DEF Phase, PhaseKept
  <2>. QED BY <2>2 DEF Steers
<1>4. CASE StageCompletes
  <2>1. run' = ClearRecovery /\ steps'.planning = steps.planning
    BY <1>1, <1>4 DEF StageCompletes, StepRows
  <2>. QED BY <1>1, <2>1, ClearKeepsPhase, RowSteers
<1>5. CASE PlanningCompletes
  <2>1. Throw \/ run' = To(run, "EXECUTING")
    BY <1>5 DEF PlanningCompletes
  <2>2. ~At("idle")
    BY <1>5 DEF PlanningCompletes, At
  <2>. QED BY <1>1, <2>1, <2>2, UserRow, ThrowSteers DEF Statuses, Steers
<1>6. CASE PlanningFails
  <2>1. ~At("idle")
    BY <1>6 DEF PlanningFails, At
  <2>2. CASE Throw
    BY <1>1, <2>1, <2>2, ThrowSteers
  <2>3. CASE run.status = "PLANNING" /\ \E d \in Dispositions : run' = BeginRecovery(run, d)
    <3>1. Falls(run, run') /\ Phase(run) = "PLANNING"
      BY <1>1, <2>3, RecoveryFalls DEF RecoverableStates, Phase
    <3>. QED BY <1>1, <3>1, FallsKeepPhase DEF PhaseKept, Steers
  <2>4. CASE /\ run' = To(run, "NEEDS_HUMAN")
             /\ \E used \in {{}, {run.attempt}} :
                  steps' = [[steps EXCEPT !.planning[run.attempt] = "FAILED"]
                              EXCEPT !.exhausted = @ \cup used]
    <3>. DEFINE failed == SetPlanning(steps, run.attempt, "FAILED")
    <3>1. failed \in StepRows /\ failed.planning[run.attempt] = "FAILED"
      <4>1. "FAILED" \in StepStates
        BY DEF StepStates
      <4>. QED BY <1>1, <4>1, WritePlanning DEF KeepsPlans
    <3>2. \E used \in {{}, {run.attempt}} :
            steps' = [failed EXCEPT !.exhausted = failed.exhausted \cup used]
      BY <2>4 DEF SetPlanning
    <3>. HIDE DEF failed
    <3>3. steps'.planning[run.attempt] = "FAILED"
      BY <3>1, <3>2 DEF StepRows
    <3>. QED BY <1>1, <2>4, <3>3, UserRow DEF Statuses, Steers
  <2>. QED BY <1>6, <2>2, <2>3, <2>4 DEF PlanningFails
<1>. QED BY <1>2, <1>3, <1>4, <1>5, <1>6 DEF Planning

LEMMA AnswerSteers == ASSUME IInv, AnswerImage PROVE Steers
<1>1. run \in RunRow /\ RunFits(run) /\ steps \in StepRows
  BY DEF IInv, RowsTyped
<1>2. Falls(run, run')
  BY <1>1, RecoversOrStays DEF AnswerImage, Falls
<1>3. steps'.planning = steps.planning
  <2>1. PICK r \in Rounds, to \in ImageStates :
          \/ steps' = [steps EXCEPT !.image[r] = to]
          \/ \E broken : steps' = [steps EXCEPT !.image[r] = to, !.broken = broken]
    BY DEF AnswerImage, ImageStates
  <2>. QED BY <1>1, <2>1 DEF StepRows
<1>. QED BY <1>2, <1>3, FallSteers

LEMMA DrawingSteers == ASSUME IInv, CInv, Imaged, Drawing PROVE Steers
<1>1. /\ run \in RunRow /\ steps \in StepRows /\ RunFits(run)
      /\ (~At("idle") => run.status # "RECOVERING")
  BY WorkingIsNotRecovering DEF IInv, RowsTyped
<1>2. CASE BeginImage
  BY <1>2, RowSteers DEF BeginImage, PhaseKept
<1>3. CASE BudgetShort
  <2>1. ~At("idle")
    BY <1>3 DEF BudgetShort, At
  <2>2. \/ UNCHANGED <<run, steps>> \/ Throw
        \/ CanTransition(run, "PAUSED") /\ run' = To(run, "PAUSED") /\ steps' = steps
    BY <1>3 DEF BudgetShort, MoveOrThrow
  <2>. QED BY <1>1, <2>1, <2>2, ThrowSteers, PausesPausable, PauseKeepsPhase, RowSteers
       DEF PhaseKept
<1>4. CASE SubmitImage
  <2>1. run' = [run EXCEPT !.settled = FALSE] /\ steps'.planning = steps.planning
    BY <1>1, <1>4 DEF SubmitImage, StepRows
  <2>. QED BY <1>1, <2>1, HoldKeepsPhase, RowSteers
<1>5. CASE ImageNotSubmitted
  <2>1. \/ run' = [run EXCEPT !.settled = FALSE]
        \/ /\ run.status \in {"EXECUTING", "REVISING"}
           /\ run' = [run EXCEPT !.status = "PAUSED", !.resume = run.status, !.settled = FALSE]
    BY <1>1, <1>5 DEF ImageNotSubmitted, InMediaPhase, To, RunRow
  <2>2. PhaseKept(run, run') /\ run'.disposition = run.disposition
    BY <1>1, <2>1 DEF PhaseKept, Phase, RunRow
  <2>. QED BY <1>5, <2>2, RowSteers DEF ImageNotSubmitted
<1>6. CASE ImageSubmissionFails
  <2>1. PICK d \in Dispositions, reserved \in BOOLEAN :
          LET held == [run EXCEPT !.settled = @ /\ ~reserved]
          IN /\ run' = IF Recoverable(held) THEN BeginRecovery(held, d) ELSE held
             /\ steps' = [steps EXCEPT !.broken = Broken(d)]
    BY <1>6 DEF ImageSubmissionFails
  <2>. DEFINE held == [run EXCEPT !.settled = run.settled /\ ~reserved]
  <2>2. run.status # "FAILED"
    BY <1>6 DEF ImageSubmissionFails, IInv, WorkerFits, At
  <2>3. held \in RunRow /\ RunFits(held)
    <3>1. (run.settled /\ ~reserved) \in BOOLEAN
      OBVIOUS
    <3>. QED BY <1>1, <2>2, <3>1, HoldFits
  <2>4. /\ PhaseKept(run, held) /\ held.disposition = run.disposition
        /\ Phase(held) = Phase(run)
    BY <1>1, HoldKeepsPhase
  <2>5. run' = IF Recoverable(held) THEN BeginRecovery(held, d) ELSE held
    BY <2>1
  <2>. HIDE DEF held
  <2>6. Falls(held, run')
    BY <2>3, <2>5, RecoveryFalls DEF Recoverable, Falls
  <2>7. steps'.planning = steps.planning
    BY <1>1, <2>1 DEF StepRows
  <2>. QED BY <2>3, <2>4, <2>6, <2>7, FallsKeepPhase DEF PhaseKept, Steers
<1>7. CASE ImageEditUnavailable \/ ImageBlocked
  <2>1. Falls(run, run') /\ steps'.planning = steps.planning
    BY <1>1, <1>7, FailFalls, RecoveryFalls
       DEF ImageEditUnavailable, ImageBlocked, MediaTick, InMediaPhase, FailureCodes,
           RecoverableStates, StepRows
  <2>. QED BY <2>1, FallSteers
<1>8. CASE AnswerImage
  BY <1>8, AnswerSteers
<1>9. CASE SettleAccounting
  BY <1>1, <1>9, HoldKeepsPhase, RowSteers DEF SettleAccounting
<1>10. CASE MoveToPageReview
  <2>1. run'.round = run.round /\ DrawnIn(run.round)
    BY <1>1, <1>10 DEF MoveToPageReview, DrawnIn, To, RunRow
  <2>. QED BY <2>1 DEF Steers
<1>. QED BY <1>2, <1>3, <1>4, <1>5, <1>6, <1>7, <1>8, <1>9, <1>10 DEF Drawing

\* What may become of the row leaves the round alone.
LEMMA RoundStays ==
  ASSUME IInv
  PROVE  /\ \A to : To(run, to).round = run.round
         /\ ToDeckReview(run).round = run.round /\ SystemAccepted(run).round = run.round
         /\ \A d : RecoverIfPossible(d) => run'.round = run.round
         /\ run.status # "RECOVERING" =>
              /\ Fatal.round = run.round
              /\ \A code \in FailureCodes : Fail(run, code).round = run.round
<1>1. run \in RunRow /\ RunFits(run)
  BY DEF IInv, RowsTyped
<1>2. /\ \A to : To(run, to).round = run.round
      /\ ToDeckReview(run).round = run.round /\ SystemAccepted(run).round = run.round
  BY <1>1 DEF To, ToDeckReview, SystemAccepted, RunRow
<1>3. \A d : RecoverIfPossible(d) => run'.round = run.round
  BY <1>1, RecoversOrStays, FallsKeepPhase DEF PhaseKept
<1>4. ASSUME run.status # "RECOVERING"
      PROVE  /\ Fatal.round = run.round
             /\ \A code \in FailureCodes : Fail(run, code).round = run.round
  BY <1>1, <1>4, FatalFalls, FailFalls, FallsKeepPhase DEF PhaseKept
<1>. QED BY <1>2, <1>3, <1>4

\* Whoever reviews goes wherever it goes with the image of the round, but a Run
\* that a user cancelled stays cancelled.
LEMMA ReviewedSteers ==
  ASSUME IInv, CInv, Imaged, NeverRejected, AtReview, Reviewing \/ Revising,
         run'.round = run.round
  PROVE  Steers
<1>1. run \in RunRow /\ Phase(run) \in {"PAGE_REVIEW", "DECK_REVIEW", "CANCELLED"}
  BY ReviewedPhase DEF IInv, RowsTyped
<1>2. CASE Phase(run) # "CANCELLED"
  BY <1>1, <1>2 DEF Imaged, RoundIsDrawn, Steers
<1>3. CASE Phase(run) = "CANCELLED"
  <2>1. run.status = "CANCELLED"
    BY <1>1, <1>3, PhaseIsStatus
  <2>2. run'.status = "CANCELLED"
    BY <2>1, WorkerWaits DEF Waits, Suspended, TerminalStates
  <2>. QED BY <2>2 DEF Phase, Steers
<1>. QED BY <1>2, <1>3

LEMMA ReviewTickSteers ==
  ASSUME Imaged, run.status \in {"PAGE_REVIEW", "DECK_REVIEW"}, run'.round = run.round
  PROVE  Steers
<1>1. Phase(run) = run.status
  BY DEF Phase
<1>. QED BY <1>1 DEF Imaged, RoundIsDrawn, Steers

\* Into the next round, on an image that is there.
LEMMA NextRoundSteers ==
  ASSUME SomeImage, run'.round = run.round + 1, Phase(run') = "REVISING"
  PROVE  Steers
  BY DEF Steers

LEMMA FailDeckKeepsRound ==
  ASSUME IInv, run.status # "RECOVERING", NEW r, NEW kind, NEW real, FailDeck(r, kind, real)
  PROVE  run'.round = run.round
<1>1. "TECHNICAL_CONTRACT_INVALID" \in FailureCodes
  BY DEF FailureCodes
<1>. QED BY <1>1, RoundStays DEF FailDeck

LEMMA ReviewingSteers ==
  ASSUME IInv, CInv, Imaged, NeverRejected, Reviewing
  PROVE  Steers
<1>1. /\ run \in RunRow /\ RunFits(run) /\ steps \in StepRows
      /\ (~At("idle") => run.status # "RECOVERING")
  BY WorkingIsNotRecovering DEF IInv, RowsTyped
<1>2. ASSUME MoveOrThrow("NEEDS_HUMAN"), AtReview PROVE run'.round = run.round
  BY <1>1, <1>2, RoundStays DEF MoveOrThrow, Throw, AtReview, At
<1>3. CASE BeginPage \/ BeginDeck
  <2>1. /\ run.status \in {"PAGE_REVIEW", "DECK_REVIEW"}
        /\ run' = run \/ Throw
    BY <1>3 DEF BeginPage, BeginDeck, Tick
  <2>. QED BY <1>1, <2>1, RoundStays, ReviewTickSteers DEF Throw
<1>4. CASE PageReviewed \/ PageApproved
  <2>1. AtReview /\ run.status # "RECOVERING" /\ run' \in {run, ToDeckReview(run), Fatal}
    BY <1>1, <1>4 DEF PageReviewed, PageApproved, AtReview, At
  <2>2. run'.round = run.round
    BY <2>1, RoundStays
  <2>. QED BY <1>4, <2>1, <2>2, ReviewedSteers
<1>5. CASE PageReviewFailed
  <2>1. AtReview /\ (MoveOrThrow("NEEDS_HUMAN") \/ \E d : RecoverIfPossible(d))
    BY <1>5 DEF PageReviewFailed, AtReview, RecoverIfPossible
  <2>. QED BY <1>2, <1>5, <2>1, RoundStays, ReviewedSteers
<1>6. CASE RevisePage
  <2>1. AtReview /\ run.status # "RECOVERING"
    BY <1>1, <1>6 DEF RevisePage, PageRejected, AtReview, At
  <2>2. CASE Throw
    BY <1>1, <2>1, <2>2, ThrowSteers
  <2>3. CASE ~Throw
    <3>1. /\ run.status = "PAGE_REVIEW"
          /\ run' = [To(run, "REVISING") EXCEPT !.round = run.round + 1]
      BY <1>6, <2>3 DEF RevisePage
    <3>2. run'.round = run.round + 1 /\ Phase(run') = "REVISING" /\ Phase(run) = "PAGE_REVIEW"
      BY <1>1, <3>1 DEF To, RunRow, Phase
    <3>3. SomeImage
      BY <1>1, <3>2, LifecycleAssumption DEF Imaged, RoundIsDrawn, SomeImage, RunRow, Rounds
    <3>. QED BY <3>2, <3>3, NextRoundSteers
  <2>. QED BY <2>2, <2>3
<1>7. CASE RevisionOfPageExhausted
  <2>1. /\ AtReview /\ run.status # "RECOVERING"
        /\ \/ \E code \in FailureCodes : run' = Fail(run, code)
           \/ run' \in {ToDeckReview(run), Fatal}
    BY <1>1, <1>7 DEF RevisionOfPageExhausted, PageRejected, FailureCodes, AtReview, At
  <2>2. run'.round = run.round
    BY <2>1, RoundStays
  <2>. QED BY <1>7, <2>1, <2>2, ReviewedSteers
<1>8. CASE PageToPerson
  <2>1. AtReview /\ MoveOrThrow("NEEDS_HUMAN")
    BY <1>8 DEF PageToPerson, PageRejected, AtReview
  <2>. QED BY <1>2, <1>8, <2>1, ReviewedSteers
<1>9. CASE DeckInputFails
  <2>1. /\ run.status = "DECK_REVIEW"
        /\ Throw \/ \E kind, real : FailDeck(run.round, kind, real)
    BY <1>9 DEF DeckInputFails, Tick
  <2>2. run'.round = run.round
    BY <2>1, RoundStays, FailDeckKeepsRound DEF Throw
  <2>. QED BY <2>1, <2>2, ReviewTickSteers
<1>10. CASE ReplayDeck
  <2>1. /\ run.status = "DECK_REVIEW"
        /\ \/ run' \in {run, SystemAccepted(run)}
           \/ \E code \in FailureCodes : run' = Fail(run, code)
    BY <1>10 DEF ReplayDeck, Tick, FailureCodes
  <2>2. run'.round = run.round
    BY <2>1, RoundStays
  <2>. QED BY <2>1, <2>2, ReviewTickSteers
<1>11. CASE DeckCompletes
  <2>1. AtReview /\ run.status # "RECOVERING"
    BY <1>1, <1>11 DEF DeckCompletes, AtReview, At
  <2>2. CASE Throw
    BY <2>1, <2>2, ThrowSteers
  <2>3. CASE DeckDelivers
    <3>1. run'.round = run.round
      BY <1>1, <2>3, RoundStays DEF DeckDelivers, To, RunRow
    <3>. QED BY <1>11, <2>1, <3>1, ReviewedSteers
  <2>4. CASE DeckStays
    <3>. DEFINE pending == [run EXCEPT !.disposition = "PENDING"]
    <3>1. /\ pending \in RunRow /\ pending.status = run.status /\ pending.resume = run.resume
          /\ pending.recovery = run.recovery /\ pending.round = run.round
          /\ pending.settled = run.settled /\ pending.pending = run.pending
      BY <1>1 DEF RunRow
    <3>2. run' = pending \/ \E code \in FailureCodes : run' = Fail(pending, code)
      BY <2>4 DEF DeckStays
    <3>. HIDE DEF pending
    <3>3. RunFits(pending)
      BY <1>1, <3>1 DEF RunFits
    <3>4. run'.round = run.round
      BY <2>1, <3>1, <3>2, <3>3, FailFalls, FallsKeepPhase DEF PhaseKept
    <3>. QED BY <1>11, <2>1, <3>4, ReviewedSteers
  <2>. QED BY <1>11, <2>2, <2>3, <2>4, DeckEnds
<1>12. CASE DeckFails
  <2>1. AtReview /\ run.status # "RECOVERING" /\ \E kind : FailDeck(worker.round, kind, TRUE)
    BY <1>1, <1>12 DEF DeckFails, AtReview, At
  <2>. QED BY <1>12, <2>1, FailDeckKeepsRound, ReviewedSteers
<1>. QED BY <1>3, <1>4, <1>5, <1>6, <1>7, <1>8, <1>9, <1>10, <1>11, <1>12 DEF Reviewing

LEMMA RevisingSteers ==
  ASSUME IInv, CInv, Imaged, NeverRejected, Revising
  PROVE  Steers
<1>1. /\ run \in RunRow /\ RunFits(run) /\ steps \in StepRows
      /\ (~At("idle") => run.status # "RECOVERING")
  BY WorkingIsNotRecovering DEF IInv, RowsTyped
<1>2. "QUALITY_REMEDIATION_EXHAUSTED" \in FailureCodes
      /\ "QUALITY_ISSUE_STATE_INCONSISTENT" \in FailureCodes
  BY DEF FailureCodes
<1>3. CASE ReviewHadPassed \/ NothingToRevise \/ ScopeInputFails
  <2>1. AtReview /\ run.status # "RECOVERING"
    BY <1>1, <1>3 DEF ReviewHadPassed, NothingToRevise, ScopeInputFails, Revisable, AtReview, At
  <2>2. \/ Throw \/ MoveOrThrow("NEEDS_HUMAN") \/ \E d : RecoverIfPossible(d)
        \/ \E code \in FailureCodes : AcceptOrFail(code)
    BY <1>2, <1>3 DEF ReviewHadPassed, NothingToRevise, ScopeInputFails, RecoverIfPossible
  <2>3. run'.round = run.round
    BY <2>1, <2>2, RoundStays DEF MoveOrThrow, Throw, AcceptOrFail
  <2>. QED BY <1>3, <2>1, <2>3, ReviewedSteers
<1>4. CASE BeginRevisionPlan \/ PlanReplaced
  <2>1. AtReview /\ run.status # "RECOVERING"
    BY <1>1, <1>4 DEF BeginRevisionPlan, Revisable, PlanReplaced, AtReview, At
  <2>2. Throw \/ run' = run
    BY <1>4 DEF BeginRevisionPlan, PlanReplaced
  <2>3. run'.round = run.round
    BY <2>1, <2>2, RoundStays DEF Throw
  <2>. QED BY <1>4, <2>1, <2>3, ReviewedSteers
<1>5. CASE RevisionPlanned
  <2>. DEFINE to == IF Bounded THEN "REVISING" ELSE "AWAITING_REVISION_APPROVAL"
  <2>1. /\ AtReview /\ run.status # "RECOVERING" /\ run.round = worker.round
        /\ run.round \in Nat
    BY <1>5, PlannedIsNext DEF RevisionPlanned, Planned, AtReview
  <2>2. CASE Throw
    BY <2>1, <2>2, ThrowSteers
  <2>3. CASE ~Throw
    <3>1. /\ CanTransition(run, to)
          /\ run' = [To(run, to) EXCEPT !.round = IF Bounded THEN run.round + 1 ELSE @]
      BY <1>5, <2>1, <2>3 DEF RevisionPlanned
    <3>2. /\ run'.round = (IF Bounded THEN run.round + 1 ELSE run.round)
          /\ Phase(run') = to
      BY <1>1, <3>1 DEF To, RunRow, Phase
    <3>3. Phase(run) # "CANCELLED"
      BY <1>1, <3>1, PhaseIsStatus DEF CanTransition, Transitions
    <3>4. SomeImage
      BY <2>1, <3>3, ReviewedPhase DEF Imaged, RoundIsDrawn, SomeImage
    <3>. QED BY <1>5, <2>1, <3>2, <3>4, NextRoundSteers, ReviewedSteers
  <2>. QED BY <2>2, <2>3
<1>6. CASE RevisionPlanFails
  <2>1. AtReview /\ run.status # "RECOVERING"
    BY <1>1, <1>6 DEF RevisionPlanFails, Planned, AtReview, At
  <2>2. \/ \E d : RecoverIfPossible(d)
        \/ \E code \in FailureCodes : AcceptOrFail(code) \/ run' = Fail(run, code)
    BY <1>2, <1>6 DEF RevisionPlanFails
  <2>3. run'.round = run.round
    BY <2>1, <2>2, RoundStays DEF AcceptOrFail
  <2>. QED BY <1>6, <2>1, <2>3, ReviewedSteers
<1>7. CASE ApplicationInputFails
  <2>1. run.status = "REVISING"
    BY <1>7 DEF ApplicationInputFails, Tick
  <2>2. CASE Throw
    BY <2>1, <2>2, ThrowSteers
  <2>3. CASE ~Throw
    <3>1. /\ \/ run' = BeginRecovery(run, "NON_RETRYABLE")
             \/ run' = Fail(run, "QUALITY_REMEDIATION_EXHAUSTED")
          /\ \E st \in {"RUNNING", "FAILED"} : steps' = [steps EXCEPT !.apply[run.round] = st]
      BY <1>7, <2>3 DEF ApplicationInputFails
    <3>2. Falls(run, run') /\ steps'.planning = steps.planning
      BY <1>1, <1>2, <2>1, <3>1, RecoveryFalls, FailFalls DEF RecoverableStates, StepRows
    <3>. QED BY <3>2, FallSteers
  <2>. QED BY <2>2, <2>3
<1>8. CASE BeginApplication \/ ApplicationCompletes
  <2>1. run' = run /\ steps'.planning = steps.planning
    BY <1>1, <1>8 DEF BeginApplication, ApplicationCompletes, StepRows
  <2>. QED BY <2>1, RowSteers DEF PhaseKept
<1>9. CASE ApplicationFails
  <2>1. At("apply") /\ run.status # "RECOVERING" /\ run.round \in Nat /\ run.round >= 1
    BY <1>1, <1>9, LifecycleAssumption
       DEF ApplicationFails, IInv, WorkerFits, RowsTyped, RunRow, WorkerRow, Rounds, At
  <2>2. CASE Throw
    BY <2>1, <2>2, ThrowSteers
  <2>3. CASE ~Throw
    <3>1. /\ \/ \E d : RecoverIfPossible(d)
             \/ run' = Fail(run, "QUALITY_REMEDIATION_EXHAUSTED")
             \/ run' = To(run, "NEEDS_HUMAN")
          /\ steps' = steps \/ steps' = [steps EXCEPT !.apply[worker.round] = "FAILED"]
      BY <1>9, <2>3 DEF ApplicationFails
    <3>2. CASE run' = To(run, "NEEDS_HUMAN")
      <4>1. run'.round = run.round /\ Phase(run') = "NEEDS_HUMAN" /\ SomeImage
        BY <1>1, <2>1, <3>2, UserRow DEF Statuses, Imaged, SomeRoundIsDrawn
      <4>. QED BY <4>1 DEF Steers
    <3>3. CASE \/ \E d : RecoverIfPossible(d)
               \/ run' = Fail(run, "QUALITY_REMEDIATION_EXHAUSTED")
      <4>1. Falls(run, run')
        BY <1>1, <1>2, <2>1, <3>3, RecoversOrStays, FailFalls
      <4>2. steps'.planning = steps.planning
        BY <1>1, <3>1 DEF StepRows
      <4>. QED BY <4>1, <4>2, FallSteers
    <3>. QED BY <3>1, <3>2, <3>3
  <2>. QED BY <2>2, <2>3
<1>. QED BY <1>3, <1>4, <1>5, <1>6, <1>7, <1>8, <1>9 DEF Revising

LEMMA DeliveringSteers ==
  ASSUME IInv, CInv, Imaged, Delivering
  PROVE  Steers
<1>1. /\ run \in RunRow /\ RunFits(run) /\ steps \in StepRows
      /\ (~At("idle") => run.status # "RECOVERING")
  BY WorkingIsNotRecovering DEF IInv, RowsTyped
<1>2. CASE BeginDelivery
  <2>1. run' = run /\ steps'.planning = steps.planning
    BY <1>1, <1>2 DEF BeginDelivery, StepRows
  <2>. QED BY <2>1, RowSteers DEF PhaseKept
<1>3. CASE DeliveryCompletes
  <2>1. run.status # "RECOVERING"
    BY <1>1, <1>3 DEF DeliveryCompletes, At
  <2>2. CASE Throw
    BY <2>1, <2>2, ThrowSteers
  <2>3. CASE ~Throw
    <3>1. /\ CanTransition(run, "COMPLETED")
          /\ run' = [To(run, "COMPLETED") EXCEPT !.finalization = Queue(@)]
      BY <1>3, <2>3 DEF DeliveryCompletes
    <3>2. run.status = "DELIVERING"
      BY <1>1, <3>1 DEF CanTransition, Transitions, RunRow, Statuses, PausableStates,
         RecoverableStates, Ending
    <3>3. /\ run'.round = run.round /\ run'.disposition = run.disposition
          /\ run'.status = "COMPLETED"
      BY <1>1, <3>1 DEF To, RunRow
    <3>4. Phase(run) = "DELIVERING" /\ Phase(run') = "COMPLETED"
      BY <3>2, <3>3 DEF Phase
    <3>. QED BY <3>3, <3>4 DEF Imaged, RoundIsDrawn, SomeRoundIsDrawn, Steers
  <2>. QED BY <2>2, <2>3
<1>4. CASE DeliveryFails
  <2>1. Falls(run, run')
    BY <1>4, RecoversOrStays DEF DeliveryFails
  <2>2. steps'.planning = steps.planning
    BY <1>1, <1>4 DEF DeliveryFails, StepRows
  <2>. QED BY <2>1, <2>2, FallSteers
<1>5. CASE FinishFailure
  <2>1. run' = CompleteFailure(run, run.pending)
    BY <1>5 DEF FinishFailure, Reconcile
  <2>2. run'.status = "FAILED" /\ run'.round = run.round
    BY <1>1, <2>1 DEF CompleteFailure, To, RunRow
  <2>. QED BY <2>2 DEF Phase, Steers
<1>6. CASE ResumePhase
  <2>1. /\ run.status = "RECOVERING" /\ run.recovery.phase \in RecoverableStates
        /\ run' = [To(run, run.recovery.phase) EXCEPT !.recovery.active = FALSE]
        /\ steps' = steps
    BY <1>1, <1>6 DEF ResumePhase, ResumeRecovery, Tick, RunRow, RunFits, Recoveries
  <2>2. /\ run'.status = run.recovery.phase /\ run'.round = run.round
        /\ run'.attempt = run.attempt /\ run'.disposition = run.disposition
    BY <1>1, <2>1 DEF To, RunRow
  <2>3. Phase(run') = Phase(run)
    BY <2>1, <2>2 DEF Phase, RecoverableStates
  <2>. QED BY <2>1, <2>2, <2>3, RowSteers DEF PhaseKept
<1>7. CASE Finalize
  <2>1. run' = [run EXCEPT !.finalization = "DONE"] /\ steps' = steps
    BY <1>7 DEF Finalize
  <2>2. PhaseKept(run, run') /\ run'.disposition = run.disposition
    BY <1>1, <2>1 DEF PhaseKept, Phase, RunRow
  <2>. QED BY <2>1, <2>2, RowSteers
<1>. QED BY <1>2, <1>3, <1>4, <1>5, <1>6, <1>7 DEF Delivering

\* What a person may revise or deliver has an image, and what may be reopened is
\* the image of the round: each round was planned.
LEMMA UsersSteers ==
  ASSUME IInv, CInv, Imaged, Judging, Users
  PROVE  Steers
<1>1. /\ run \in RunRow /\ RunFits(run) /\ steps \in StepRows /\ NeverRejected
      /\ run.round \in Nat
  BY LifecycleAssumption DEF Judging, IInv, RowsTyped, RunRow, Rounds
<1>2. CASE RetryPlanning \/ RequestBlueprintRevision \/ ApproveBlueprint
  <2>1. \E to \in {"PLANNING", "EXECUTING"} : run' = To(run, to)
    BY <1>2 DEF RetryPlanning, RequestBlueprintRevision, ApproveBlueprint
  <2>2. run'.round = run.round /\ Phase(run') \in {"PLANNING", "EXECUTING"}
    BY <1>1, <2>1, UserRow DEF Statuses
  <2>. QED BY <2>2 DEF Steers
<1>3. CASE Replan
  <2>1. run'.round = run.round /\ Phase(run') = "PLANNING"
    BY <1>1, <1>3 DEF Replan, To, RunRow, Phase
  <2>. QED BY <2>1 DEF Steers
<1>4. CASE Pause
  BY <1>1, <1>4, PauseKeepsPhase, RowSteers DEF Pause, PhaseKept
<1>5. CASE Resume
  <2>1. /\ run.status = "PAUSED" /\ run.resume \in PausableStates
        /\ run' = To(run, run.resume) /\ steps' = steps
    BY <1>1, <1>5 DEF Resume, RunFits, RunRow
  <2>2. /\ run'.round = run.round /\ run'.attempt = run.attempt /\ Phase(run') = Phase(run)
        /\ run'.disposition = run.disposition
    BY <1>1, <2>1, UserRow DEF PausableStates, Statuses, Phase
  <2>. QED BY <2>1, <2>2, RowSteers DEF PhaseKept
<1>6. CASE Cancel
  <2>1. run'.round = run.round /\ Phase(run') = "CANCELLED"
    BY <1>1, <1>6 DEF Cancel, To, RunRow, Phase
  <2>. QED BY <2>1 DEF Steers
<1>7. CASE ApproveRevision
  <2>1. /\ CanTransition(run, "REVISING") /\ steps.plan[run.round + 1].st = "COMPLETED"
        /\ run' = [To(run, "REVISING") EXCEPT !.round = run.round + 1]
        /\ run.round + 1 \in 1..MaxRounds
    BY <1>1, <1>7, LifecycleAssumption DEF ApproveRevision
  <2>2. Phase(run) # "CANCELLED"
    BY <1>1, <2>1, PhaseIsStatus DEF CanTransition, Transitions
  <2>3. Phase(run) = "AWAITING_REVISION_APPROVAL"
    BY <1>1, <2>1, <2>2 DEF CInv, OffersFit, Offered
  <2>4. SomeImage
    BY <2>3 DEF Imaged, SomeRoundIsDrawn
  <2>5. run'.round = run.round + 1 /\ Phase(run') = "REVISING"
    BY <1>1, <2>1 DEF To, RunRow, Phase
  <2>. QED BY <2>4, <2>5, NextRoundSteers
<1>8. CASE SubmitLimitedRevision
  <2>1. /\ run.status = "NEEDS_HUMAN" /\ ActiveBlueprint(0)
        /\ run' = [To(run, "REVISING") EXCEPT !.round = run.round + 1]
    BY <1>8 DEF SubmitLimitedRevision
  <2>2. run'.round = run.round + 1 /\ Phase(run') = "REVISING" /\ Phase(run) = "NEEDS_HUMAN"
    BY <1>1, <2>1 DEF To, RunRow, Phase
  <2>3. CASE run.round = 0
    <3>1. steps.planning[0] = "COMPLETED" /\ run.attempt \in Attempts /\ run.attempt \in Nat
      BY <1>1, <2>1, <2>3, LifecycleAssumption DEF ActiveBlueprint, RunRow, Attempts
    <3>2. ~(0 < run.attempt)
      BY <3>1, LifecycleAssumption DEF CInv, BlueprintFits, Attempts
    <3>3. run.attempt = 0
      BY <3>1, <3>2
    <3>4. SomeImage
      BY <2>2, <3>1, <3>3 DEF Imaged, SomeRoundIsDrawn
    <3>. QED BY <2>2, <3>4, NextRoundSteers
  <2>4. CASE run.round >= 1
    BY <2>2, <2>4, NextRoundSteers DEF Imaged, SomeRoundIsDrawn
  <2>. QED BY <1>1, <2>3, <2>4
<1>9. CASE AcceptWithOverride
  <2>1. /\ run.status = "NEEDS_HUMAN" /\ ActiveBlueprint(run.attempt)
        /\ run' = [To(run, "DELIVERING") EXCEPT !.disposition = "ADMIN_OVERRIDE",
                                                !.accepted = TRUE]
    BY <1>9 DEF AcceptWithOverride
  <2>2. /\ run'.round = run.round /\ run'.disposition = "ADMIN_OVERRIDE"
        /\ Phase(run') = "DELIVERING" /\ Phase(run) = "NEEDS_HUMAN"
    BY <1>1, <2>1 DEF To, RunRow, Phase
  <2>3. run.round >= 1 \/ steps.planning[run.attempt] = "COMPLETED"
    BY <1>1, <2>1 DEF ActiveBlueprint
  <2>4. SomeImage
    BY <2>2, <2>3 DEF Imaged, SomeRoundIsDrawn
  <2>. QED BY <2>2, <2>4 DEF Steers
<1>10. CASE RetryDelivery
  <2>1. /\ run.status = "NEEDS_HUMAN" /\ steps.delivery[run.round] = "FAILED"
        /\ "RETRY_DELIVERY" \in UserActions
    BY <1>10 DEF RetryDelivery
  <2>2. Phase(run) = "NEEDS_HUMAN" /\ DeliveryBegan
    BY <1>1, <2>1, PhaseIsStatus DEF DeliveryBegan
  <2>. QED BY <2>1, <2>2 DEF Judging, CInv, DeliveriesFit
<1>11. CASE ReopenFailure
  <2>1. PICK r \in 0..run.round : /\ DrawnIn(r)
                                  /\ \A q \in r+1..run.round : steps.plan[q].st # "COMPLETED"
    BY <1>11 DEF ReopenFailure, DrawnIn
  <2>2. r = run.round
    <3>1. SUFFICES ASSUME r # run.round PROVE FALSE
      OBVIOUS
    <3>2. run.round \in r+1..run.round /\ run.round \in 1..MaxRounds
      BY <1>1, <2>1, <3>1, LifecycleAssumption DEF RunRow, Rounds
    <3>. QED BY <1>1, <2>1, <3>2 DEF IInv, EveryRoundIsPlanned
  <2>3. run'.round = run.round
    BY <1>1, <1>11 DEF ReopenFailure, ReopenQualityFailure, RunRow
  <2>. QED BY <2>1, <2>2, <2>3 DEF Steers
<1>. QED BY <1>1, <1>2, <1>3, <1>4, <1>5, <1>6, <1>7, <1>8, <1>9, <1>10, <1>11
         DEF Users, RejectRevision, NeverRejected

LEMMA NextSteers ==
  ASSUME IInv, CInv, Imaged, Judging, Next
  PROVE  Steers
<1>1. CASE Crash
  BY <1>1, RowSteers DEF Crash, PhaseKept
<1>. QED BY <1>1, PlanningSteers, DrawingSteers, ReviewingSteers, RevisingSteers,
            DeliveringSteers, UsersSteers DEF Next, Judging

LEMMA InitImaged == Init => Imaged
<1>. SUFFICES ASSUME Init PROVE Imaged
  OBVIOUS
<1>1. run.status = "PLANNING" /\ run.round = 0 /\ worker = Resting
  BY DEF Init
<1>2. Phase(run) = "PLANNING" /\ ~At("media")
  BY <1>1 DEF Phase, Resting, At
<1>. QED BY <1>1, <1>2 DEF Imaged, RoundIsDrawn, SomeRoundIsDrawn

LEMMA ImagesInductive == ASSUME Judging PROVE Spec => [](IInv /\ CInv /\ Imaged)
<1>1. Init => IInv /\ CInv /\ Imaged
  BY InitFits, InitHolds, InitImaged
<1>2. (IInv /\ CInv /\ Imaged) /\ [Next]_vars => (IInv /\ CInv /\ Imaged)'
  <2>. SUFFICES ASSUME IInv, CInv, Imaged, [Next]_vars PROVE (IInv /\ CInv /\ Imaged)'
    OBVIOUS
  <2>1. IInv' /\ CInv'
    BY NextKeeps, NextHolds
  <2>2. CASE Next
    BY <2>1, <2>2, NextSteers, NextKeepsImages, SteeredIsImaged
  <2>3. CASE UNCHANGED vars
    BY <2>1, <2>3, RowSteers, ImagesKept, SteeredIsImaged DEF vars, PhaseKept
  <2>. QED BY <2>1, <2>2, <2>3
<1>. QED BY <1>1, <1>2, PTL DEF Spec

LEMMA CourseIsJudged ==
  ASSUME Judging, CInv, Imaged
  PROVE  DeliveredOnlyJudged
<1>. SUFFICES ASSUME run.status \in {"DELIVERING", "COMPLETED"}
              PROVE  /\ Judged /\ \E r \in 0..run.round : steps.image[r] = "COMPLETED"
                     /\ run.disposition # "ADMIN_OVERRIDE" => steps.image[run.round] = "COMPLETED"
  BY DEF DeliveredOnlyJudged, Judged
<1>1. Phase(run) = run.status
  BY DEF Phase
<1>. QED BY <1>1 DEF CInv, Imaged, RoundIsDrawn, SomeRoundIsDrawn, SomeImage, DrawnIn

\* What is delivered was judged, and its image is there: that of the round, unless
\* an administrator delivers what an earlier round left.  It holds unless users may
\* reject a revision under the worker, or retry a delivery after they have sent the
\* blueprint back.
THEOREM DeliveriesAreJudged ==
  ASSUME Judging
  PROVE  Spec => []DeliveredOnlyJudged
<1>1. IInv /\ CInv /\ Imaged => DeliveredOnlyJudged
  BY CourseIsJudged
<1>. QED BY <1>1, ImagesInductive, PTL
=============================================================================

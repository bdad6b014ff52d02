--------------------------- MODULE PlanningStages ---------------------------
(***************************************************************************)
(* How one Run of VISUAL_DECK_V4 is planned: the stages of its compiler    *)
(* (src/src/core/planning-runner.ts), each a call of a text model that is  *)
(* persisted before and after, the one semantic completion of chain 4, and *)
(* the reflections of chain 3 (src/src/core/v4-reflection/coordinator.ts). *)
(*                                                                         *)
(* The worker runs plan() from the start on every tick that finds the Run  *)
(* in PLANNING; what it did before comes back from the steps.  Everything  *)
(* in worker is lost in a crash.  A transaction of the code is one action; *)
(* a call of the model begins in the action that persists its attempt and  *)
(* its answer comes in the action that persists the outcome.               *)
(*                                                                         *)
(* A text of the model is SOUND, OTHER (sound, but not the same),          *)
(* REPAIRABLE (the compiler names what to repair) or BROKEN (it does not). *)
(* A request is what is hashed: the texts before it and what is asked of   *)
(* the model on top.  The keys of a planning attempt are its own, so REPLAN*)
(* starts with none.  Left out: events, metrics, prompts, the modes before *)
(* V4, and the lease (module RunLease): one worker plans the Run.  How an   *)
(* answer is read off the wire is module ModelCall.                        *)
(***************************************************************************)
EXTENDS RunPolicy, SequencesExt

Model == INSTANCE ModelCall

CONSTANTS
  Chains,       \* the compiler identities the Run may have
  MaxCalls,     \* MAX_PROVIDER_ATTEMPTS: calls recorded for one stage
  MaxReplans,   \* MAX_PLANNING_RETRIES
  MaxFaults,    \* bound: crashes of the worker, outages of the document port, cancellations
  MaxDrifts,    \* bound: changes of a picture of the source material
  UserActions   \* what the user may do: RETRY_PLANNING, REPLAN, CANCEL

ASSUME PlanningAssumption ==
  /\ Chains \subseteq {"LEGACY", "CHAIN_2", "CHAIN_3", "CHAIN_4"} /\ Chains # {}
  /\ MaxCalls \in Nat \ {0} /\ MaxReplans \in Nat
  /\ MaxFaults \in Nat /\ MaxDrifts \in Nat
  /\ UserActions \subseteq {"RETRY_PLANNING", "REPLAN", "CANCEL"}

VARIABLES
  run,         \* the row of the Run, and its chain and its protocol
  steps,       \* the steps that are not of a stage: planning with its blueprint, source, preflight
  stages,      \* by key: the step of a stage, or of its repair
  audit,       \* by stage: audit_v4_planning_stage
  evidence,    \* by key: the pictures audit_v4_planning_request names, {} without the step
  reflection,  \* by stage and phase: the steps of the reflections, with their disposition
  worker,      \* the locals of plan()
  pictures,    \* which version of the pictures the document port returns
  sent,        \* history: by key, the requests the model was sent
  left         \* how many crashes, outages and cancellations may still come

vars == <<run, steps, stages, audit, evidence, reflection, worker, pictures, sent, left>>

Course ==
  [LEGACY |-> <<"source-spec", "deck-visual", "slide-briefs", "final-coherence">>,
   CHAIN_2 |-> <<"source-spec", "deck-visual", "reflect-deck-visual", "slide-briefs",
                 "reflect-slide-briefs">>,
   CHAIN_3 |-> <<"source-spec", "deck-visual", "reflect-deck-visual", "slide-briefs",
                 "reflect-slide-briefs">>,
   CHAIN_4 |-> <<"creative-manuscript", "review-manuscript">>]

Manuscripts == {"creative-manuscript", "review-manuscript"}
Reflections == {"reflect-deck-visual", "reflect-slide-briefs"}
Stages == {Course[c][i] : c \in {"LEGACY", "CHAIN_2"}, i \in 1..4} \cup Manuscripts \cup Reflections
Keys == Stages \X {0, 1}   \* a stage, and whether this is its repair
Phases == {"CRITIC", "OPTIMIZER"}

Texts(stage) ==
  CASE stage = "creative-manuscript" -> {"SOUND", "OTHER"}
    [] stage \in {"review-manuscript", "slide-briefs"} -> {"SOUND", "REPAIRABLE", "BROKEN"}
    [] OTHER -> {"SOUND"}

\* What is asked on top of the payload of the stage.
Extras == {"NONE", "CONTRACT_ISSUES", "CONTENT_SLOT", "SOURCE_EVIDENCE_DISAMBIGUATION"}

\* cut: the answer that is gone on with was cut off.
NoStep == [status |-> "NONE", request |-> <<>>, text |-> "NONE", error |-> "NONE", cut |-> FALSE]
NoAudit == [calls |-> 0, open |-> {}, used |-> FALSE, exhausted |-> FALSE]
NoReflection == [status |-> "NONE", attempts |-> 0]
\* A reflection with its disposition; the steps of its two calls, which nothing
\* reads any more, are left out from then on.
Disposed(outcome) == [CRITIC |-> NoReflection, OPTIMIZER |-> NoReflection, outcome |-> outcome]
Resting == [at |-> "idle", made |-> <<>>, repair |-> 0, extra |-> "NONE", error |-> "NONE",
            pictures |-> 0, replay |-> FALSE]

\* The steps whose keys are those of a planning attempt.
FreshSteps == [planning |-> "NONE", blueprint |-> <<>>, source |-> "NONE", preflight |-> "NONE"]
FreshStages == [k \in Keys |-> NoStep]
FreshAudit == [s \in Stages |-> NoAudit]
FreshEvidence == [k \in Keys |-> {}]
FreshReflection == [s \in Reflections |-> Disposed("NONE")]
NothingSent == [k \in Keys |-> {}]

Init ==
  /\ \E chain \in Chains :
       run = [status |-> "PLANNING", resume |-> "NONE", recovery |-> NoRecovery,
              pending |-> "NONE", failed |-> "NONE", settled |-> TRUE,
              disposition |-> "PENDING", finalization |-> "NONE",
              chain |-> chain, protocol |-> FALSE, window |-> FALSE, attempt |-> 0]
  /\ steps = FreshSteps
  /\ stages = FreshStages /\ audit = FreshAudit /\ evidence = FreshEvidence
  /\ reflection = FreshReflection
  /\ worker = Resting
  /\ pictures = 0
  /\ sent = NothingSent
  /\ left = MaxFaults

-----------------------------------------------------------------------------
\* The calls: what the model may be said to have answered, with and without the stream
\* that chain 4 insists on, and in the preflight of chain 4.

\* technicalFailureDisposition of the error, if it is one.
ErrorClass(error) ==
  CASE error = "NONE" -> "NONE"
    [] error = "MODEL_JSON_INVALID" -> "MODEL_JSON_INVALID"
    [] error \in {"MODEL_CONFIGURATION", "V4_CHAIN4_PROTOCOL_UNSUPPORTED"} -> "NON_RETRYABLE"
    [] OTHER -> "RETRYABLE"
Outcome(reply, told) ==
  [error |-> ErrorClass(told.error), cut |-> Model!CutOff(reply), submission |-> told.submission]
OutcomesOver(protocol, sse) ==
  {Outcome(r, Model!Request(protocol, sse, r, sound)) : r \in Model!Replies(protocol), sound \in BOOLEAN}
StreamOutcomes == OutcomesOver("RESPONSES_JSON_SCHEMA", TRUE)
AnyOutcomes == UNION {OutcomesOver(p, FALSE) : p \in Model!Protocols}
PreflightErrors ==
  {ErrorClass(Model!Preflight(r, sound).error) :
     r \in Model!Replies("RESPONSES_JSON_SCHEMA"), sound \in BOOLEAN}

-----------------------------------------------------------------------------
\* The worker.

At(what) == worker.at = what
Tick(status) == At("idle") /\ run.status = status
Goes(what) == worker' = [worker EXCEPT !.at = what]
Idle == worker' = Resting
\* An error that leaves createVisualDeckV4Blueprint; plan() takes it to fail().
Throws(error) == worker' = [worker EXCEPT !.at = "fail", !.error = error]

Chain4 == run.chain = "CHAIN_4"
Stage == Course[run.chain][Len(worker.made) + 1]
Key == <<Stage, worker.repair>>
Outcomes == IF Chain4 THEN StreamOutcomes ELSE AnyOutcomes

\* What is hashed into the step: from chain 4 on the pictures are not in it.
Request(extra) == <<worker.made, extra, IF Chain4 THEN 0 ELSE worker.pictures>>

\* A completed stage puts an end to the recovery it was resumed from.
Cleared(r) ==
  IF r.status = "PLANNING" /\ r.recovery.phase = "PLANNING" /\ ~r.recovery.active
  THEN [r EXCEPT !.recovery = NoRecovery] ELSE r

\* The stage returned this text; the next one, or what follows the last one.
Returns(text) ==
  LET on == [worker EXCEPT !.made = Append(@, text), !.repair = 0, !.replay = FALSE,
                           !.extra = IF @ = "SOURCE_EVIDENCE_DISAMBIGUATION" THEN @ ELSE "NONE"]
      last == Len(on.made) = Len(Course[run.chain])
      repairs == Stage = "slide-briefs" /\ text = "REPAIRABLE" /\ worker.repair = 0
  IN worker' =
       IF repairs THEN [worker EXCEPT !.at = "open", !.repair = 1, !.replay = FALSE,
                                      !.extra = "CONTRACT_ISSUES"]
       ELSE IF Stage = "slide-briefs" /\ text \in {"REPAIRABLE", "BROKEN"}
            THEN [worker EXCEPT !.at = "fail", !.error = "INTERNAL"]
       ELSE IF last THEN [on EXCEPT !.at = IF Chain4 THEN "compile" ELSE "complete"]
       ELSE IF run.chain = "CHAIN_3" /\ Course[run.chain][Len(on.made) + 1] \in Reflections
            THEN [on EXCEPT !.at = "critic"]
       ELSE [on EXCEPT !.at = "open"]

\* resumeTechnicalRecovery, after the delay; the phase is taken up a tick later.
Resume ==
  /\ Tick("RECOVERING") /\ CanResumeRecovery(run)
  /\ run' = ResumeRecovery(run)
  /\ UNCHANGED <<steps, stages, audit, evidence, reflection, worker, pictures, sent, left>>

\* failTechnicalSourceResolution.
SourceUnavailable ==
  /\ Tick("PLANNING") /\ left > 0
  /\ steps' = [steps EXCEPT !.source = "FAILED"]
  /\ \E disposition \in {"RETRYABLE", "NON_RETRYABLE"} : run' = BeginRecovery(run, disposition)
  /\ left' = left - 1
  /\ UNCHANGED <<stages, audit, evidence, reflection, worker, pictures, sent>>

\* Variant: the recovery is cleared whether or not the source was out of reach.
SourceResolvedClears ==
  /\ Tick("PLANNING")
  /\ steps' = [steps EXCEPT !.source = IF @ = "FAILED" THEN "COMPLETED" ELSE @]
  /\ run' = Cleared(run)
  /\ worker' = [Resting EXCEPT !.at = "prepare", !.pictures = pictures]
  /\ UNCHANGED <<stages, audit, evidence, reflection, pictures, sent, left>>

\* completeTechnicalSourceResolution.
SourceResolved ==
  /\ Tick("PLANNING")
  /\ steps' = [steps EXCEPT !.source = IF @ = "FAILED" THEN "COMPLETED" ELSE @]
  /\ run' = IF steps.source = "FAILED" THEN Cleared(run) ELSE run
  /\ worker' = [Resting EXCEPT !.at = "prepare", !.pictures = pictures]
  /\ UNCHANGED <<stages, audit, evidence, reflection, pictures, sent, left>>

\* An error nobody expects ends the tick with failVisualDeckV4Run.
WorkerFatal == Idle /\ run' = IF CanFail(run) THEN Fail(run, "WORKER_FATAL") ELSE run

\* prepare: a planning step that is RUNNING is gone on with whatever became of the Run.
Prepare ==
  /\ At("prepare")
  /\ \/ /\ steps.planning = "RUNNING" \/ run.status = "PLANNING"
        /\ steps.planning # "COMPLETED"
        /\ steps' = [steps EXCEPT !.planning = "RUNNING"]
        /\ \/ Goes(IF Chain4 THEN "protocol" ELSE "open")
           \/ Throws("SOURCE_INCOMPLETE")
        /\ UNCHANGED run
     \/ /\ steps.planning = "COMPLETED" \/ (steps.planning = "FAILED" /\ run.status # "PLANNING")
        /\ Idle /\ UNCHANGED <<run, steps>>
     \/ /\ steps.planning = "NONE" /\ run.status # "PLANNING"
        /\ WorkerFatal /\ UNCHANGED steps
  /\ UNCHANGED <<stages, audit, evidence, reflection, pictures, sent, left>>

\* resolveV4StructuredGenerationProtocol of chain 4: the protocol of the Run wins.
ProtocolKnown ==
  /\ At("protocol") /\ run.protocol
  /\ Goes("window")
  /\ UNCHANGED <<run, steps, stages, audit, evidence, reflection, pictures, sent, left>>

Preflight ==
  /\ At("protocol") /\ ~run.protocol
  /\ steps' = [steps EXCEPT !.preflight = "RUNNING"]
  /\ Goes("preflight")
  /\ UNCHANGED <<run, stages, audit, evidence, reflection, pictures, sent, left>>

PreflightPassed ==
  /\ At("preflight") /\ "NONE" \in PreflightErrors
  /\ steps' = [steps EXCEPT !.preflight = "COMPLETED"]
  /\ run' = Cleared([run EXCEPT !.protocol = TRUE])
  /\ Goes("window")
  /\ UNCHANGED <<stages, audit, evidence, reflection, pictures, sent, left>>

PreflightFailed ==
  /\ At("preflight")
  /\ steps' = [steps EXCEPT !.preflight = "FAILED"]
  /\ \E error \in PreflightErrors \ {"NONE"} : Throws(error)
  /\ UNCHANGED <<run, stages, audit, evidence, reflection, pictures, sent, left>>

\* persistV4EvidenceWindow: written once for the Run.
PersistWindow ==
  /\ At("window")
  /\ run' = [run EXCEPT !.window = TRUE]
  /\ Goes("open")
  /\ UNCHANGED <<steps, stages, audit, evidence, reflection, pictures, sent, left>>

-----------------------------------------------------------------------------
\* runV4PlanningStage.

\* The key holds another request.  Variant: a step that is COMPLETED is not compared.
ConflictsUnlessCompleted ==
  stages[Key].status \in {"RUNNING", "FAILED"} /\ stages[Key].request # Request(worker.extra)

Conflicts == stages[Key].status # "NONE" /\ stages[Key].request # Request(worker.extra)

OpenConflict ==
  /\ At("open") /\ Conflicts
  /\ Throws(IF Chain4 THEN "REPLAY_MISMATCH" ELSE "INTERNAL")
  /\ UNCHANGED <<run, steps, stages, audit, evidence, reflection, pictures, sent, left>>

\* The step of the key is found COMPLETED, or is RUNNING from here on.
Open ==
  /\ At("open") /\ ~Conflicts
  /\ LET completed == stages[Key].status = "COMPLETED"
     IN /\ stages' = IF completed THEN stages
                     ELSE [stages EXCEPT ![Key] = [NoStep EXCEPT !.status = "RUNNING",
                                                     !.request = Request(worker.extra)]]
        /\ IF completed /\ ~Chain4 THEN Returns(stages[Key].text)
           ELSE worker' = [worker EXCEPT !.at = IF Chain4 THEN "evidence" ELSE "call",
                                         !.replay = completed]
  /\ UNCHANGED <<run, steps, audit, evidence, reflection, pictures, sent, left>>

\* persistV4PlanningRequestEvidence does not take the request: the step names
\* other pictures, or none of a request that was already sent.
Drifted ==
  IF evidence[Key] # {} THEN evidence[Key] # {worker.pictures}
  ELSE worker.replay \/ audit[Stage].open = {worker.repair}

EvidenceRefused ==
  /\ At("evidence") /\ Drifted
  /\ stages' = IF worker.replay THEN stages
               ELSE [stages EXCEPT ![Key].status = "FAILED", ![Key].error = "REPLAY_MISMATCH"]
  /\ Throws("REPLAY_MISMATCH")
  /\ UNCHANGED <<run, steps, audit, evidence, reflection, pictures, sent, left>>

PersistEvidence ==
  /\ At("evidence") /\ ~Drifted
  /\ evidence' = [evidence EXCEPT ![Key] = {worker.pictures}]
  /\ IF worker.replay THEN Returns(stages[Key].text) ELSE Goes("call")
  /\ UNCHANGED <<run, steps, stages, audit, reflection, pictures, sent, left>>

\* beginV4PlanningStageAttempt refuses while the call of the other key of the
\* stage is open, or when the calls of the stage are used up; the step stays RUNNING.
CallRefused ==
  /\ At("call")
  /\ audit[Stage].open \notin {{}, {worker.repair}} \/ (audit[Stage].open = {} /\ audit[Stage].calls = MaxCalls)
  /\ Throws("INTERNAL")
  /\ UNCHANGED <<run, steps, stages, audit, evidence, reflection, pictures, sent, left>>

\* Variant: a call that is still open counts as another one when it is sent again.
CallCounted ==
  /\ At("call")
  /\ \/ audit[Stage].open = {worker.repair}
     \/ audit[Stage].open = {} /\ audit[Stage].calls < MaxCalls
  /\ audit' = [audit EXCEPT ![Stage].calls = @ + 1, ![Stage].open = {worker.repair}]
  /\ sent' = [sent EXCEPT ![Key] = @ \cup {<<Request(worker.extra), worker.pictures>>}]
  /\ Goes("answer")
  /\ UNCHANGED <<run, steps, stages, evidence, reflection, pictures, left>>

\* beginV4PlanningStageAttempt, and the model is called.  A call that is still
\* open under this key is the one of a worker that stopped: it is sent again.
Call ==
  /\ At("call")
  /\ \/ audit[Stage].open = {worker.repair}
     \/ audit[Stage].open = {} /\ audit[Stage].calls < MaxCalls
  /\ audit' = [audit EXCEPT ![Stage].calls = IF audit[Stage].open = {} THEN @ + 1 ELSE @,
                            ![Stage].open = {worker.repair}]
  /\ sent' = [sent EXCEPT ![Key] = @ \cup {<<Request(worker.extra), worker.pictures>>}]
  /\ Goes("answer")
  /\ UNCHANGED <<run, steps, stages, evidence, reflection, pictures, left>>

\* The model answers with a text the stage can parse.
Answered ==
  /\ At("answer")
  /\ audit' = [audit EXCEPT ![Stage].open = {}]
  /\ run' = Cleared(run)
  /\ \E text \in Texts(Stage), outcome \in Outcomes :
       /\ outcome.error = "NONE"
       /\ stages' = [stages EXCEPT ![Key].status = "COMPLETED", ![Key].text = text,
                                   ![Key].cut = outcome.cut]
       /\ Returns(text)
  /\ UNCHANGED <<steps, evidence, reflection, pictures, sent, left>>

\* It does not answer, or with what cannot be parsed (MODEL_JSON_INVALID), which
\* may be completed in a manuscript, once, and is tried again in another stage.
Completable(outcome) == outcome.error = "MODEL_JSON_INVALID" /\ Stage \in Manuscripts
StageError(outcome) ==
  IF outcome.error = "MODEL_JSON_INVALID" /\ ~Completable(outcome) THEN "RETRYABLE" ELSE outcome.error

Refused ==
  /\ At("answer")
  /\ audit' = [audit EXCEPT ![Stage].open = {}]
  /\ \E outcome \in {o \in Outcomes : o.error # "NONE"} :
       /\ stages' = [stages EXCEPT ![Key].status = "FAILED", ![Key].error = StageError(outcome),
                                   ![Key].cut = Completable(outcome) /\ outcome.cut]
       /\ IF ~Completable(outcome) THEN Throws(StageError(outcome))
          ELSE IF worker.repair = 1 THEN Goes("exhaust")
          ELSE worker' = [worker EXCEPT !.at = "claim", !.extra = "CONTENT_SLOT"]
  /\ UNCHANGED <<run, steps, evidence, reflection, pictures, sent, left>>

-----------------------------------------------------------------------------
\* The semantic completion of chain 4: runV4SemanticCompletion.

Repair == stages[<<Stage, 1>>]

\* claimV4SemanticCompletion: the repair of the claim is another request.
OtherRepair ==
  audit[Stage].used /\ Repair.status # "NONE" /\ Repair.request # Request(worker.extra)

Resumable == Repair.status # "FAILED" \/ Repair.error \in {"MODEL_JSON_INVALID", "RETRYABLE"}

\* Variant: only the claim of the stage itself is looked at.
MayClaimEach ==
  /\ ~OtherRepair /\ ~audit[Stage].exhausted
  /\ audit[Stage].used => Resumable

MayClaim ==
  /\ ~OtherRepair /\ \A stage \in Manuscripts : ~audit[stage].exhausted
  /\ IF audit[Stage].used THEN Resumable ELSE \A stage \in Manuscripts : ~audit[stage].used

Claim ==
  /\ At("claim") /\ MayClaim
  /\ audit' = [audit EXCEPT ![Stage].used = TRUE]
  /\ worker' = [worker EXCEPT !.at = "open", !.repair = 1]
  /\ UNCHANGED <<run, steps, stages, evidence, reflection, pictures, sent, left>>

ClaimRefused ==
  /\ At("claim") /\ ~MayClaim
  /\ IF OtherRepair /\ worker.extra = "CONTENT_SLOT" THEN Throws("REPLAY_MISMATCH")
                                                     ELSE Goes("exhaust")
  /\ UNCHANGED <<run, steps, stages, audit, evidence, reflection, pictures, sent, left>>

\* markV4SemanticCompletion.
Exhaust ==
  /\ At("exhaust")
  /\ audit' = [audit EXCEPT ![Stage].exhausted = TRUE]
  /\ Throws("SEMANTIC")
  /\ UNCHANGED <<run, steps, stages, evidence, reflection, pictures, sent, left>>

\* ManuscriptCompiler.compilePlan.  An ambiguous excerpt may be disambiguated in
\* the one completion; where it is ambiguous or unresolved still, a person is asked,
\* and any other error is thrown.  Stage is review-manuscript again.
Compile ==
  /\ At("compile")
  /\ LET review == Last(worker.made)
         again == [worker EXCEPT !.made = Front(@)]
         disambiguated == worker.extra = "SOURCE_EVIDENCE_DISAMBIGUATION"
     IN \/ review = "SOUND" /\ Goes("complete")
        \/ /\ review = "REPAIRABLE" /\ ~disambiguated
           /\ worker' = [again EXCEPT !.at = "claim", !.extra = "SOURCE_EVIDENCE_DISAMBIGUATION"]
        \/ /\ review # "SOUND" /\ disambiguated
           /\ worker' = [again EXCEPT !.at = "exhaust"]
        \/ review = "BROKEN" /\ Throws("INTERNAL")
  /\ UNCHANGED <<run, steps, stages, audit, evidence, reflection, pictures, sent, left>>

-----------------------------------------------------------------------------
\* The reflections of chain 3: a critic, then an optimizer, of what the stage
\* before returned.  Their keys name the candidate, which is persisted.

Calls == {"critic", "optimizer"}
Answers == [critic |-> "critic-answer", optimizer |-> "optimizer-answer"]
Phase == IF worker.at \in {"critic", "critic-answer"} THEN "CRITIC" ELSE "OPTIMIZER"
Reflected == reflection[Stage]
CallStep == Reflected[Phase]

\* replayDisposition.
ReflectionReplayed ==
  /\ At("critic") /\ Reflected.outcome # "NONE"
  /\ Returns(Reflected.outcome)
  /\ UNCHANGED <<run, steps, stages, audit, evidence, reflection, pictures, sent, left>>

\* skip: what was to be reflected upon is gone on with.
Skip == reflection' = [reflection EXCEPT ![Stage] = Disposed("SOUND")] /\ Returns("SOUND")

\* prepareCall, one disjunct for each of its kinds.
PrepareCall ==
  /\ worker.at \in Calls /\ Reflected.outcome = "NONE"
  /\ \/ /\ CallStep.status = "COMPLETED" /\ Goes("optimizer")
        /\ UNCHANGED reflection
     \/ /\ CallStep.status # "COMPLETED" /\ CallStep.attempts < 2
        /\ reflection' = [reflection EXCEPT ![Stage][Phase] =
                            [status |-> "RUNNING", attempts |-> @.attempts + 1]]
        /\ Goes(Answers[worker.at])
     \/ /\ CallStep.status # "COMPLETED" /\ CallStep.attempts = 2
        /\ Skip
  /\ UNCHANGED <<run, steps, stages, audit, evidence, pictures, sent, left>>

\* Nobody knows whether the call was taken: it is made again, once.
ReflectionLost ==
  /\ worker.at \in {Answers[c] : c \in Calls}
  /\ \E outcome \in Outcomes : outcome.submission = "UNKNOWN"
  /\ IF CallStep.attempts < 2
     THEN Goes(IF Phase = "CRITIC" THEN "critic" ELSE "optimizer") /\ UNCHANGED reflection
     ELSE Skip
  /\ UNCHANGED <<run, steps, stages, audit, evidence, pictures, sent, left>>

\* The call is not taken, or its answer breaks the contract of the reflection.
ReflectionRefused ==
  /\ worker.at \in {Answers[c] : c \in Calls}
  /\ \E outcome \in Outcomes : outcome.error # "NONE" /\ outcome.submission = "ACCEPTED"
  /\ Skip
  /\ UNCHANGED <<run, steps, stages, audit, evidence, pictures, sent, left>>

\* completeCall of a critic that found issues.
IssuesFound ==
  /\ At("critic-answer")
  /\ reflection' = [reflection EXCEPT ![Stage].CRITIC.status = "COMPLETED"]
  /\ Goes("optimizer")
  /\ UNCHANGED <<run, steps, stages, audit, evidence, pictures, sent, left>>

\* finish: no issues, or the patches of the optimizer applied.
ReflectionFinished ==
  /\ worker.at \in {Answers[c] : c \in Calls}
  /\ LET outcome == IF Phase = "CRITIC" THEN "SOUND" ELSE "OTHER"
     IN /\ reflection' = [reflection EXCEPT ![Stage] = Disposed(outcome)]
        /\ Returns(outcome)
  /\ UNCHANGED <<run, steps, stages, audit, evidence, pictures, sent, left>>

-----------------------------------------------------------------------------
\* The end of plan().

\* complete: V4 starts the execution at once.  A transition that is not allowed
\* is an error like any other.
Complete ==
  /\ At("complete")
  /\ IF CanTransition(run, "EXECUTING")
     THEN /\ run' = To(run, "EXECUTING")
          /\ steps' = [steps EXCEPT !.planning = "COMPLETED", !.blueprint = worker.made]
          /\ Idle
     ELSE Throws("INTERNAL") /\ UNCHANGED <<run, steps>>
  /\ UNCHANGED <<stages, audit, evidence, reflection, pictures, sent, left>>

\* fail: what only a person can mend goes to NEEDS_HUMAN, everything else is a
\* technical failure.  It throws where the Run can do neither.
ForPerson == worker.error \in {"SEMANTIC", "SOURCE_INCOMPLETE"}
Disposition ==
  IF worker.error \in {"NON_RETRYABLE", "REPLAY_MISMATCH"} THEN "NON_RETRYABLE" ELSE "RETRYABLE"

FailPlanning ==
  /\ At("fail")
  /\ \/ /\ ~ForPerson /\ Recoverable(run)
        /\ run' = BeginRecovery(run, Disposition)
        /\ steps' = [steps EXCEPT !.planning = "FAILED"] /\ Idle
     \/ /\ ForPerson /\ CanTransition(run, "NEEDS_HUMAN")
        /\ run' = To(run, "NEEDS_HUMAN")
        /\ steps' = [steps EXCEPT !.planning = "FAILED"] /\ Idle
     \/ /\ IF ForPerson THEN ~CanTransition(run, "NEEDS_HUMAN") ELSE ~Recoverable(run)
        /\ WorkerFatal /\ UNCHANGED steps
  /\ UNCHANGED <<stages, audit, evidence, reflection, pictures, sent, left>>

-----------------------------------------------------------------------------
\* Users, the source material, and crashes.

RetryPlanning ==
  /\ "RETRY_PLANNING" \in UserActions /\ run.status = "NEEDS_HUMAN"
  /\ steps.planning = "FAILED" /\ \A stage \in Manuscripts : ~audit[stage].exhausted
  /\ run' = To(run, "PLANNING")
  /\ UNCHANGED <<steps, stages, audit, evidence, reflection, worker, pictures, sent, left>>

\* The next attempt has keys of its own.
Replan ==
  /\ "REPLAN" \in UserActions /\ run.status = "NEEDS_HUMAN"
  /\ steps.planning = "FAILED" /\ run.attempt < MaxReplans
  /\ run' = [To(run, "PLANNING") EXCEPT !.attempt = @ + 1]
  /\ steps' = FreshSteps /\ stages' = FreshStages /\ audit' = FreshAudit
  /\ evidence' = FreshEvidence /\ reflection' = FreshReflection /\ sent' = NothingSent
  /\ UNCHANGED <<worker, pictures, left>>

\* The worker that plans is not told, and finds out when it completes or fails.
Cancel ==
  /\ "CANCEL" \in UserActions /\ left > 0 /\ run.status \notin TerminalStates \cup {"EXECUTING"}
  /\ run' = [To(run, "CANCELLED") EXCEPT !.finalization = Queue(@)] /\ left' = left - 1
  /\ UNCHANGED <<steps, stages, audit, evidence, reflection, worker, pictures, sent>>

\* A picture of the source material is replaced at the host.
Drift ==
  /\ pictures < MaxDrifts /\ pictures' = pictures + 1
  /\ UNCHANGED <<run, steps, stages, audit, evidence, reflection, worker, sent, left>>

Crash ==
  /\ ~At("idle") /\ left > 0
  /\ Idle /\ left' = left - 1
  /\ UNCHANGED <<run, steps, stages, audit, evidence, reflection, pictures, sent>>

-----------------------------------------------------------------------------
Planning ==
  \/ Resume \/ SourceUnavailable \/ SourceResolved \/ Prepare
  \/ ProtocolKnown \/ Preflight \/ PreflightPassed \/ PreflightFailed \/ PersistWindow
  \/ OpenConflict \/ Open \/ EvidenceRefused \/ PersistEvidence
  \/ CallRefused \/ Call \/ Answered \/ Refused
  \/ Claim \/ ClaimRefused \/ Exhaust \/ Compile
  \/ ReflectionReplayed \/ PrepareCall \/ ReflectionLost \/ ReflectionRefused
  \/ IssuesFound \/ ReflectionFinished
  \/ Complete \/ FailPlanning

Users == RetryPlanning \/ Replan \/ Cancel

Next == Planning \/ Users \/ Drift \/ Crash

Spec == Init /\ [][Next]_vars

\* The worker ticks for as long as the service runs, and every call of a model
\* has a timeout: some step of the planning is taken while one can be.
FairSpec == Spec /\ WF_vars(Planning)

-----------------------------------------------------------------------------
\* Every variable holds what the code can put into it.
TypeOK ==
  /\ run.status \in Statuses /\ run.recovery \in Recoveries /\ run.attempt \in 0..MaxReplans
  /\ run.protocol \in BOOLEAN /\ run.window \in BOOLEAN
  /\ worker.at \in {"idle", "prepare", "protocol", "preflight", "window", "open", "evidence", "call",
                    "answer", "claim", "exhaust", "compile", "critic", "critic-answer", "optimizer",
                    "optimizer-answer", "complete", "fail"}
  /\ worker.repair \in {0, 1} /\ worker.extra \in Extras
  /\ Len(worker.made) <= Len(Course[run.chain])
  /\ (At("complete") \/ At("compile")) <=> Len(worker.made) = Len(Course[run.chain]) /\ ~At("fail")
  /\ \A k \in Keys : /\ stages[k].status \in {"NONE", "RUNNING", "COMPLETED", "FAILED"}
                     /\ stages[k].status = "COMPLETED" <=> stages[k].text # "NONE"
                     /\ stages[k].status = "FAILED" <=> stages[k].error # "NONE"
                     /\ evidence[k] \subseteq 0..MaxDrifts
  /\ \A s \in Stages : audit[s].calls \in 0..MaxCalls /\ audit[s].open \subseteq {0, 1}
  /\ \A s \in Reflections, p \in Phases : reflection[s][p].attempts \in 0..2

\* A key of the model names one request: however often a worker stops, a call
\* times out or a picture changes, a key that was sent is never sent with other
\* contents, pictures included, which the provider would answer from its cache
\* or refuse.  (planning-runner.ts, the step's hash and persistV4PlanningRequestEvidence)
SameKeySameRequest ==
  \A k \in Keys : Cardinality(sent[k]) <= 1

\* "A semantic slot may be completed once": in a planning attempt the completion
\* of only one of the two manuscripts is ever sent, across crashes and retries.
\* (claimV4SemanticCompletion)
OneCompletion ==
  \E m \in Manuscripts : sent[<<m, 1>>] = {}

\* Both: a planning attempt pays for what it asks once, and mends one slot at most.
\* (runV4PlanningStage, claimV4SemanticCompletion)
AskedOnce == SameKeySameRequest /\ OneCompletion

\* What chain 4 goes on with, the text of a stage or the one completion it may buy, is
\* what the model said: an answer the connection cut off is neither taken for the
\* manuscript nor for a manuscript with a slot to complete, though all that tells them
\* apart is the order in which an unfinished stream is judged.
\* (readResponsesTextStream, throwToolResponseError, runV4SemanticCompletion)
AnswersAreWhole == \A k \in Keys : ~stages[k].cut

\* The blueprint that is executed is made of texts that are on record, each asked
\* for with exactly the texts before it, though the worker that completes is not
\* the one that made them all.  (complete, runV4PlanningStage)
OnRecord(stage, text, before) ==
  \/ \E repair \in {0, 1} :
       LET step == stages[<<stage, repair>>]
       IN step.status = "COMPLETED" /\ step.text = text /\ step.request[1] = before
  \/ stage \in Reflections /\ reflection[stage].outcome = text

ExecutesWhatWasAsked ==
  steps.planning = "COMPLETED" =>
    /\ Len(steps.blueprint) = Len(Course[run.chain])
    /\ \A i \in DOMAIN steps.blueprint :
         OnRecord(Course[run.chain][i], steps.blueprint[i], SubSeq(steps.blueprint, 1, i - 1))

\* Planning ends: it is executed, failed, cancelled or put before a person, though
\* every completed stage gives the recovery its full budget back.
\* (clearCompletedPlanningRecovery, beginTechnicalRecovery)
PlanningEnds ==
  run.status \in {"PLANNING", "RECOVERING"} ~> run.status \notin {"PLANNING", "RECOVERING"}
=============================================================================

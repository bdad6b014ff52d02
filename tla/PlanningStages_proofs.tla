------------------------ MODULE PlanningStages_proofs ------------------------
(***************************************************************************)
(* Proofs about PlanningStages, for any number of calls, replans, faults   *)
(* and changed pictures, any chains and whatever the user may do: the rows *)
(* keep to their schemas, a key of the model is one request and one        *)
(* completion is bought, no answer that was cut off is gone on with, and   *)
(* what is executed is on record.                                          *)
(*                                                                         *)
(* The invariant says where the worker is in the course of its chain       *)
(* (Placed), which step it is in the middle of (Holds), that the texts it  *)
(* has are on record (MadeFits), that what was sent under a key is what    *)
(* the step and the evidence of the key name (SentFits), that a completion *)
(* is sent under its claim alone (ClaimsFit), and that nothing touches the *)
(* records any more when the execution has started (StartFits).  Its parts *)
(* are operators of the rows, so that a lemma can speak of the rows a step *)
(* leaves behind.                                                          *)
(***************************************************************************)
EXTENDS PlanningStages, FiniteSetTheorems, SequenceTheorems, TLAPS

\* The schema of each row.  All of a planning takes place with the accounting
\* settled, so that a recovery is always one of PLANNING and a failure at once final.
AllTexts == {"SOUND", "OTHER", "REPAIRABLE", "BROKEN"}
Classes == {"MODEL_JSON_INVALID", "NON_RETRYABLE", "RETRYABLE"}
Errors == Classes \cup {"REPLAY_MISMATCH", "INTERNAL", "SEMANTIC", "SOURCE_INCOMPLETE"}
Versions == 0..MaxDrifts
Requests == Seq(AllTexts) \X Extras \X Versions

RunRow ==
  [status: Statuses, resume: {"NONE"},
   recovery: [phase: {"NONE", "PLANNING"}, attempt: 0..MaxAttempts, active: BOOLEAN,
              accounting: {FALSE}],
   pending: {"NONE"}, failed: FailureCodes \cup {"NONE"}, settled: {TRUE},
   disposition: {"PENDING", "HARD_FAILURE"}, finalization: {"NONE", "QUEUED"},
   chain: Chains, protocol: BOOLEAN, window: BOOLEAN, attempt: 0..MaxReplans]

StepRows ==
  [planning: {"NONE", "RUNNING", "COMPLETED", "FAILED"}, blueprint: Seq(AllTexts),
   source: {"NONE", "FAILED", "COMPLETED"},
   preflight: {"NONE", "RUNNING", "COMPLETED", "FAILED"}]

StageRow ==
  [status: {"NONE", "RUNNING", "COMPLETED", "FAILED"}, request: Requests \cup {<<>>},
   text: AllTexts \cup {"NONE"}, error: Errors \cup {"NONE"}, cut: BOOLEAN]

AuditRow == [calls: 0..MaxCalls, open: SUBSET {0, 1}, used: BOOLEAN, exhausted: BOOLEAN]

CallRow == [status: {"NONE", "RUNNING", "COMPLETED"}, attempts: 0..2]
ReflectionRow == [CRITIC: CallRow, OPTIMIZER: CallRow, outcome: {"NONE", "SOUND", "OTHER"}]

\* Where the worker is before its first stage, in a stage, and after the last one.
Early == {"idle", "prepare", "protocol", "preflight", "window"}
Reflecting == {"critic", "critic-answer", "optimizer", "optimizer-answer"}
Staged == {"open", "evidence", "call", "answer", "claim", "exhaust"} \cup Reflecting
Late == {"compile", "complete"}

WorkerRow ==
  [at: Early \cup Staged \cup Late \cup {"fail"}, made: Seq(AllTexts), repair: {0, 1},
   extra: Extras, error: Errors \cup {"NONE"}, pictures: Versions, replay: BOOLEAN]

RowsTyped ==
  /\ run \in RunRow /\ steps \in StepRows /\ worker \in WorkerRow
  /\ stages \in [Keys -> StageRow] /\ audit \in [Stages -> AuditRow]
  /\ evidence \in [Keys -> SUBSET Versions]
  /\ reflection \in [Reflections -> ReflectionRow]
  /\ pictures \in Versions
  /\ sent \in [Keys -> SUBSET (Requests \X Versions)]

\* A worker that has begun finds the Run as it left it, or cancelled.
RunFits(r, w) ==
  /\ r.status = "RECOVERING" => r.recovery.phase = "PLANNING"
  /\ w.at # "idle" => r.status \in {"PLANNING", "CANCELLED"}

\* A step has a text when it is completed, an error when it failed, and was answered in full.
StepFits(step) ==
  /\ step.status = "COMPLETED" <=> step.text # "NONE"
  /\ step.status = "FAILED" <=> step.error # "NONE"
  /\ step.cut = FALSE

StageOf(c, w) == Course[c][Len(w.made) + 1]
KeyOf(c, w) == <<StageOf(c, w), w.repair>>
RequestOf(c, w) == <<w.made, w.extra, IF c = "CHAIN_4" THEN 0 ELSE w.pictures>>

Placed(c, w) ==
  /\ Len(w.made) <= Len(Course[c])
  /\ w.at \in Early => w.made = <<>>
  /\ w.at \in Early \cup Late => w.repair = 0
  /\ w.at \in Staged => Len(w.made) < Len(Course[c])
  /\ w.at \in Late => Len(w.made) = Len(Course[c])
  /\ w.at \in {"evidence", "claim", "exhaust", "compile"} => c = "CHAIN_4"
  /\ w.at \in Reflecting => StageOf(c, w) \in Reflections

\* The step the worker is in the middle of is its own: nobody else writes it, and
\* the pictures it is about to send are those that were persisted.
Holds(c, w, st, ev) ==
  /\ w.at \in {"evidence", "call", "answer"} =>
       /\ st[KeyOf(c, w)].status = IF w.at = "evidence" /\ w.replay THEN "COMPLETED" ELSE "RUNNING"
       /\ st[KeyOf(c, w)].request = RequestOf(c, w)
  /\ w.at = "call" /\ c = "CHAIN_4" => ev[KeyOf(c, w)] = {w.pictures}

\* OnRecord, of these rows.
Recorded(st, re, stage, text, before) ==
  \/ \E repair \in {0, 1} :
       /\ st[<<stage, repair>>].status = "COMPLETED" /\ st[<<stage, repair>>].text = text
       /\ st[<<stage, repair>>].request[1] = before
  \/ stage \in Reflections /\ re[stage].outcome = text

MadeFits(c, made, st, re) ==
  \A i \in 1..Len(made) : Recorded(st, re, Course[c][i], made[i], SubSeq(made, 1, i - 1))

\* What was sent under a key is the request of its step, with the pictures that
\* the evidence of the key names, or from before chain 4 the request itself.
SentFits(c, st, ev, se) ==
  \A k \in Keys : \A s \in se[k] :
    /\ st[k].status # "NONE" /\ s[1] = st[k].request
    /\ IF c = "CHAIN_4" THEN ev[k] = {s[2]} ELSE s[2] = st[k].request[3]

\* One manuscript at most has the completion, and only under that claim one is sent.
ClaimsFit(c, w, au, se) ==
  /\ \E m \in Manuscripts : ~au[m].used
  /\ \A m \in Manuscripts : se[<<m, 1>>] # {} => au[m].used
  /\ w.at \in Staged /\ w.repair = 1 /\ StageOf(c, w) \in Manuscripts => au[StageOf(c, w)].used

StartFits(r, s, w, st, re) ==
  s.planning = "COMPLETED" =>
    /\ r.status = "EXECUTING" /\ w.at = "idle"
    /\ Len(s.blueprint) = Len(Course[r.chain]) /\ MadeFits(r.chain, s.blueprint, st, re)

IInv ==
  /\ RowsTyped
  /\ RunFits(run, worker)
  /\ \A k \in Keys : StepFits(stages[k])
  /\ Placed(run.chain, worker)
  /\ Holds(run.chain, worker, stages, evidence)
  /\ MadeFits(run.chain, worker.made, stages, reflection)
  /\ SentFits(run.chain, stages, evidence, sent)
  /\ ClaimsFit(run.chain, worker, audit, sent)
  /\ StartFits(run, steps, worker, stages, reflection)

-----------------------------------------------------------------------------
(* The courses. *)

AllChains == {"LEGACY", "CHAIN_2", "CHAIN_3", "CHAIN_4"}

LEMMA StagesAre ==
  Stages = {"source-spec", "deck-visual", "slide-briefs", "final-coherence"} \cup Manuscripts
             \cup Reflections
<1>1. \A i \in 1..4 : Course["LEGACY"][i] \in
        {"source-spec", "deck-visual", "slide-briefs", "final-coherence"}
  BY DEF Course
<1>2. \A i \in 1..4 : Course["CHAIN_2"][i] \in
        {"source-spec", "deck-visual", "slide-briefs"} \cup Reflections
  BY DEF Course, Reflections
<1>3. /\ Course["LEGACY"][1] = "source-spec" /\ Course["LEGACY"][2] = "deck-visual"
      /\ Course["LEGACY"][3] = "slide-briefs" /\ Course["LEGACY"][4] = "final-coherence"
  BY DEF Course
<1>. QED BY <1>1, <1>2, <1>3 DEF Stages

\* A course names stages, each once; only those of chain 4 are manuscripts, and
\* all of them are.
LEMMA CourseIs ==
  ASSUME NEW c \in AllChains
  PROVE  /\ Course[c] \in Seq(Stages) /\ Len(Course[c]) >= 2
         /\ \A i, j \in 1..Len(Course[c]) : Course[c][i] = Course[c][j] => i = j
         /\ \A i \in 1..Len(Course[c]) : Course[c][i] \in Manuscripts <=> c = "CHAIN_4"
<1>1. CASE c = "LEGACY"
  BY <1>1, StagesAre DEF Course, Manuscripts, Reflections
<1>2. CASE c = "CHAIN_2"
  BY <1>2, StagesAre DEF Course, Manuscripts, Reflections
<1>3. CASE c = "CHAIN_3"
  BY <1>3, StagesAre DEF Course, Manuscripts, Reflections
<1>4. CASE c = "CHAIN_4"
  BY <1>4, StagesAre DEF Course, Manuscripts
<1>. QED BY <1>1, <1>2, <1>3, <1>4 DEF AllChains

-----------------------------------------------------------------------------
(* What the model may be said to have answered. *)

\* An answer that was cut off has no text: whatever the protocol, and as an
\* error that chain 4 completes nothing upon.
LEMMA CutOffIsUnreadable ==
  ASSUME NEW protocol, NEW sse \in BOOLEAN, NEW reply, NEW sound, Model!CutOff(reply)
  PROVE  LET told == Model!Request(protocol, sse, reply, sound)
         IN /\ told.error # "NONE"
            /\ sse => told.error # "MODEL_JSON_INVALID"
<1>1. /\ Model!Some(reply.events, "finish") = <<>> /\ Model!Some(reply.events, "DONE") = <<>>
      /\ Model!Some(reply.events, "completed") = <<>>
      /\ reply.kind = "STREAM" /\ reply.end \in {"CLOSED", "TORN"}
  BY DEF Model!CutOff
<1>2. Model!ReadChat(reply.events) = <<>>
  BY <1>1 DEF Model!ReadChat
<1>3. Model!ReadResponses(protocol, reply.events) = <<>>
  BY <1>1 DEF Model!ReadResponses
<1>4. \A torn : Model!Unreadable(protocol, sse, torn).error \in
        IF sse THEN {"V4_CHAIN4_PROTOCOL_UNSUPPORTED"}
               ELSE {"MODEL_JSON_INVALID", "PROVIDER_UNAVAILABLE"}
  BY DEF Model!Unreadable, Model!Told
<1>5. \E torn : Model!Request(protocol, sse, reply, sound) = Model!Unreadable(protocol, sse, torn)
  BY <1>1, <1>2, <1>3 DEF Model!Request, Model!ReadStream
<1>. QED BY <1>4, <1>5

\* What an outcome may be, of any call and of one that insists on the stream.
LEMMA OutcomesAre ==
  ASSUME NEW protocol, NEW sse \in BOOLEAN, NEW o \in OutcomesOver(protocol, sse)
  PROVE  /\ o.error \in Classes \cup {"NONE"}
         /\ o.error = "NONE" => o.cut = FALSE
         /\ sse /\ o.error = "MODEL_JSON_INVALID" => o.cut = FALSE
<1>1. PICK reply \in Model!Replies(protocol), sound \in BOOLEAN :
        o = Outcome(reply, Model!Request(protocol, sse, reply, sound))
  BY DEF OutcomesOver
<1>. DEFINE told == Model!Request(protocol, sse, reply, sound)
<1>2. o.error = ErrorClass(told.error) /\ o.cut = Model!CutOff(reply)
  BY <1>1 DEF Outcome
<1>3. ASSUME Model!CutOff(reply)
      PROVE  told.error # "NONE" /\ (sse => told.error # "MODEL_JSON_INVALID")
  BY <1>3, CutOffIsUnreadable
<1>. HIDE DEF told
<1>4. /\ ErrorClass(told.error) \in Classes \cup {"NONE"}
      /\ ErrorClass(told.error) = "NONE" => told.error = "NONE"
      /\ ErrorClass(told.error) = "MODEL_JSON_INVALID" => told.error = "MODEL_JSON_INVALID"
  BY DEF ErrorClass, Classes
<1>5. CASE Model!CutOff(reply)
  BY <1>2, <1>3, <1>4, <1>5
<1>6. CASE ~Model!CutOff(reply)
  <2>1. Model!CutOff(reply) = FALSE
    BY <1>6 DEF Model!CutOff
  <2>. QED BY <1>2, <1>4, <2>1
<1>. QED BY <1>5, <1>6

LEMMA AnswersAre ==
  ASSUME NEW o \in Outcomes
  PROVE  /\ o.error \in Classes \cup {"NONE"}
         /\ o.error = "NONE" => o.cut = FALSE
         /\ Chain4 /\ o.error = "MODEL_JSON_INVALID" => o.cut = FALSE
<1>1. CASE Chain4
  BY <1>1, OutcomesAre DEF Outcomes, StreamOutcomes
<1>2. CASE ~Chain4
  <2>1. PICK p \in Model!Protocols : o \in OutcomesOver(p, FALSE)
    BY <1>2 DEF Outcomes, AnyOutcomes
  <2>. QED BY <1>2, <2>1, OutcomesAre
<1>. QED BY <1>1, <1>2

LEMMA PreflightErrorsAre == PreflightErrors \subseteq Classes \cup {"NONE"}
  BY DEF PreflightErrors, ErrorClass, Classes

-----------------------------------------------------------------------------
(* What the operators of RunPolicy make of the row of a planning. *)

\* The Run that a step of the planning leaves behind.
Follows(r, s) ==
  /\ s \in RunRow /\ s.chain = r.chain
  /\ s.status = "RECOVERING" => s.recovery.phase = "PLANNING"

LEMMA ToMoves ==
  ASSUME NEW r \in RunRow, NEW to \in Statuses \ {"PAUSED", "RECOVERING"}
  PROVE  Follows(r, To(r, to)) /\ To(r, to).status = to
<1>. DEFINE s == [r EXCEPT !.status = to, !.resume = "NONE"]
<1>1. To(r, to) = s
  BY DEF To
<1>2. s \in RunRow /\ s.status = to /\ s.chain = r.chain
  BY DEF RunRow
<1>. HIDE DEF s
<1>. QED BY <1>1, <1>2 DEF Follows

LEMMA FailEnds ==
  ASSUME NEW r \in RunRow, r.status = "RECOVERING" => r.recovery.phase = "PLANNING",
         NEW code \in FailureCodes
  PROVE  /\ Follows(r, Fail(r, code))
         /\ Fail(r, code) = r \/ Fail(r, code).status = "FAILED"
<1>1. CASE IgnoresFailure(r)
  BY <1>1 DEF Fail, Follows
<1>2. CASE ~IgnoresFailure(r)
  <2>. DEFINE recovery == [r.recovery EXCEPT !.active = @ /\ ~r.recovery.accounting]
              s == [r EXCEPT !.status = "FAILED", !.resume = "NONE", !.pending = "NONE",
                             !.failed = code, !.disposition = "HARD_FAILURE",
                             !.finalization = Queue(r.finalization), !.recovery = recovery]
  <2>1. recovery \in [phase: {"NONE", "PLANNING"}, attempt: 0..MaxAttempts, active: BOOLEAN,
                      accounting: {FALSE}]
    BY DEF RunRow
  <2>2. Queue(r.finalization) \in {"NONE", "QUEUED"}
    BY DEF Queue, RunRow
  <2>3. Fail(r, code) = s
    BY <1>2 DEF Fail, CompleteFailure, To, Statuses, RunRow
  <2>. HIDE DEF recovery
  <2>4. s \in RunRow /\ s.status = "FAILED" /\ s.chain = r.chain
    BY <2>1, <2>2 DEF RunRow, Statuses
  <2>. QED BY <2>3, <2>4 DEF Follows
<1>. QED BY <1>1, <1>2

LEMMA RecoveryFollows ==
  ASSUME NEW r \in RunRow, r.status = "PLANNING", NEW d
  PROVE  /\ Follows(r, BeginRecovery(r, d))
         /\ BeginRecovery(r, d).status \in {"PLANNING", "RECOVERING", "FAILED"}
<1>. DEFINE attempt == NextAttempt(r)
            retryable == d = "RETRYABLE" /\ attempt < MaxAttempts
            recovery == [phase |-> r.status, active |-> retryable, accounting |-> FALSE,
                         attempt |-> IF attempt > MaxAttempts THEN MaxAttempts ELSE attempt]
            code == IF attempt >= MaxAttempts THEN "TECHNICAL_RECOVERY_EXHAUSTED"
                                              ELSE "TECHNICAL_CONTRACT_INVALID"
            s == [r EXCEPT !.recovery = recovery]
            t == [r EXCEPT !.status = "RECOVERING", !.resume = "NONE", !.recovery = recovery]
<1>1. attempt \in Nat
  BY DEF NextAttempt, RunRow
<1>2. code \in FailureCodes
  BY DEF FailureCodes
<1>. HIDE DEF attempt
<1>3. /\ recovery \in [phase: {"NONE", "PLANNING"}, attempt: 0..MaxAttempts, active: BOOLEAN,
                       accounting: {FALSE}]
      /\ recovery.phase = "PLANNING"
  <2>1. (IF attempt > MaxAttempts THEN MaxAttempts ELSE attempt) \in 0..MaxAttempts
    BY <1>1, PolicyAssumption
  <2>2. retryable \in BOOLEAN
    OBVIOUS
  <2>. QED BY <2>1, <2>2
<1>4. BeginRecovery(r, d) = IF retryable THEN t ELSE Fail(s, code)
  BY DEF BeginRecovery, To, attempt, RunRow
<1>. HIDE DEF recovery, code, retryable
<1>5. s \in RunRow /\ s.status = "PLANNING" /\ s.chain = r.chain
  BY <1>3 DEF RunRow
<1>6. t \in RunRow /\ t.status = "RECOVERING" /\ t.chain = r.chain /\ t.recovery = recovery
  BY <1>3 DEF RunRow, Statuses
<1>. HIDE DEF s, t
<1>7. CASE retryable
  BY <1>3, <1>4, <1>6, <1>7 DEF Follows
<1>8. CASE ~retryable
  BY <1>2, <1>4, <1>5, <1>8, FailEnds DEF Follows
<1>. QED BY <1>7, <1>8

LEMMA ResumeFollows ==
  ASSUME NEW r \in RunRow, CanResumeRecovery(r), r.recovery.phase = "PLANNING"
  PROVE  Follows(r, ResumeRecovery(r)) /\ ResumeRecovery(r).status = "PLANNING"
<1>. DEFINE recovery == [r.recovery EXCEPT !.active = FALSE]
<1>1. recovery \in [phase: {"NONE", "PLANNING"}, attempt: 0..MaxAttempts, active: BOOLEAN,
                    accounting: {FALSE}]
  BY DEF RunRow
<1>2. ResumeRecovery(r) = [r EXCEPT !.status = "PLANNING", !.resume = "NONE", !.recovery = recovery]
  BY DEF ResumeRecovery, To, RunRow
<1>. HIDE DEF recovery
<1>. QED BY <1>1, <1>2 DEF Follows, RunRow, Statuses

LEMMA ClearedFollows ==
  ASSUME NEW r \in RunRow, r.status = "RECOVERING" => r.recovery.phase = "PLANNING"
  PROVE  Follows(r, Cleared(r)) /\ Cleared(r).status = r.status
<1>1. NoRecovery \in [phase: {"NONE", "PLANNING"}, attempt: 0..MaxAttempts, active: BOOLEAN,
                      accounting: {FALSE}]
  BY PolicyAssumption DEF NoRecovery
<1>. QED BY <1>1 DEF Cleared, Follows, RunRow

-----------------------------------------------------------------------------
(* The stage of the worker, and what a stage that returns makes of the worker. *)

LEMMA ChainsAre == RowsTyped => run.chain \in AllChains
  BY PlanningAssumption DEF RowsTyped, RunRow, AllChains

LEMMA StageIs ==
  ASSUME RowsTyped, Placed(run.chain, worker), worker.at \in Staged
  PROVE  /\ Stage \in Stages /\ Stage = StageOf(run.chain, worker)
         /\ Key \in Keys /\ Key = KeyOf(run.chain, worker)
         /\ Request(worker.extra) \in Requests /\ Request(worker.extra) = RequestOf(run.chain, worker)
         /\ Stage \in Manuscripts <=> Chain4
         /\ \A i \in 1..Len(worker.made) : Course[run.chain][i] # Stage
<1>1. run.chain \in AllChains
  BY ChainsAre
<1>2. worker.made \in Seq(AllTexts) /\ worker.extra \in Extras /\ worker.repair \in {0, 1}
      /\ worker.pictures \in Versions /\ 0 \in Versions
  BY PlanningAssumption DEF RowsTyped, WorkerRow, Versions
<1>. DEFINE n == Len(worker.made) + 1
<1>3. /\ n \in 1..Len(Course[run.chain])
      /\ \A i \in 1..Len(worker.made) : i # n /\ i \in 1..Len(Course[run.chain])
  BY <1>1, <1>2, CourseIs, LenProperties DEF Placed
<1>4. Course[run.chain][n] \in Stages
  BY <1>1, <1>3, CourseIs, ElementOfSeq
<1>5. Stage = Course[run.chain][n]
  BY DEF Stage
<1>6. \A i \in 1..Len(worker.made) : Course[run.chain][i] # Course[run.chain][n]
  BY <1>1, <1>3, CourseIs
<1>7. Course[run.chain][n] \in Manuscripts <=> run.chain = "CHAIN_4"
  BY <1>1, <1>3, CourseIs
<1>8. Stage = StageOf(run.chain, worker) /\ Key = KeyOf(run.chain, worker)
  BY DEF Stage, StageOf, Key, KeyOf
<1>9. Request(worker.extra) \in Requests /\ Request(worker.extra) = RequestOf(run.chain, worker)
  BY <1>2 DEF Request, Requests, RequestOf, Chain4
<1>10. Key \in Keys
  BY <1>2, <1>4, <1>5 DEF Key, Keys
<1>. QED BY <1>4, <1>5, <1>6, <1>7, <1>8, <1>9, <1>10 DEF Chain4

\* What keeps the worker in its place.
LEMMA PlacedAgain ==
  ASSUME NEW c, NEW w, NEW v, Placed(c, w), v.made = w.made,
         v.at \in Staged => w.at \in Staged,
         v.at \in Early => w.at \in Early, v.at \in Late => w.at \in Late,
         v.at \in Early \cup Late => v.repair = w.repair,
         v.at \in {"evidence", "claim", "exhaust", "compile"} => c = "CHAIN_4",
         v.at \in Reflecting => w.at \in Reflecting
  PROVE  Placed(c, v)
  BY DEF Placed, StageOf

LEMMA RestingIsPlaced ==
  ASSUME NEW c \in AllChains, NEW v \in WorkerRow, v.made = <<>>, v.repair = 0,
         v.at \in Early \cup {"open"}
  PROVE  Placed(c, v)
<1>1. Len(v.made) = 0 /\ Len(Course[c]) >= 2 /\ Len(Course[c]) \in Nat
  BY CourseIs, LenProperties
<1>. QED BY <1>1 DEF Placed, Early, Staged, Late, Reflecting

\* What the worker goes on with when a stage has returned a text: to its repair,
\* to the next stage, or to what follows the last one.
Onward(c, w, v, text) ==
  /\ v \in WorkerRow /\ Placed(c, v)
  /\ v.at \in {"open", "critic", "compile", "complete", "fail"}
  /\ v.made \in {w.made, Append(w.made, text)}
  /\ v.at \in Staged /\ v.repair = 1 => StageOf(c, v) \notin Manuscripts

LEMMA ReturnsGoesOn ==
  ASSUME RowsTyped, Placed(run.chain, worker), worker.at \in Staged,
         NEW text \in AllTexts, Returns(text)
  PROVE  Onward(run.chain, worker, worker', text)
<1>. DEFINE c == run.chain
            made == Append(worker.made, text)
            extra == IF worker.extra = "SOURCE_EVIDENCE_DISAMBIGUATION" THEN worker.extra ELSE "NONE"
            on == [worker EXCEPT !.made = made, !.repair = 0, !.replay = FALSE, !.extra = extra]
            last == Len(made) = Len(Course[c])
            repairs == Stage = "slide-briefs" /\ text = "REPAIRABLE" /\ worker.repair = 0
            again == [worker EXCEPT !.at = "open", !.repair = 1, !.replay = FALSE,
                                    !.extra = "CONTRACT_ISSUES"]
            failed == [worker EXCEPT !.at = "fail", !.error = "INTERNAL"]
<1>1. c \in AllChains /\ worker \in WorkerRow
  BY ChainsAre DEF RowsTyped
<1>2. made \in Seq(AllTexts) /\ Len(made) = Len(worker.made) + 1 /\ extra \in Extras
      /\ Len(worker.made) \in Nat /\ Len(Course[c]) \in Nat
  BY <1>1, AppendProperties, LenProperties, CourseIs DEF WorkerRow, Extras
<1>3. Len(made) <= Len(Course[c])
  BY <1>2 DEF Placed
<1>. HIDE DEF made, extra
<1>4. CASE repairs
  <2>1. worker' = again
    BY <1>4 DEF Returns
  <2>2. again \in WorkerRow /\ again.at = "open" /\ again.made = worker.made
    BY <1>1 DEF WorkerRow, Extras, Staged
  <2>3. StageOf(c, again) = "slide-briefs"
    BY <1>4, <2>2 DEF Stage, StageOf
  <2>. HIDE DEF again
  <2>4. Placed(c, again)
    BY <2>2, PlacedAgain DEF Early, Late, Reflecting
  <2>. QED BY <2>1, <2>2, <2>3, <2>4 DEF Onward, Manuscripts
<1>5. CASE ~repairs /\ Stage = "slide-briefs" /\ text \in {"REPAIRABLE", "BROKEN"}
  <2>1. worker' = failed
    BY <1>5 DEF Returns
  <2>2. failed \in WorkerRow /\ failed.at = "fail" /\ failed.made = worker.made
    BY <1>1 DEF WorkerRow, Errors
  <2>. HIDE DEF failed
  <2>3. Placed(c, failed)
    BY <2>2, PlacedAgain DEF Early, Late, Reflecting, Staged
  <2>. QED BY <2>1, <2>2, <2>3 DEF Onward, Staged, Reflecting
<1>6. CASE ~repairs /\ ~(Stage = "slide-briefs" /\ text \in {"REPAIRABLE", "BROKEN"})
  <2>. DEFINE reflected == Course[c][Len(on.made) + 1] \in Reflections
              at == IF last THEN IF Chain4 THEN "compile" ELSE "complete"
                    ELSE IF c = "CHAIN_3" /\ reflected THEN "critic" ELSE "open"
  <2>1. worker' = IF last THEN [on EXCEPT !.at = IF Chain4 THEN "compile" ELSE "complete"]
                  ELSE IF c = "CHAIN_3" /\ reflected THEN [on EXCEPT !.at = "critic"]
                  ELSE [on EXCEPT !.at = "open"]
    BY <1>1, <1>6 DEF Returns, made, extra, WorkerRow
  <2>. HIDE DEF on, reflected, last
  <2>2. /\ worker' = [on EXCEPT !.at = at]
        /\ at \in {"compile", "complete", "critic", "open"}
        /\ at \in Late => last
        /\ at \in {"critic", "open"} => ~last
        /\ at = "compile" => c = "CHAIN_4"
        /\ at = "critic" => reflected
    BY <2>1 DEF Late, Chain4
  <2>. USE DEF on, reflected, last
  <2>. HIDE DEF at
  <2>. DEFINE v == [on EXCEPT !.at = at]
  <2>3. v \in WorkerRow /\ v.at = at /\ v.made = made /\ v.repair = 0 /\ on.made = made
    BY <1>1, <1>2, <2>2 DEF WorkerRow, Staged, Late, Reflecting
  <2>4. worker' = v
    BY <2>2
  <2>. HIDE DEF v
  <2>5. Placed(c, v)
    BY <1>2, <1>3, <2>2, <2>3 DEF Placed, Early, Staged, Late, Reflecting, StageOf
  <2>. QED BY <2>2, <2>3, <2>4, <2>5 DEF Onward, made
<1>. QED BY <1>4, <1>5, <1>6

-----------------------------------------------------------------------------
(* What a step makes of the row of the Run. *)

LEMMA FatalFollows == IInv /\ WorkerFatal => Follows(run, run') /\ worker' = Resting
<1>. SUFFICES ASSUME IInv, WorkerFatal PROVE Follows(run, run') /\ worker' = Resting
  OBVIOUS
<1>1. run \in RunRow /\ (run.status = "RECOVERING" => run.recovery.phase = "PLANNING")
  BY DEF IInv, RowsTyped, RunFits
<1>2. "WORKER_FATAL" \in FailureCodes
  BY DEF FailureCodes
<1>. QED BY <1>1, <1>2, FailEnds DEF WorkerFatal, Idle, Follows

\* The row keeps to its schema and the Run to its chain, and a worker that is in
\* the middle of the plan finds the Run in PLANNING, or cancelled.
LEMMA RunGoesOn == IInv /\ Next => Follows(run, run') /\ RunFits(run', worker')
<1>. SUFFICES ASSUME IInv, Next PROVE Follows(run, run') /\ RunFits(run', worker')
  OBVIOUS
<1>1. /\ run \in RunRow /\ RunFits(run, worker)
      /\ run.status = "RECOVERING" => run.recovery.phase = "PLANNING"
  BY DEF IInv, RowsTyped, RunFits
<1>2. Follows(run, run)
  BY <1>1 DEF Follows
<1>3. ASSUME Follows(run, run'), worker'.at = "idle" \/ run'.status \in {"PLANNING", "CANCELLED"}
      PROVE  Follows(run, run') /\ RunFits(run', worker')
  BY <1>3 DEF Follows, RunFits
<1>4. Resting.at = "idle"
  BY DEF Resting
<1>5. CASE Resume
  <2>1. Follows(run, run') /\ run'.status = "PLANNING"
    BY <1>1, <1>5, ResumeFollows DEF Resume, Tick
  <2>. QED BY <1>3, <2>1
<1>6. CASE SourceUnavailable
  <2>1. Follows(run, run') /\ worker'.at = "idle"
    BY <1>1, <1>6, RecoveryFollows DEF SourceUnavailable, Tick, At
  <2>. QED BY <1>3, <2>1
<1>7. CASE SourceResolved
  <2>1. Follows(run, run') /\ run'.status = "PLANNING"
    BY <1>1, <1>2, <1>7, ClearedFollows DEF SourceResolved, Tick
  <2>. QED BY <1>3, <2>1
<1>8. CASE Prepare
  <2>1. Follows(run, run') /\ (run' = run \/ worker' = Resting)
    BY <1>2, <1>8, FatalFollows DEF Prepare
  <2>2. run.status \in {"PLANNING", "CANCELLED"}
    BY <1>1, <1>8 DEF RunFits, Prepare, At
  <2>. QED BY <1>3, <1>4, <2>1, <2>2
<1>9. CASE PreflightPassed
  <2>. DEFINE r == [run EXCEPT !.protocol = TRUE]
  <2>1. r \in RunRow /\ r.status = run.status /\ r.chain = run.chain
        /\ r.recovery = run.recovery
    BY <1>1 DEF RunRow
  <2>2. run' = Cleared(r) /\ run.status \in {"PLANNING", "CANCELLED"}
    BY <1>1, <1>9 DEF RunFits, PreflightPassed, At
  <2>. HIDE DEF r
  <2>3. Follows(r, run') /\ run'.status = run.status
    BY <1>1, <2>1, <2>2, ClearedFollows
  <2>. QED BY <1>3, <2>1, <2>2, <2>3 DEF Follows
<1>10. CASE PersistWindow
  <2>1. run' \in RunRow /\ run'.status = run.status /\ run'.chain = run.chain
        /\ run'.recovery = run.recovery
    BY <1>1, <1>10 DEF RunRow, PersistWindow
  <2>2. run.status \in {"PLANNING", "CANCELLED"}
    BY <1>1, <1>10 DEF RunFits, PersistWindow, At
  <2>. QED BY <1>1, <1>3, <2>1, <2>2 DEF Follows
<1>11. CASE Answered
  <2>1. Follows(run, run') /\ run'.status = run.status
    BY <1>1, <1>11, ClearedFollows DEF Answered
  <2>2. run.status \in {"PLANNING", "CANCELLED"}
    BY <1>1, <1>11 DEF RunFits, Answered, At
  <2>. QED BY <1>3, <2>1, <2>2
<1>12. CASE Complete
  <2>1. "EXECUTING" \in Statuses \ {"PAUSED", "RECOVERING"}
    BY DEF Statuses
  <2>2. Follows(run, run') /\ (run' = run \/ worker' = Resting)
    BY <1>1, <1>2, <1>12, <2>1, ToMoves DEF Complete, Idle
  <2>3. run.status \in {"PLANNING", "CANCELLED"}
    BY <1>1, <1>12 DEF RunFits, Complete, At
  <2>. QED BY <1>3, <1>4, <2>2, <2>3
<1>13. CASE FailPlanning
  <2>1. run.status \in {"PLANNING", "CANCELLED"}
    BY <1>1, <1>13 DEF RunFits, FailPlanning, At
  <2>2. Recoverable(run) => run.status = "PLANNING"
    BY <2>1 DEF Recoverable, RecoverableStates
  <2>3. "NEEDS_HUMAN" \in Statuses \ {"PAUSED", "RECOVERING"}
    BY DEF Statuses
  <2>4. Follows(run, run') /\ worker' = Resting
    <3>1. CASE Recoverable(run) /\ run' = BeginRecovery(run, Disposition) /\ Idle
      BY <1>1, <2>2, <3>1, RecoveryFollows DEF Idle
    <3>2. CASE run' = To(run, "NEEDS_HUMAN") /\ Idle
      BY <1>1, <2>3, <3>2, ToMoves DEF Idle
    <3>3. CASE WorkerFatal
      BY <3>3, FatalFollows
    <3>. QED BY <1>13, <3>1, <3>2, <3>3 DEF FailPlanning
  <2>. QED BY <1>3, <1>4, <2>4
<1>14. CASE RetryPlanning
  <2>1. Follows(run, run') /\ run'.status = "PLANNING"
    BY <1>1, <1>14, ToMoves DEF RetryPlanning, Statuses
  <2>. QED BY <1>3, <2>1
<1>15. CASE Replan
  <2>. DEFINE r == To(run, "PLANNING")
  <2>1. r \in RunRow /\ r.status = "PLANNING" /\ r.chain = run.chain
    BY <1>1, ToMoves DEF Statuses, Follows
  <2>2. r.attempt = run.attempt
    BY <1>1 DEF To, RunRow
  <2>3. run' = [r EXCEPT !.attempt = @ + 1] /\ run.attempt < MaxReplans
    BY <1>15 DEF Replan
  <2>. HIDE DEF r
  <2>4. run.attempt + 1 \in 0..MaxReplans
    BY <1>1, <2>3, PlanningAssumption DEF RunRow
  <2>5. run' \in RunRow /\ run'.status = "PLANNING" /\ run'.chain = run.chain
    BY <2>1, <2>2, <2>3, <2>4 DEF RunRow
  <2>. QED BY <1>3, <2>5 DEF Follows
<1>16. CASE Cancel
  <2>. DEFINE r == To(run, "CANCELLED")
  <2>1. r \in RunRow /\ r.status = "CANCELLED" /\ r.chain = run.chain
    BY <1>1, ToMoves DEF Statuses, Follows
  <2>2. run' = [r EXCEPT !.finalization = Queue(r.finalization)]
    BY <1>16 DEF Cancel
  <2>3. Queue(r.finalization) \in {"NONE", "QUEUED"}
    BY <2>1 DEF Queue, RunRow
  <2>. HIDE DEF r
  <2>4. run' \in RunRow /\ run'.status = "CANCELLED" /\ run'.chain = run.chain
    BY <2>1, <2>2, <2>3 DEF RunRow
  <2>. QED BY <1>3, <2>4 DEF Follows
<1>17. CASE Drift \/ Crash
  <2>1. run' = run /\ (worker' = worker \/ worker' = Resting)
    BY <1>17 DEF Drift, Crash, Idle
  <2>. QED BY <1>1, <1>2, <1>4, <2>1 DEF RunFits
<1>18. ASSUME run' = run, worker.at # "idle"
       PROVE  Follows(run, run') /\ RunFits(run', worker')
  BY <1>1, <1>2, <1>3, <1>18 DEF RunFits
<1>19. CASE \/ ProtocolKnown \/ Preflight \/ PreflightFailed \/ OpenConflict \/ Open
            \/ EvidenceRefused \/ PersistEvidence \/ CallRefused \/ Call \/ Refused
  <2>1. run' = run /\ worker.at # "idle"
    BY <1>19 DEF ProtocolKnown, Preflight, PreflightFailed, OpenConflict, Open, EvidenceRefused,
         PersistEvidence, CallRefused, Call, Refused, At
  <2>. QED BY <1>18, <2>1
<1>20. CASE \/ Claim \/ ClaimRefused \/ Exhaust \/ Compile \/ ReflectionReplayed \/ PrepareCall
            \/ ReflectionLost \/ ReflectionRefused \/ IssuesFound \/ ReflectionFinished
  <2>1. run' = run /\ worker.at # "idle"
    BY <1>20 DEF Claim, ClaimRefused, Exhaust, Compile, ReflectionReplayed, PrepareCall,
         ReflectionLost, ReflectionRefused, IssuesFound, ReflectionFinished, At, Calls, Answers
  <2>. QED BY <1>18, <2>1
<1>. QED
  BY <1>5, <1>6, <1>7, <1>8, <1>9, <1>10, <1>11, <1>12, <1>13, <1>14, <1>15, <1>16, <1>17, <1>19,
     <1>20 DEF Next, Planning, Users

-----------------------------------------------------------------------------
(* Where a step takes the worker. *)

\* The worker with nothing but its place changed.
SameButAt(w, v) ==
  /\ v \in WorkerRow /\ v.made = w.made /\ v.repair = w.repair /\ v.extra = w.extra
  /\ v.pictures = w.pictures /\ v.replay = w.replay

LEMMA MovesAre ==
  ASSUME worker \in WorkerRow
  PROVE  /\ \A what \in Early \cup Staged \cup Late :
              Goes(what) => SameButAt(worker, worker') /\ worker'.at = what
         /\ \A error \in Errors :
              Throws(error) => SameButAt(worker, worker') /\ worker'.at = "fail"
         /\ Idle => /\ worker' \in WorkerRow /\ worker'.at = "idle"
                    /\ worker'.made = <<>> /\ worker'.repair = 0
<1>1. ASSUME NEW what \in Early \cup Staged \cup Late, Goes(what)
      PROVE  SameButAt(worker, worker') /\ worker'.at = what
  BY <1>1 DEF Goes, SameButAt, WorkerRow
<1>2. ASSUME NEW error \in Errors, Throws(error)
      PROVE  SameButAt(worker, worker') /\ worker'.at = "fail"
  BY <1>2 DEF Throws, SameButAt, WorkerRow
<1>3. Resting \in WorkerRow /\ Resting.at = "idle" /\ Resting.made = <<>> /\ Resting.repair = 0
  BY EmptySeq, PlanningAssumption DEF Resting, WorkerRow, Early, Extras, Versions
<1>. QED BY <1>1, <1>2, <1>3 DEF Idle

\* What the worker does when it leaves a stage that is not answered.
LEMMA RefusalIs ==
  ASSUME IInv, Refused
  PROVE  /\ worker' \in WorkerRow /\ worker'.made = worker.made /\ worker'.repair = worker.repair
         /\ worker'.at \in {"fail", "exhaust", "claim"}
         /\ worker'.at # "fail" => Chain4
         /\ worker'.at = "claim" => worker.repair = 0
         /\ \E error \in Errors :
              stages' = [stages EXCEPT ![Key].status = "FAILED", ![Key].error = error,
                                       ![Key].cut = FALSE]
<1>1. worker.at = "answer" /\ worker \in WorkerRow
  BY DEF IInv, RowsTyped, Refused, At
<1>2. Stage \in Manuscripts <=> Chain4
  BY <1>1, StageIs DEF IInv, Staged
<1>3. PICK o \in Outcomes :
        /\ o.error # "NONE"
        /\ stages' = [stages EXCEPT ![Key].status = "FAILED", ![Key].error = StageError(o),
                                    ![Key].cut = Completable(o) /\ o.cut]
        /\ IF ~Completable(o) THEN Throws(StageError(o))
           ELSE IF worker.repair = 1 THEN Goes("exhaust")
           ELSE worker' = [worker EXCEPT !.at = "claim", !.extra = "CONTENT_SLOT"]
  BY DEF Refused
<1>4. o.error \in Classes
  BY <1>3, AnswersAre
<1>5. StageError(o) \in Errors
  BY <1>4 DEF StageError, Errors, Classes
<1>6. (Completable(o) /\ o.cut) = FALSE
  BY <1>2, AnswersAre DEF Completable
<1>7. \E error \in Errors : stages' = [stages EXCEPT ![Key].status = "FAILED", ![Key].error = error,
                                                     ![Key].cut = FALSE]
  <2>1. stages' = [stages EXCEPT ![Key].status = "FAILED", ![Key].error = StageError(o),
                                 ![Key].cut = FALSE]
    BY <1>3, <1>6
  <2>. QED BY <1>5, <2>1
<1>8. CASE ~Completable(o)
  <2>1. Throws(StageError(o))
    BY <1>3, <1>8
  <2>2. SameButAt(worker, worker') /\ worker'.at = "fail"
    BY <1>1, <1>5, <2>1, MovesAre
  <2>. QED BY <1>7, <2>2 DEF SameButAt
<1>9. CASE Completable(o) /\ worker.repair = 1
  <2>1. Goes("exhaust")
    BY <1>3, <1>9
  <2>2. SameButAt(worker, worker') /\ worker'.at = "exhaust"
    BY <1>1, <2>1, MovesAre DEF Staged
  <2>. QED BY <1>2, <1>7, <1>9, <2>2 DEF SameButAt, Completable
<1>10. CASE Completable(o) /\ worker.repair # 1
  <2>1. worker' = [worker EXCEPT !.at = "claim", !.extra = "CONTENT_SLOT"]
    BY <1>3, <1>10
  <2>2. worker' \in WorkerRow /\ worker'.made = worker.made /\ worker'.repair = worker.repair
        /\ worker'.at = "claim" /\ worker.repair = 0
    BY <1>1, <1>10, <2>1 DEF WorkerRow, Staged, Extras
  <2>. QED BY <1>2, <1>7, <1>10, <2>2 DEF Completable
<1>. QED BY <1>8, <1>9, <1>10

\* The compiler takes the review, or has it again, or ends the planning.
LEMMA CompileIs ==
  ASSUME IInv, Compile
  PROVE  /\ worker' \in WorkerRow /\ Placed(run.chain, worker')
         /\ worker'.at \in {"complete", "exhaust", "claim", "fail"}
         /\ worker'.made \in {worker.made, Front(worker.made)} /\ worker'.repair = 0
<1>. DEFINE c == run.chain
            front == Front(worker.made)
            again == [worker EXCEPT !.made = front]
<1>1. /\ c \in AllChains /\ worker \in WorkerRow /\ Placed(c, worker)
      /\ worker.at = "compile" /\ worker.repair = 0 /\ c = "CHAIN_4"
      /\ Len(worker.made) = Len(Course[c])
  BY ChainsAre DEF IInv, RowsTyped, Compile, At, Placed, Late
<1>2. front \in Seq(AllTexts) /\ Len(front) < Len(Course[c])
  <2>1. worker.made \in Seq(AllTexts) /\ Len(worker.made) >= 2 /\ Len(worker.made) \in Nat
    BY <1>1, CourseIs, LenProperties DEF WorkerRow
  <2>2. Len(front) = Len(worker.made) - 1 /\ front \in Seq(AllTexts)
    BY <2>1, SubSeqProperties DEF Front
  <2>. QED BY <1>1, <2>1, <2>2
<1>. HIDE DEF front
<1>3. \/ worker' = [worker EXCEPT !.at = "complete"]
      \/ worker' = [again EXCEPT !.at = "exhaust"]
      \/ worker' = [again EXCEPT !.at = "claim", !.extra = "SOURCE_EVIDENCE_DISAMBIGUATION"]
      \/ worker' = [worker EXCEPT !.at = "fail", !.error = "INTERNAL"]
  BY DEF Compile, Goes, Throws, front
<1>4. CASE worker' = [worker EXCEPT !.at = "complete"]
  <2>1. worker' \in WorkerRow /\ worker'.at = "complete" /\ worker'.made = worker.made
        /\ worker'.repair = 0
    BY <1>1, <1>4 DEF WorkerRow, Late
  <2>2. Placed(c, worker')
    BY <1>1, <2>1 DEF Placed, Early, Staged, Reflecting, Late
  <2>. QED BY <2>1, <2>2
<1>5. CASE worker' = [worker EXCEPT !.at = "fail", !.error = "INTERNAL"]
  <2>1. worker' \in WorkerRow /\ worker'.at = "fail" /\ worker'.made = worker.made
        /\ worker'.repair = 0
    BY <1>1, <1>5 DEF WorkerRow, Errors
  <2>2. Placed(c, worker')
    BY <1>1, <2>1 DEF Placed, Early, Staged, Reflecting, Late
  <2>. QED BY <2>1, <2>2
<1>6. CASE \/ worker' = [again EXCEPT !.at = "exhaust"]
           \/ worker' = [again EXCEPT !.at = "claim", !.extra = "SOURCE_EVIDENCE_DISAMBIGUATION"]
  <2>1. worker' \in WorkerRow /\ worker'.at \in {"exhaust", "claim"} /\ worker'.made = front
        /\ worker'.repair = 0
    BY <1>1, <1>2, <1>6 DEF WorkerRow, Staged, Extras
  <2>2. Placed(c, worker')
    BY <1>1, <1>2, <2>1, LenProperties DEF Placed, Early, Staged, Reflecting, Late
  <2>. QED BY <2>1, <2>2 DEF front
<1>. QED BY <1>3, <1>4, <1>5, <1>6

\* The reflection of the stage, as it was and as it is left behind, has a row of its own.
LEMMA ReflectionsAre ==
  ASSUME IInv, worker.at \in Reflecting
  PROVE  /\ Stage \in Reflections /\ reflection[Stage] \in ReflectionRow
         /\ \A outcome \in {"NONE", "SOUND", "OTHER"} : Disposed(outcome) \in ReflectionRow
<1>1. Stage \in Reflections
  BY DEF IInv, Placed, StageOf, Stage
<1>2. NoReflection \in CallRow
  BY DEF NoReflection, CallRow
<1>3. \A outcome \in {"NONE", "SOUND", "OTHER"} : Disposed(outcome) \in ReflectionRow
  BY <1>2 DEF Disposed, ReflectionRow
<1>. QED BY <1>1, <1>3 DEF IInv, RowsTyped

\* The worker keeps to its schema, and to the course of its chain.
LEMMA WorkerGoesOn == IInv /\ Next => worker' \in WorkerRow /\ Placed(run.chain, worker')
<1>. SUFFICES ASSUME IInv, Next PROVE worker' \in WorkerRow /\ Placed(run.chain, worker')
  OBVIOUS
<1>. DEFINE c == run.chain
<1>1. /\ worker \in WorkerRow /\ Placed(c, worker) /\ c \in AllChains /\ RowsTyped
      /\ pictures \in Versions
  BY ChainsAre DEF IInv, RowsTyped
<1>2. CASE worker' = worker
  BY <1>1, <1>2
<1>3. CASE Idle
  BY <1>1, <1>3, MovesAre, RestingIsPlaced DEF Early
<1>4. ASSUME NEW text \in AllTexts, Returns(text), worker.at \in Staged
      PROVE  worker' \in WorkerRow /\ Placed(c, worker')
  BY <1>1, <1>4, ReturnsGoesOn DEF Onward
<1>5. ASSUME NEW error \in Errors, Throws(error)
      PROVE  worker' \in WorkerRow /\ Placed(c, worker')
  <2>1. SameButAt(worker, worker') /\ worker'.at = "fail"
    BY <1>1, <1>5, MovesAre
  <2>. QED BY <1>1, <2>1, PlacedAgain DEF SameButAt, Staged, Early, Late, Reflecting
<1>6. ASSUME NEW what \in Early \cup {"open"}, Goes(what), worker.at \in Early
      PROVE  worker' \in WorkerRow /\ Placed(c, worker')
  <2>1. SameButAt(worker, worker') /\ worker'.at = what
    BY <1>1, <1>6, MovesAre DEF Staged
  <2>2. worker.made = <<>> /\ worker.repair = 0
    BY <1>1, <1>6 DEF Placed
  <2>. QED BY <1>1, <1>6, <2>1, <2>2, RestingIsPlaced DEF SameButAt
<1>7. ASSUME NEW what \in Staged, Goes(what), worker.at \in Staged,
             what \in {"evidence", "claim", "exhaust"} => c = "CHAIN_4",
             what \in Reflecting => worker.at \in Reflecting
      PROVE  worker' \in WorkerRow /\ Placed(c, worker')
  <2>1. SameButAt(worker, worker') /\ worker'.at = what
    BY <1>1, <1>7, MovesAre
  <2>. QED BY <1>1, <1>7, <2>1, PlacedAgain DEF SameButAt, Staged, Early, Late, Reflecting
<1>8. CASE SourceResolved
  <2>1. worker' = [Resting EXCEPT !.at = "prepare", !.pictures = pictures] /\ <<>> \in Seq(AllTexts)
    BY <1>8, EmptySeq DEF SourceResolved
  <2>2. /\ worker' \in WorkerRow /\ worker'.made = <<>> /\ worker'.repair = 0
        /\ worker'.at = "prepare"
    BY <1>1, <2>1 DEF Resting, WorkerRow, Early, Extras
  <2>. QED BY <1>1, <2>2, RestingIsPlaced DEF Early
<1>9. CASE Prepare
  <2>1. \/ Goes("protocol") \/ Goes("open") \/ Throws("SOURCE_INCOMPLETE") \/ Idle
    BY <1>9 DEF Prepare, WorkerFatal
  <2>2. worker.at = "prepare"
    BY <1>9 DEF Prepare, At
  <2>. QED BY <1>3, <1>5, <1>6, <2>1, <2>2 DEF Errors, Early
<1>10. CASE ProtocolKnown \/ Preflight \/ PreflightPassed \/ PersistWindow
  <2>1. /\ Goes("window") \/ Goes("preflight") \/ Goes("open")
        /\ worker.at \in Early
    BY <1>10 DEF ProtocolKnown, Preflight, PreflightPassed, PersistWindow, At, Early
  <2>. QED BY <1>6, <2>1 DEF Early
<1>11. CASE PreflightFailed
  <2>1. PICK error \in PreflightErrors \ {"NONE"} : Throws(error)
    BY <1>11 DEF PreflightFailed
  <2>. QED BY <1>5, <2>1, PreflightErrorsAre DEF Errors
<1>12. CASE OpenConflict \/ EvidenceRefused \/ CallRefused \/ Exhaust
  <2>1. Throws("REPLAY_MISMATCH") \/ Throws("INTERNAL") \/ Throws("SEMANTIC")
    BY <1>12 DEF OpenConflict, EvidenceRefused, CallRefused, Exhaust
  <2>. QED BY <1>5, <2>1 DEF Errors
<1>13. CASE Open
  <2>1. worker.at = "open"
    BY <1>13 DEF Open, At
  <2>. DEFINE completed == stages[Key].status = "COMPLETED"
  <2>2. CASE completed /\ ~Chain4
    <3>1. Returns(stages[Key].text)
      BY <1>13, <2>2 DEF Open
    <3>2. stages[Key].text \in AllTexts
      <4>1. Key \in Keys
        BY <1>1, <2>1, StageIs DEF Staged
      <4>2. stages[Key] \in StageRow /\ StepFits(stages[Key])
        BY <4>1 DEF IInv, RowsTyped
      <4>. QED BY <2>2, <4>2 DEF StageRow, StepFits
    <3>. QED BY <1>4, <2>1, <3>1, <3>2 DEF Staged
  <2>3. CASE ~(completed /\ ~Chain4)
    <3>. DEFINE at == IF Chain4 THEN "evidence" ELSE "call"
    <3>1. worker' = [worker EXCEPT !.at = at, !.replay = completed]
      BY <1>13, <2>3 DEF Open
    <3>2. at \in {"evidence", "call"} /\ completed \in BOOLEAN /\ (at = "evidence" => c = "CHAIN_4")
      BY DEF Chain4
    <3>. HIDE DEF at, completed
    <3>3. worker' \in WorkerRow /\ worker'.at = at /\ worker'.made = worker.made
      BY <1>1, <3>1, <3>2 DEF WorkerRow, Staged
    <3>. QED BY <1>1, <2>1, <3>2, <3>3, PlacedAgain DEF Staged, Early, Late, Reflecting
  <2>. QED BY <2>2, <2>3
<1>14. CASE PersistEvidence
  <2>1. worker.at = "evidence"
    BY <1>14 DEF PersistEvidence, At
  <2>2. CASE worker.replay
    <3>1. Key \in Keys /\ Key = KeyOf(c, worker)
      BY <1>1, <2>1, StageIs DEF Staged
    <3>2. stages[Key] \in StageRow /\ StepFits(stages[Key]) /\ stages[Key].status = "COMPLETED"
      BY <2>1, <2>2, <3>1 DEF IInv, RowsTyped, Holds
    <3>3. stages[Key].text \in AllTexts
      BY <3>2 DEF StageRow, StepFits
    <3>. QED BY <1>4, <1>14, <2>1, <2>2, <3>3 DEF PersistEvidence, Staged
  <2>3. CASE ~worker.replay
    BY <1>7, <1>14, <2>1, <2>3 DEF PersistEvidence, Staged, Reflecting
  <2>. QED BY <2>2, <2>3
<1>15. CASE Call
  <2>1. Goes("answer") /\ worker.at = "call"
    BY <1>15 DEF Call, At
  <2>. QED BY <1>7, <2>1 DEF Staged, Reflecting
<1>16. CASE Answered
  <2>1. PICK text \in Texts(Stage) : Returns(text)
    BY <1>16 DEF Answered
  <2>2. text \in AllTexts /\ worker.at \in Staged
    BY <1>16, <2>1 DEF Texts, AllTexts, Answered, At, Staged
  <2>. QED BY <1>4, <2>1, <2>2
<1>17. CASE Refused
  <2>1. worker.at = "answer"
    BY <1>17 DEF Refused, At
  <2>2. /\ worker' \in WorkerRow /\ worker'.made = worker.made /\ worker'.repair = worker.repair
        /\ worker'.at \in {"fail", "exhaust", "claim"}
        /\ worker'.at # "fail" => c = "CHAIN_4"
    BY <1>17, RefusalIs DEF Chain4
  <2>. QED BY <1>1, <2>1, <2>2, PlacedAgain DEF Staged, Early, Late, Reflecting
<1>18. CASE Claim
  <2>1. worker.at = "claim" /\ worker' = [worker EXCEPT !.at = "open", !.repair = 1]
    BY <1>18 DEF Claim, At
  <2>2. worker' \in WorkerRow /\ worker'.at = "open" /\ worker'.made = worker.made
    BY <1>1, <2>1 DEF WorkerRow, Staged
  <2>. QED BY <1>1, <2>1, <2>2, PlacedAgain DEF Staged, Early, Late, Reflecting
<1>19. CASE ClaimRefused
  <2>1. worker.at = "claim" /\ (Throws("REPLAY_MISMATCH") \/ Goes("exhaust"))
    BY <1>19 DEF ClaimRefused, At
  <2>2. c = "CHAIN_4"
    BY <1>1, <2>1 DEF Placed
  <2>. QED BY <1>5, <1>7, <2>1, <2>2 DEF Errors, Staged, Reflecting
<1>20. CASE Compile
  BY <1>20, CompileIs
<1>21. CASE ReflectionReplayed
  <2>1. worker.at \in Reflecting
    BY <1>21 DEF ReflectionReplayed, At, Reflecting
  <2>2. Reflected.outcome \in AllTexts
    BY <1>21, <2>1, ReflectionsAre DEF Reflected, ReflectionRow, AllTexts, ReflectionReplayed
  <2>. QED BY <1>4, <1>21, <2>1, <2>2 DEF ReflectionReplayed, Staged
<1>22. ASSUME Skip, worker.at \in Reflecting
       PROVE  worker' \in WorkerRow /\ Placed(c, worker')
  BY <1>4, <1>22 DEF Skip, Staged, AllTexts
<1>23. CASE PrepareCall
  <2>1. worker.at \in {"critic", "optimizer"}
    BY <1>23 DEF PrepareCall, Calls
  <2>2. Answers[worker.at] \in {"critic-answer", "optimizer-answer"}
    BY <2>1 DEF Answers
  <2>3. Skip \/ \E what \in {"optimizer", "critic-answer", "optimizer-answer"} : Goes(what)
    BY <1>23, <2>2 DEF PrepareCall
  <2>. QED BY <1>7, <1>22, <2>1, <2>3 DEF Staged, Reflecting
<1>24. CASE ReflectionLost \/ ReflectionRefused \/ IssuesFound
  <2>1. worker.at \in {"critic-answer", "optimizer-answer"}
    BY <1>24 DEF ReflectionLost, ReflectionRefused, IssuesFound, At, Calls, Answers
  <2>2. Skip \/ Goes("critic") \/ Goes("optimizer")
    BY <1>24 DEF ReflectionLost, ReflectionRefused, IssuesFound
  <2>. QED BY <1>7, <1>22, <2>1, <2>2 DEF Staged, Reflecting
<1>25. CASE ReflectionFinished
  <2>1. worker.at \in {"critic-answer", "optimizer-answer"}
    BY <1>25 DEF ReflectionFinished, Calls, Answers
  <2>2. Returns("SOUND") \/ Returns("OTHER")
    BY <1>25 DEF ReflectionFinished
  <2>. QED BY <1>4, <2>1, <2>2 DEF Staged, Reflecting, AllTexts
<1>26. CASE Complete
  <2>1. Idle \/ Throws("INTERNAL")
    BY <1>26 DEF Complete
  <2>. QED BY <1>3, <1>5, <2>1 DEF Errors
<1>27. CASE FailPlanning \/ Crash
  <2>1. Idle
    BY <1>27 DEF FailPlanning, Crash, WorkerFatal
  <2>. QED BY <1>3, <2>1
<1>28. CASE Resume \/ SourceUnavailable \/ Users \/ Drift
  <2>1. worker' = worker
    BY <1>28 DEF Resume, SourceUnavailable, Users, RetryPlanning, Replan, Cancel, Drift
  <2>. QED BY <1>2, <2>1
<1>. QED
  BY <1>8, <1>9, <1>10, <1>11, <1>12, <1>13, <1>14, <1>15, <1>16, <1>17, <1>18, <1>19, <1>20, <1>21,
     <1>23, <1>24, <1>25, <1>26, <1>27, <1>28 DEF Next, Planning

-----------------------------------------------------------------------------
(* Which steps write which records, and that they keep to their schemas. *)

LEMMA WhoWrites ==
  Next =>
    /\ stages' = stages \/ Open \/ EvidenceRefused \/ Answered \/ Refused \/ Replan
    /\ audit' = audit \/ Call \/ Answered \/ Refused \/ Claim \/ Exhaust \/ Replan
    /\ evidence' = evidence \/ PersistEvidence \/ Replan
    /\ \/ reflection' = reflection \/ PrepareCall \/ ReflectionLost \/ ReflectionRefused
       \/ IssuesFound \/ ReflectionFinished \/ Replan
    /\ sent' = sent \/ Call \/ Replan
    /\ \/ steps' = steps \/ SourceUnavailable \/ SourceResolved \/ Prepare \/ Preflight
       \/ PreflightPassed \/ PreflightFailed \/ Complete \/ FailPlanning \/ Replan
    /\ pictures' = pictures \/ Drift
<1>1. CASE \/ Resume \/ SourceUnavailable \/ SourceResolved \/ Prepare \/ ProtocolKnown \/ Preflight
           \/ PreflightPassed \/ PreflightFailed \/ PersistWindow
  BY <1>1 DEF Resume, SourceUnavailable, SourceResolved, Prepare, ProtocolKnown, Preflight,
     PreflightPassed, PreflightFailed, PersistWindow
<1>2. CASE \/ OpenConflict \/ Open \/ EvidenceRefused \/ PersistEvidence \/ CallRefused \/ Call
           \/ Answered \/ Refused
  BY <1>2 DEF OpenConflict, Open, EvidenceRefused, PersistEvidence, CallRefused, Call, Answered, Refused
<1>3. CASE Claim \/ ClaimRefused \/ Exhaust \/ Compile \/ Complete \/ FailPlanning
  BY <1>3 DEF Claim, ClaimRefused, Exhaust, Compile, Complete, FailPlanning
<1>4. CASE \/ ReflectionReplayed \/ PrepareCall \/ ReflectionLost \/ ReflectionRefused \/ IssuesFound
           \/ ReflectionFinished
  BY <1>4 DEF ReflectionReplayed, PrepareCall, ReflectionLost, ReflectionRefused, IssuesFound,
     ReflectionFinished
<1>5. CASE Users \/ Drift \/ Crash
  BY <1>5 DEF Users, RetryPlanning, Replan, Cancel, Drift, Crash
<1>. QED BY <1>1, <1>2, <1>3, <1>4, <1>5 DEF Next, Planning

\* A write of the step the worker is in the middle of.
LEMMA StageWrites ==
  ASSUME IInv, Next
  PROVE  \/ stages' = stages
         \/ Replan /\ stages' = FreshStages
         \/ \E row \in StageRow :
              /\ StepFits(row) /\ row.status # "NONE" /\ row.request = Request(worker.extra)
              /\ Key \in Keys /\ worker.at \in Staged
              /\ stages' = [stages EXCEPT ![Key] = row]
              /\ Open => row.status = "RUNNING" /\ ~Conflicts /\ stages[Key].status # "COMPLETED"
              /\ ~Open => stages[Key].status = "RUNNING" /\ stages[Key].request = row.request
<1>. DEFINE Writes(row) ==
       /\ StepFits(row) /\ row.status # "NONE" /\ row.request = Request(worker.extra)
       /\ Key \in Keys /\ worker.at \in Staged
       /\ stages' = [stages EXCEPT ![Key] = row]
       /\ Open => row.status = "RUNNING" /\ ~Conflicts /\ stages[Key].status # "COMPLETED"
       /\ ~Open => stages[Key].status = "RUNNING" /\ stages[Key].request = row.request
<1>1. ASSUME worker.at \in Staged
      PROVE  /\ Key \in Keys /\ Key = KeyOf(run.chain, worker) /\ stages[Key] \in StageRow
             /\ StepFits(stages[Key]) /\ Request(worker.extra) \in Requests
             /\ Request(worker.extra) = RequestOf(run.chain, worker)
             /\ stages \in [Keys -> StageRow]
  <2>1. /\ Key \in Keys /\ Key = KeyOf(run.chain, worker)
        /\ Request(worker.extra) \in Requests
        /\ Request(worker.extra) = RequestOf(run.chain, worker)
    BY <1>1, StageIs DEF IInv
  <2>. QED BY <2>1 DEF IInv, RowsTyped
<1>2. ASSUME worker.at \in {"call", "answer"} \/ (worker.at = "evidence" /\ ~worker.replay)
      PROVE  stages[Key].status = "RUNNING" /\ stages[Key].request = Request(worker.extra)
             /\ stages[Key].text = "NONE" /\ stages[Key].error = "NONE"
  <2>1. worker.at \in Staged
    BY <1>2 DEF Staged
  <2>2. stages[Key].status = "RUNNING" /\ stages[Key].request = Request(worker.extra)
    BY <1>1, <1>2, <2>1 DEF IInv, Holds
  <2>. QED BY <1>1, <2>1, <2>2 DEF StepFits
<1>3. CASE Open
  <2>1. worker.at \in Staged /\ ~Conflicts
    BY <1>3 DEF Open, At, Staged
  <2>2. CASE stages[Key].status = "COMPLETED"
    BY <1>3, <2>2 DEF Open
  <2>3. CASE stages[Key].status # "COMPLETED"
    <3>. DEFINE row == [NoStep EXCEPT !.status = "RUNNING", !.request = Request(worker.extra)]
    <3>1. stages' = [stages EXCEPT ![Key] = row]
      BY <1>3, <2>3 DEF Open
    <3>2. row \in StageRow /\ StepFits(row) /\ row.status = "RUNNING"
          /\ row.request = Request(worker.extra)
      BY <1>1, <2>1 DEF NoStep, StageRow, StepFits
    <3>. HIDE DEF row
    <3>3. Writes(row)
      BY <1>1, <1>3, <2>1, <2>3, <3>1, <3>2
    <3>. QED BY <3>2, <3>3
  <2>. QED BY <2>2, <2>3
<1>4. ASSUME NEW row \in StageRow, ~Open, StepFits(row), row.status # "NONE", worker.at \in Staged,
             row.request = stages[Key].request, stages' = [stages EXCEPT ![Key] = row],
             stages[Key].status = "RUNNING", stages[Key].request = Request(worker.extra)
      PROVE  \E r \in StageRow : Writes(r)
  <2>1. Writes(row)
    BY <1>1, <1>4
  <2>. QED BY <2>1
<1>5. CASE EvidenceRefused
  <2>1. worker.at = "evidence" /\ ~Open
    BY <1>5 DEF EvidenceRefused, Open, At
  <2>2. CASE worker.replay
    BY <1>5, <2>2 DEF EvidenceRefused
  <2>3. CASE ~worker.replay
    <3>. DEFINE row == [stages[Key] EXCEPT !.status = "FAILED", !.error = "REPLAY_MISMATCH"]
    <3>1. stages' = [stages EXCEPT ![Key] = row]
      BY <1>5, <2>3 DEF EvidenceRefused
    <3>2. stages[Key] \in StageRow /\ StepFits(stages[Key])
      BY <1>1, <2>1 DEF Staged
    <3>3. row \in StageRow /\ row.status = "FAILED" /\ row.error = "REPLAY_MISMATCH"
          /\ row.request = stages[Key].request /\ row.text = "NONE" /\ row.cut = FALSE
      BY <1>2, <2>1, <2>3, <3>2 DEF StageRow, Errors, StepFits
    <3>. HIDE DEF row
    <3>. QED BY <1>2, <1>4, <2>1, <2>3, <3>1, <3>3 DEF StepFits, Staged
  <2>. QED BY <2>2, <2>3
<1>6. CASE Answered
  <2>1. worker.at = "answer" /\ ~Open
    BY <1>6 DEF Answered, Open, At
  <2>2. PICK text \in Texts(Stage), o \in Outcomes :
          /\ o.error = "NONE"
          /\ stages' = [stages EXCEPT ![Key].status = "COMPLETED", ![Key].text = text,
                                      ![Key].cut = o.cut]
    BY <1>6 DEF Answered
  <2>3. o.cut = FALSE /\ text \in AllTexts
    BY <2>2, AnswersAre DEF Texts, AllTexts
  <2>. DEFINE row == [stages[Key] EXCEPT !.status = "COMPLETED", !.text = text, !.cut = FALSE]
  <2>4. stages[Key] \in StageRow /\ stages \in [Keys -> StageRow] /\ Key \in Keys
    BY <1>1, <2>1 DEF Staged
  <2>5. stages' = [stages EXCEPT ![Key] = row]
    BY <2>2, <2>3, <2>4
  <2>6. stages[Key].status = "RUNNING" /\ stages[Key].request = Request(worker.extra)
        /\ stages[Key].error = "NONE"
    BY <1>2, <2>1
  <2>7. row \in StageRow /\ row.status = "COMPLETED" /\ row.text = text /\ row.error = "NONE"
        /\ row.request = stages[Key].request /\ row.cut = FALSE
    <3>. DEFINE step == stages[Key]
    <3>1. step \in StageRow /\ step.error = "NONE"
      BY <2>4, <2>6
    <3>. HIDE DEF step
    <3>2. /\ [step EXCEPT !.status = "COMPLETED", !.text = text, !.cut = FALSE] \in StageRow
          /\ [step EXCEPT !.status = "COMPLETED", !.text = text, !.cut = FALSE].error = "NONE"
      BY <2>3, <3>1 DEF StageRow
    <3>. USE DEF step
    <3>. QED BY <2>4, <3>2 DEF StageRow
  <2>. HIDE DEF row
  <2>8. StepFits(row) /\ row.status # "NONE" /\ worker.at \in Staged
    BY <2>1, <2>3, <2>7 DEF StepFits, Staged, AllTexts
  <2>. QED BY <1>4, <2>1, <2>5, <2>6, <2>7, <2>8
<1>7. CASE Refused
  <2>1. worker.at = "answer" /\ ~Open
    BY <1>7 DEF Refused, Open, At
  <2>2. PICK error \in Errors :
          stages' = [stages EXCEPT ![Key].status = "FAILED", ![Key].error = error, ![Key].cut = FALSE]
    BY <1>7, RefusalIs
  <2>. DEFINE row == [stages[Key] EXCEPT !.status = "FAILED", !.error = error, !.cut = FALSE]
  <2>3. stages[Key] \in StageRow /\ stages \in [Keys -> StageRow] /\ Key \in Keys
    BY <1>1, <2>1 DEF Staged
  <2>4. stages' = [stages EXCEPT ![Key] = row]
    BY <2>2, <2>3
  <2>5. stages[Key].status = "RUNNING" /\ stages[Key].request = Request(worker.extra)
        /\ stages[Key].text = "NONE"
    BY <1>2, <2>1
  <2>6. row \in StageRow /\ row.status = "FAILED" /\ row.error = error /\ row.text = "NONE"
        /\ row.request = stages[Key].request /\ row.cut = FALSE
    <3>. DEFINE step == stages[Key]
    <3>1. step \in StageRow /\ step.text = "NONE"
      BY <2>3, <2>5
    <3>. HIDE DEF step
    <3>2. /\ [step EXCEPT !.status = "FAILED", !.error = error, !.cut = FALSE] \in StageRow
          /\ [step EXCEPT !.status = "FAILED", !.error = error, !.cut = FALSE].text = "NONE"
      BY <3>1 DEF StageRow
    <3>. USE DEF step
    <3>. QED BY <2>3, <3>2 DEF StageRow
  <2>. HIDE DEF row
  <2>7. StepFits(row) /\ row.status # "NONE" /\ worker.at \in Staged
    BY <2>1, <2>6 DEF StepFits, Staged, Errors, Classes
  <2>. QED BY <1>4, <2>1, <2>4, <2>5, <2>6, <2>7
<1>8. CASE Replan
  BY <1>8 DEF Replan
<1>. QED BY <1>3, <1>5, <1>6, <1>7, <1>8, WhoWrites

LEMMA RowsStayTyped == IInv /\ Next => RowsTyped' /\ \A k \in Keys : StepFits(stages'[k])
<1>. SUFFICES ASSUME IInv, Next PROVE RowsTyped' /\ \A k \in Keys : StepFits(stages'[k])
  OBVIOUS
<1>1. run' \in RunRow /\ worker' \in WorkerRow
  BY RunGoesOn, WorkerGoesOn DEF Follows
<1>2. stages' \in [Keys -> StageRow] /\ \A k \in Keys : StepFits(stages'[k])
  <2>1. NoStep \in StageRow /\ StepFits(NoStep)
    BY DEF NoStep, StageRow, StepFits
  <2>2. FreshStages \in [Keys -> StageRow] /\ \A k \in Keys : StepFits(FreshStages[k])
    BY <2>1 DEF FreshStages
  <2>. QED BY <2>2, StageWrites DEF IInv, RowsTyped
<1>3. audit' \in [Stages -> AuditRow]
  <2>1. audit \in [Stages -> AuditRow]
    BY DEF IInv, RowsTyped
  <2>2. ASSUME worker.at \in Staged
        PROVE  Stage \in Stages /\ audit[Stage] \in AuditRow /\ worker.repair \in {0, 1}
    BY <2>1, <2>2, StageIs DEF IInv, RowsTyped, WorkerRow
  <2>3. CASE Call
    <3>1. worker.at \in Staged
      BY <2>3 DEF Call, At, Staged
    <3>. DEFINE calls == IF audit[Stage].open = {} THEN audit[Stage].calls + 1 ELSE audit[Stage].calls
                row == [audit[Stage] EXCEPT !.calls = calls, !.open = {worker.repair}]
    <3>2. audit' = [audit EXCEPT ![Stage] = row]
      <4>1. audit' = [audit EXCEPT ![Stage].calls = calls, ![Stage].open = {worker.repair}]
        BY <2>3 DEF Call
      <4>2. Stage \in Stages
        BY <2>2, <3>1
      <4>. HIDE DEF calls
      <4>. QED BY <2>1, <4>1, <4>2
    <3>3. calls \in 0..MaxCalls
      <4>1. audit[Stage].open = {} => audit[Stage].calls < MaxCalls
        BY <2>3 DEF Call
      <4>2. audit[Stage].calls \in 0..MaxCalls
        BY <2>2, <3>1 DEF AuditRow
      <4>. QED BY <4>1, <4>2, PlanningAssumption
    <3>. HIDE DEF calls
    <3>4. row \in AuditRow
      BY <2>2, <3>1, <3>3 DEF AuditRow
    <3>. QED BY <2>1, <3>2, <3>4
  <2>4. CASE Answered \/ Refused
    <3>1. worker.at \in Staged /\ audit' = [audit EXCEPT ![Stage].open = {}]
      BY <2>4 DEF Answered, Refused, At, Staged
    <3>. QED BY <2>1, <2>2, <3>1 DEF AuditRow
  <2>5. CASE Claim \/ Exhaust
    <3>1. worker.at \in Staged
      BY <2>5 DEF Claim, Exhaust, At, Staged
    <3>2. \/ audit' = [audit EXCEPT ![Stage].used = TRUE]
          \/ audit' = [audit EXCEPT ![Stage].exhausted = TRUE]
      BY <2>5 DEF Claim, Exhaust
    <3>3. /\ [audit[Stage] EXCEPT !.used = TRUE] \in AuditRow
          /\ [audit[Stage] EXCEPT !.exhausted = TRUE] \in AuditRow
      BY <2>2, <3>1 DEF AuditRow
    <3>. QED BY <2>1, <2>2, <3>1, <3>2, <3>3
  <2>6. CASE Replan
    <3>1. NoAudit \in AuditRow
      BY PlanningAssumption DEF NoAudit, AuditRow
    <3>. QED BY <2>6, <3>1 DEF Replan, FreshAudit
  <2>. QED BY <2>1, <2>3, <2>4, <2>5, <2>6, WhoWrites
<1>4. evidence' \in [Keys -> SUBSET Versions]
  <2>1. evidence \in [Keys -> SUBSET Versions] /\ worker.pictures \in Versions
    BY DEF IInv, RowsTyped, WorkerRow
  <2>2. CASE PersistEvidence
    BY <2>1, <2>2 DEF PersistEvidence
  <2>3. CASE Replan
    BY <2>3 DEF Replan, FreshEvidence
  <2>. QED BY <2>1, <2>2, <2>3, WhoWrites
<1>5. reflection' \in [Reflections -> ReflectionRow]
  <2>1. reflection \in [Reflections -> ReflectionRow]
    BY DEF IInv, RowsTyped
  <2>2. ASSUME worker.at \in Reflecting
        PROVE  /\ Stage \in Reflections /\ reflection[Stage] \in ReflectionRow
               /\ \A outcome \in {"NONE", "SOUND", "OTHER"} : Disposed(outcome) \in ReflectionRow
    BY <2>2, ReflectionsAre
  <2>3. CASE PrepareCall
    <3>1. worker.at \in {"critic", "optimizer"}
      BY <2>3 DEF PrepareCall, Calls
    <3>2. worker.at \in Reflecting /\ Phase \in Phases
      BY <3>1 DEF Reflecting, Phase, Phases
    <3>3. CASE reflection' = [reflection EXCEPT ![Stage] = Disposed("SOUND")]
      BY <2>1, <2>2, <3>2, <3>3
    <3>4. CASE /\ reflection' = [reflection EXCEPT ![Stage][Phase] =
                                   [status |-> "RUNNING", attempts |-> @.attempts + 1]]
               /\ CallStep.attempts < 2
      <4>. DEFINE attempts == reflection[Stage][Phase].attempts
                  call == [status |-> "RUNNING", attempts |-> attempts + 1]
      <4>1. reflection[Stage][Phase] \in CallRow /\ attempts < 2
        BY <2>2, <3>2, <3>4 DEF ReflectionRow, Phases, CallStep, Reflected
      <4>2. call \in CallRow
        BY <4>1 DEF CallRow
      <4>3. reflection' = [reflection EXCEPT ![Stage] = [reflection[Stage] EXCEPT ![Phase] = call]]
        BY <3>4
      <4>. HIDE DEF call
      <4>4. [reflection[Stage] EXCEPT ![Phase] = call] \in ReflectionRow
        <5>1. CASE Phase = "CRITIC"
          BY <2>2, <3>2, <4>2, <5>1 DEF ReflectionRow
        <5>2. CASE Phase = "OPTIMIZER"
          BY <2>2, <3>2, <4>2, <5>2 DEF ReflectionRow
        <5>. QED BY <3>2, <5>1, <5>2 DEF Phases
      <4>. QED BY <2>1, <2>2, <3>2, <4>3, <4>4
    <3>. QED BY <2>1, <2>3, <3>3, <3>4 DEF PrepareCall, Skip
  <2>4. CASE ReflectionLost \/ ReflectionRefused \/ ReflectionFinished
    <3>1. worker.at \in Reflecting
      BY <2>4 DEF ReflectionLost, ReflectionRefused, ReflectionFinished, Calls, Answers, Reflecting
    <3>2. reflection' = reflection \/ \E outcome \in {"SOUND", "OTHER"} :
            reflection' = [reflection EXCEPT ![Stage] = Disposed(outcome)]
      BY <2>4 DEF ReflectionLost, ReflectionRefused, ReflectionFinished, Skip
    <3>. QED BY <2>1, <2>2, <3>1, <3>2
  <2>5. CASE IssuesFound
    <3>1. worker.at \in Reflecting
      BY <2>5 DEF IssuesFound, At, Reflecting
    <3>. QED BY <2>1, <2>2, <2>5, <3>1 DEF IssuesFound, ReflectionRow, CallRow
  <2>6. CASE Replan
    <3>1. NoReflection \in CallRow
      BY DEF NoReflection, CallRow
    <3>. QED BY <2>6, <3>1 DEF Replan, FreshReflection, Disposed, ReflectionRow
  <2>. QED BY <2>1, <2>3, <2>4, <2>5, <2>6, WhoWrites
<1>6. sent' \in [Keys -> SUBSET (Requests \X Versions)]
  <2>1. sent \in [Keys -> SUBSET (Requests \X Versions)]
    BY DEF IInv, RowsTyped
  <2>2. CASE Call
    <3>1. worker.at \in Staged
      BY <2>2 DEF Call, At, Staged
    <3>2. <<Request(worker.extra), worker.pictures>> \in Requests \X Versions
      BY <3>1, StageIs DEF IInv, RowsTyped, WorkerRow
    <3>. QED BY <2>1, <2>2, <3>2 DEF Call
  <2>3. CASE Replan
    BY <2>3 DEF Replan, NothingSent
  <2>. QED BY <2>1, <2>2, <2>3, WhoWrites
<1>7. steps' \in StepRows
  <2>1. steps \in StepRows /\ worker.made \in Seq(AllTexts)
    BY DEF IInv, RowsTyped, WorkerRow
  <2>2. CASE SourceUnavailable \/ SourceResolved
    BY <2>1, <2>2 DEF StepRows, SourceUnavailable, SourceResolved
  <2>3. CASE Prepare
    BY <2>1, <2>3 DEF StepRows, Prepare
  <2>4. CASE Preflight \/ PreflightPassed \/ PreflightFailed
    BY <2>1, <2>4 DEF StepRows, Preflight, PreflightPassed, PreflightFailed
  <2>5. CASE Complete \/ FailPlanning
    BY <2>1, <2>5 DEF StepRows, Complete, FailPlanning
  <2>6. CASE Replan
    BY <2>6, EmptySeq DEF StepRows, Replan, FreshSteps
  <2>. QED BY <2>1, <2>2, <2>3, <2>4, <2>5, <2>6, WhoWrites
<1>8. pictures' \in Versions
  BY WhoWrites, PlanningAssumption DEF IInv, RowsTyped, Versions, Drift
<1>. QED BY <1>1, <1>2, <1>3, <1>4, <1>5, <1>6, <1>7, <1>8 DEF RowsTyped

-----------------------------------------------------------------------------
(* What a step makes of the texts the worker has, and of the step it is in. *)

Holding == {"evidence", "call", "answer"}

\* Nothing of the worker or of the records changes.
Stays == UNCHANGED <<worker, stages, audit, evidence, reflection, sent>>

\* The worker has no texts, as when it rests.
Blank(w) == w.at \in Early /\ w.made = <<>> /\ w.repair = 0

\* It goes on with the texts it has, and with the stage it is in.
Keeps(w, v) ==
  /\ v.made = w.made /\ v.repair = w.repair
  /\ v.at \in Staged => w.at \in Staged \/ Blank(w)

\* It goes on with what its stage returned.
Gains(w, v, text) ==
  /\ w.at \in Staged /\ text \in AllTexts /\ Onward(run.chain, w, v, text)
  /\ Recorded(stages', reflection', Stage, text, w.made)

LEMMA StageReturns ==
  ASSUME IInv, NEW text \in AllTexts, Returns(text), worker.at \in Staged,
         Recorded(stages', reflection', Stage, text, worker.made)
  PROVE  \E t \in AllTexts : Gains(worker, worker', t)
<1>1. Onward(run.chain, worker, worker', text)
  BY ReturnsGoesOn DEF IInv
<1>. QED BY <1>1 DEF Gains

\* A completed step of this stage with this request is a record of its text.
LEMMA StepIsRecord ==
  ASSUME IInv, NEW st, NEW re, worker.at \in Staged, st[Key].status = "COMPLETED",
         st[Key].request = Request(worker.extra)
  PROVE  Recorded(st, re, Stage, st[Key].text, worker.made)
<1>1. Key = <<Stage, worker.repair>> /\ worker.repair \in {0, 1}
  BY DEF Key, IInv, RowsTyped, WorkerRow
<1>2. st[Key].request[1] = worker.made
  BY DEF Request
<1>. QED BY <1>1, <1>2 DEF Recorded

LEMMA WorkerMoves ==
  IInv /\ Next =>
    \/ Stays
    \/ Blank(worker')
    \/ Keeps(worker, worker') /\ (worker'.at \in Holding => Open \/ PersistEvidence \/ Call)
    \/ Claim
    \/ Compile
    \/ \E text \in AllTexts : Gains(worker, worker', text)
<1>. DEFINE Goal ==
              \/ Stays
              \/ Blank(worker')
              \/ Keeps(worker, worker') /\ (worker'.at \in Holding => Open \/ PersistEvidence \/ Call)
              \/ Claim
              \/ Compile
              \/ \E text \in AllTexts : Gains(worker, worker', text)
<1>. SUFFICES ASSUME IInv, Next PROVE Goal
  OBVIOUS
<1>1. worker \in WorkerRow /\ Placed(run.chain, worker)
  BY DEF IInv, RowsTyped
<1>2. CASE Stays
  BY <1>2
<1>3. CASE Idle
  BY <1>1, <1>3, MovesAre DEF Blank, Early
<1>4. ASSUME NEW text \in AllTexts, Returns(text), worker.at \in Staged,
             Recorded(stages', reflection', Stage, text, worker.made)
      PROVE  Goal
  BY <1>4, StageReturns
<1>5. ASSUME NEW error \in Errors, Throws(error)
      PROVE  Goal
  <2>1. SameButAt(worker, worker') /\ worker'.at = "fail"
    BY <1>1, <1>5, MovesAre
  <2>. QED BY <2>1 DEF SameButAt, Keeps, Staged, Reflecting, Holding
<1>6. ASSUME NEW what \in Early \cup Staged, Goes(what), worker.at \in Early \cup Staged,
             what \in Holding => Open \/ PersistEvidence \/ Call
      PROVE  Goal
  <2>1. SameButAt(worker, worker') /\ worker'.at = what
    BY <1>1, <1>6, MovesAre
  <2>2. worker.at \in Staged \/ Blank(worker)
    BY <1>1, <1>6 DEF Placed, Blank
  <2>. QED BY <1>6, <2>1, <2>2 DEF SameButAt, Keeps
<1>7. CASE SourceResolved
  <2>1. worker' = [Resting EXCEPT !.at = "prepare", !.pictures = pictures]
    BY <1>7 DEF SourceResolved
  <2>. QED BY <2>1 DEF Resting, Blank, Early
<1>8. CASE Prepare
  <2>1. \/ Goes("protocol") \/ Goes("open") \/ Throws("SOURCE_INCOMPLETE") \/ Idle
    BY <1>8 DEF Prepare, WorkerFatal
  <2>2. worker.at = "prepare"
    BY <1>8 DEF Prepare, At
  <2>. QED BY <1>3, <1>5, <1>6, <2>1, <2>2 DEF Errors, Early, Staged, Holding
<1>9. CASE ProtocolKnown \/ Preflight \/ PreflightPassed \/ PersistWindow
  <2>1. /\ Goes("window") \/ Goes("preflight") \/ Goes("open")
        /\ worker.at \in Early
    BY <1>9 DEF ProtocolKnown, Preflight, PreflightPassed, PersistWindow, At, Early
  <2>. QED BY <1>6, <2>1 DEF Early, Staged, Holding
<1>10. CASE PreflightFailed
  <2>1. PICK error \in PreflightErrors \ {"NONE"} : Throws(error)
    BY <1>10 DEF PreflightFailed
  <2>. QED BY <1>5, <2>1, PreflightErrorsAre DEF Errors
<1>11. CASE OpenConflict \/ EvidenceRefused \/ CallRefused \/ Exhaust
  <2>1. Throws("REPLAY_MISMATCH") \/ Throws("INTERNAL") \/ Throws("SEMANTIC")
    BY <1>11 DEF OpenConflict, EvidenceRefused, CallRefused, Exhaust
  <2>. QED BY <1>5, <2>1 DEF Errors
<1>12. CASE Open
  <2>1. worker.at = "open" /\ worker.at \in Staged
    BY <1>12 DEF Open, At, Staged
  <2>. DEFINE completed == stages[Key].status = "COMPLETED"
  <2>2. CASE completed /\ ~Chain4
    <3>1. Returns(stages[Key].text) /\ stages' = stages
      BY <1>12, <2>2 DEF Open
    <3>2. stages[Key].text \in AllTexts
      <4>1. Key \in Keys
        BY <2>1, StageIs DEF IInv
      <4>2. stages[Key] \in StageRow /\ StepFits(stages[Key])
        BY <4>1 DEF IInv, RowsTyped
      <4>. QED BY <2>2, <4>2 DEF StageRow, StepFits
    <3>3. stages[Key].request = Request(worker.extra)
      BY <1>12, <2>2 DEF Open, Conflicts
    <3>4. Recorded(stages', reflection', Stage, stages[Key].text, worker.made)
      BY <2>1, <2>2, <3>1, <3>3, StepIsRecord
    <3>. QED BY <1>4, <2>1, <3>1, <3>2, <3>4
  <2>3. CASE ~(completed /\ ~Chain4)
    <3>. DEFINE at == IF Chain4 THEN "evidence" ELSE "call"
    <3>1. worker' = [worker EXCEPT !.at = at, !.replay = completed]
      BY <1>12, <2>3 DEF Open
    <3>. HIDE DEF at, completed
    <3>2. worker'.made = worker.made /\ worker'.repair = worker.repair
      BY <1>1, <3>1 DEF WorkerRow
    <3>. QED BY <1>12, <2>1, <3>2 DEF Keeps
  <2>. QED BY <2>2, <2>3
<1>13. CASE PersistEvidence
  <2>1. worker.at = "evidence" /\ worker.at \in Staged
    BY <1>13 DEF PersistEvidence, At, Staged
  <2>2. CASE worker.replay
    <3>1. Key \in Keys /\ Key = KeyOf(run.chain, worker)
          /\ Request(worker.extra) = RequestOf(run.chain, worker)
      BY <2>1, StageIs DEF IInv
    <3>2. stages[Key] \in StageRow /\ StepFits(stages[Key]) /\ stages[Key].status = "COMPLETED"
          /\ stages[Key].request = Request(worker.extra)
      BY <2>1, <2>2, <3>1 DEF IInv, RowsTyped, Holds
    <3>3. stages[Key].text \in AllTexts
      BY <3>2 DEF StageRow, StepFits
    <3>4. Returns(stages[Key].text) /\ stages' = stages
      BY <1>13, <2>2 DEF PersistEvidence
    <3>5. Recorded(stages', reflection', Stage, stages[Key].text, worker.made)
      BY <2>1, <3>2, <3>4, StepIsRecord
    <3>. QED BY <1>4, <2>1, <3>3, <3>4, <3>5
  <2>3. CASE ~worker.replay
    BY <1>6, <1>13, <2>1, <2>3 DEF PersistEvidence, Staged
  <2>. QED BY <2>2, <2>3
<1>14. CASE Call
  <2>1. Goes("answer") /\ worker.at = "call"
    BY <1>14 DEF Call, At
  <2>. QED BY <1>6, <1>14, <2>1 DEF Staged
<1>15. CASE Answered
  <2>1. worker.at = "answer" /\ worker.at \in Staged
    BY <1>15 DEF Answered, At, Staged
  <2>2. PICK text \in Texts(Stage), o \in Outcomes :
          /\ stages' = [stages EXCEPT ![Key].status = "COMPLETED", ![Key].text = text,
                                      ![Key].cut = o.cut]
          /\ Returns(text)
    BY <1>15 DEF Answered
  <2>3. text \in AllTexts
    BY <2>2 DEF Texts, AllTexts
  <2>4. Key \in Keys /\ Key = KeyOf(run.chain, worker)
        /\ Request(worker.extra) = RequestOf(run.chain, worker)
    BY <2>1, StageIs DEF IInv
  <2>5. stages \in [Keys -> StageRow] /\ stages[Key].request = Request(worker.extra)
    BY <2>1, <2>4 DEF IInv, RowsTyped, Holds
  <2>6. /\ stages'[Key].status = "COMPLETED" /\ stages'[Key].text = text
        /\ stages'[Key].request = stages[Key].request
    BY <2>2, <2>4, <2>5 DEF StageRow
  <2>7. Recorded(stages', reflection', Stage, text, worker.made)
    BY <2>1, <2>5, <2>6, StepIsRecord
  <2>. QED BY <1>4, <2>1, <2>2, <2>3, <2>7
<1>16. CASE Refused
  <2>1. worker.at = "answer"
    BY <1>16 DEF Refused, At
  <2>2. /\ worker'.made = worker.made /\ worker'.repair = worker.repair
        /\ worker'.at \in {"fail", "exhaust", "claim"}
    BY <1>16, RefusalIs
  <2>. QED BY <2>1, <2>2 DEF Staged, Keeps, Holding
<1>17. CASE Claim \/ Compile
  BY <1>17
<1>18. CASE ClaimRefused
  <2>1. worker.at = "claim" /\ (Throws("REPLAY_MISMATCH") \/ Goes("exhaust"))
    BY <1>18 DEF ClaimRefused, At
  <2>. QED BY <1>5, <1>6, <2>1 DEF Errors, Staged, Holding
<1>19. ASSUME NEW outcome \in {"SOUND", "OTHER"}, worker.at \in Reflecting, Returns(outcome),
              reflection'[Stage].outcome = outcome
       PROVE  Goal
  <2>1. Stage \in Reflections /\ worker.at \in Staged
    BY <1>19, ReflectionsAre DEF Staged
  <2>2. Recorded(stages', reflection', Stage, outcome, worker.made)
    BY <1>19, <2>1 DEF Recorded
  <2>. QED BY <1>4, <1>19, <2>1, <2>2 DEF AllTexts
<1>20. ASSUME NEW outcome \in {"SOUND", "OTHER"}, worker.at \in Reflecting, Returns(outcome),
              reflection' = [reflection EXCEPT ![Stage] = Disposed(outcome)]
       PROVE  Goal
  <2>1. reflection'[Stage] = Disposed(outcome)
    BY <1>20, ReflectionsAre DEF IInv, RowsTyped
  <2>2. reflection'[Stage].outcome = outcome
    BY <2>1 DEF Disposed
  <2>. QED BY <1>19, <1>20, <2>2
<1>21. CASE ReflectionReplayed
  <2>1. worker.at \in Reflecting
    BY <1>21 DEF ReflectionReplayed, At, Reflecting
  <2>2. Reflected.outcome \in {"SOUND", "OTHER"}
    BY <1>21, <2>1, ReflectionsAre DEF Reflected, ReflectionRow, ReflectionReplayed
  <2>3. reflection'[Stage].outcome = Reflected.outcome
    BY <1>21 DEF ReflectionReplayed, Reflected
  <2>. QED BY <1>19, <1>21, <2>1, <2>2, <2>3 DEF ReflectionReplayed
<1>22. ASSUME Skip, worker.at \in Reflecting
       PROVE  Goal
  BY <1>20, <1>22 DEF Skip
<1>23. CASE PrepareCall
  <2>1. worker.at \in {"critic", "optimizer"}
    BY <1>23 DEF PrepareCall, Calls
  <2>2. Answers[worker.at] \in {"critic-answer", "optimizer-answer"}
    BY <2>1 DEF Answers
  <2>3. Skip \/ \E what \in {"optimizer", "critic-answer", "optimizer-answer"} : Goes(what)
    BY <1>23, <2>2 DEF PrepareCall
  <2>. QED BY <1>6, <1>22, <2>1, <2>3 DEF Staged, Reflecting, Holding
<1>24. CASE ReflectionLost \/ ReflectionRefused \/ IssuesFound
  <2>1. worker.at \in {"critic-answer", "optimizer-answer"}
    BY <1>24 DEF ReflectionLost, ReflectionRefused, IssuesFound, At, Calls, Answers
  <2>2. Skip \/ Goes("critic") \/ Goes("optimizer")
    BY <1>24 DEF ReflectionLost, ReflectionRefused, IssuesFound
  <2>. QED BY <1>6, <1>22, <2>1, <2>2 DEF Staged, Reflecting, Holding
<1>25. CASE ReflectionFinished
  <2>1. worker.at \in Reflecting
    BY <1>25 DEF ReflectionFinished, Calls, Answers, Reflecting
  <2>2. \E outcome \in {"SOUND", "OTHER"} :
          Returns(outcome) /\ reflection' = [reflection EXCEPT ![Stage] = Disposed(outcome)]
    BY <1>25 DEF ReflectionFinished
  <2>. QED BY <1>20, <2>1, <2>2
<1>26. CASE Complete
  <2>1. Idle \/ Throws("INTERNAL")
    BY <1>26 DEF Complete
  <2>. QED BY <1>3, <1>5, <2>1 DEF Errors
<1>27. CASE FailPlanning \/ Crash
  <2>1. Idle
    BY <1>27 DEF FailPlanning, Crash, WorkerFatal
  <2>. QED BY <1>3, <2>1
<1>28. CASE Replan
  <2>1. worker' = worker /\ run.status = "NEEDS_HUMAN"
    BY <1>28 DEF Replan
  <2>2. worker.at = "idle"
    BY <2>1 DEF IInv, RunFits
  <2>. QED BY <1>1, <2>1, <2>2 DEF Placed, Blank, Early
<1>29. CASE Resume \/ SourceUnavailable \/ RetryPlanning \/ Cancel \/ Drift
  <2>1. Stays
    BY <1>29 DEF Resume, SourceUnavailable, RetryPlanning, Cancel, Drift, Stays
  <2>. QED BY <1>2, <2>1
<1>. QED
  BY <1>7, <1>8, <1>9, <1>10, <1>11, <1>12, <1>13, <1>14, <1>15, <1>16, <1>17, <1>18, <1>21, <1>23,
     <1>24, <1>25, <1>26, <1>27, <1>28, <1>29 DEF Next, Planning, Users

-----------------------------------------------------------------------------
(* The step the worker is in the middle of. *)

LEMMA HoldsOn == IInv /\ Next => Holds(run.chain, worker', stages', evidence')
<1>. SUFFICES ASSUME IInv, Next PROVE Holds(run.chain, worker', stages', evidence')
  OBVIOUS
<1>. DEFINE c == run.chain
<1>1. CASE worker'.at \notin Holding
  BY <1>1 DEF Holds, Holding
<1>2. CASE Stays
  BY <1>2 DEF Stays, Holds, IInv, KeyOf, StageOf, RequestOf
<1>3. worker \in WorkerRow /\ RowsTyped /\ Placed(c, worker)
  BY DEF IInv, RowsTyped
<1>4. ASSUME worker.at \in Staged, worker'.made = worker.made, worker'.repair = worker.repair
      PROVE  KeyOf(c, worker') = Key /\ Key \in Keys /\ KeyOf(c, worker) = Key
             /\ Request(worker.extra) = RequestOf(c, worker) /\ Request(worker.extra) \in Requests
  <2>1. KeyOf(c, worker') = KeyOf(c, worker)
    BY <1>4 DEF KeyOf, StageOf
  <2>. QED BY <1>3, <1>4, <2>1, StageIs
<1>5. ASSUME SameButAt(worker, worker')
      PROVE  RequestOf(c, worker') = RequestOf(c, worker)
  BY <1>5 DEF SameButAt, RequestOf
<1>6. CASE Open /\ worker'.at \in Holding
  <2>1. worker.at = "open" /\ worker.at \in Staged /\ ~Conflicts
    BY <1>6 DEF Open, At, Staged
  <2>. DEFINE completed == stages[Key].status = "COMPLETED"
  <2>2. ~(completed /\ ~Chain4)
    <3>. SUFFICES ASSUME completed, ~Chain4 PROVE FALSE
      OBVIOUS
    <3>1. Returns(stages[Key].text)
      BY <1>6 DEF Open
    <3>2. Key \in Keys
      BY <1>3, <2>1, StageIs
    <3>3. stages[Key].text \in AllTexts
      BY <3>2 DEF IInv, RowsTyped, StepFits, StageRow
    <3>. QED BY <1>3, <1>6, <2>1, <3>1, <3>3, ReturnsGoesOn DEF Onward, Holding
  <2>. DEFINE at == IF Chain4 THEN "evidence" ELSE "call"
  <2>3. worker' = [worker EXCEPT !.at = at, !.replay = completed]
    BY <1>6, <2>2 DEF Open
  <2>4. completed \in BOOLEAN /\ at \in {"evidence", "call"} /\ (at = "call" => c # "CHAIN_4")
        /\ (completed => at = "evidence")
    BY <2>2 DEF Chain4
  <2>5. IF completed THEN stages' = stages
        ELSE stages' = [stages EXCEPT ![Key] = [NoStep EXCEPT !.status = "RUNNING",
                                                  !.request = Request(worker.extra)]]
    BY <1>6 DEF Open
  <2>6. completed => stages[Key].request = Request(worker.extra)
    BY <2>1 DEF Conflicts
  <2>. HIDE DEF at, completed
  <2>7. /\ worker'.at = at /\ worker'.replay = completed /\ worker'.made = worker.made
        /\ worker'.repair = worker.repair /\ worker'.extra = worker.extra
        /\ worker'.pictures = worker.pictures
    BY <1>3, <2>3 DEF WorkerRow
  <2>8. KeyOf(c, worker') = Key /\ Key \in Keys /\ RequestOf(c, worker') = Request(worker.extra)
    BY <1>4, <2>1, <2>7 DEF RequestOf
  <2>9. /\ stages'[Key].status = IF completed THEN "COMPLETED" ELSE "RUNNING"
        /\ stages'[Key].request = Request(worker.extra)
    <3>1. CASE completed
      BY <2>5, <2>6, <3>1 DEF completed
    <3>2. CASE ~completed
      BY <1>3, <2>5, <2>8, <3>2 DEF RowsTyped, NoStep
    <3>. QED BY <3>1, <3>2
  <2>. QED BY <2>4, <2>7, <2>8, <2>9 DEF Holds
<1>7. CASE PersistEvidence /\ worker'.at \in Holding
  <2>1. worker.at = "evidence" /\ worker.at \in Staged /\ stages' = stages
    BY <1>7 DEF PersistEvidence, At, Staged
  <2>2. Key \in Keys /\ Key = KeyOf(c, worker)
    BY <1>3, <2>1, StageIs
  <2>3. CASE worker.replay
    <3>1. stages[Key].status = "COMPLETED" /\ Returns(stages[Key].text)
      BY <1>7, <2>1, <2>2, <2>3 DEF IInv, Holds, PersistEvidence
    <3>2. stages[Key].text \in AllTexts
      BY <2>2, <3>1 DEF IInv, RowsTyped, StepFits, StageRow
    <3>. QED BY <1>3, <1>7, <2>1, <3>1, <3>2, ReturnsGoesOn DEF Onward, Holding
  <2>4. CASE ~worker.replay
    <3>1. SameButAt(worker, worker') /\ worker'.at = "call"
      BY <1>3, <1>7, <2>4, MovesAre DEF PersistEvidence, Staged
    <3>2. KeyOf(c, worker') = Key /\ RequestOf(c, worker') = RequestOf(c, worker)
          /\ worker'.pictures = worker.pictures
      BY <1>4, <1>5, <2>1, <3>1 DEF SameButAt
    <3>3. evidence'[Key] = {worker.pictures}
      BY <1>3, <1>7, <2>2 DEF PersistEvidence, RowsTyped
    <3>. QED BY <2>1, <2>2, <2>4, <3>1, <3>2, <3>3 DEF IInv, Holds
  <2>. QED BY <2>3, <2>4
<1>8. CASE Call
  <2>1. worker.at = "call" /\ Goes("answer") /\ stages' = stages
    BY <1>8 DEF Call, At
  <2>2. SameButAt(worker, worker') /\ worker'.at = "answer"
    BY <1>3, <2>1, MovesAre DEF Staged
  <2>3. KeyOf(c, worker') = KeyOf(c, worker) /\ RequestOf(c, worker') = RequestOf(c, worker)
    BY <1>4, <1>5, <2>1, <2>2 DEF SameButAt, Staged
  <2>. QED BY <2>1, <2>2, <2>3 DEF IInv, Holds
<1>9. CASE Claim
  <2>1. worker'.at = "open"
    BY <1>3, <1>9 DEF Claim, WorkerRow
  <2>. QED BY <1>1, <2>1 DEF Holding
<1>10. CASE Compile
  BY <1>1, <1>10, CompileIs DEF Holding
<1>11. ASSUME Blank(worker') \/ (\E text \in AllTexts : Gains(worker, worker', text))
       PROVE  worker'.at \notin Holding
  BY <1>11 DEF Blank, Gains, Onward, Early, Holding
<1>. QED BY <1>1, <1>2, <1>6, <1>7, <1>8, <1>9, <1>10, <1>11, WorkerMoves

-----------------------------------------------------------------------------
(* The texts the worker has. *)

LEMMA BeforeAppended ==
  ASSUME NEW S, NEW s \in Seq(S), NEW e \in S, NEW i \in 1..(Len(s) + 1)
  PROVE  SubSeq(Append(s, e), 1, i - 1) = SubSeq(s, 1, i - 1)
<1>. DEFINE t == Append(s, e)
<1>1. t \in Seq(S) /\ Len(t) = Len(s) + 1 /\ \A j \in 1..Len(s) : t[j] = s[j]
  BY AppendProperties
<1>2. Len(s) \in Nat /\ i - 1 \in 0..Len(s) /\ i - 1 \in 0..Len(t) /\ 1..(i - 1) \subseteq 1..Len(s)
  BY <1>1, LenProperties
<1>. HIDE DEF t
<1>3. SubSeq(t, 1, i - 1) = Restrict(t, 1..(i - 1)) /\ SubSeq(s, 1, i - 1) = Restrict(s, 1..(i - 1))
  BY <1>1, <1>2, SubSeqRestrict
<1>4. Restrict(t, 1..(i - 1)) = Restrict(s, 1..(i - 1))
  BY <1>1, <1>2 DEF Restrict
<1>. QED BY <1>3, <1>4 DEF t

LEMMA BeforeInFront ==
  ASSUME NEW S, NEW s \in Seq(S), Len(s) >= 1, NEW i \in 1..Len(Front(s))
  PROVE  /\ i \in 1..Len(s) /\ Front(s)[i] = s[i]
         /\ SubSeq(Front(s), 1, i - 1) = SubSeq(s, 1, i - 1)
<1>. DEFINE t == Front(s)
<1>1. t \in Seq(S) /\ Len(t) = Len(s) - 1 /\ Len(s) \in Nat /\ \A j \in 1..Len(t) : t[j] = s[j]
  BY SubSeqProperties, LenProperties DEF Front
<1>2. i \in 1..Len(t)
  OBVIOUS
<1>. HIDE DEF t
<1>3. /\ i \in 1..Len(s) /\ i - 1 \in 0..Len(s) /\ i - 1 \in 0..Len(t)
      /\ 1..(i - 1) \subseteq 1..Len(t)
  BY <1>1, <1>2
<1>4. SubSeq(t, 1, i - 1) = Restrict(t, 1..(i - 1)) /\ SubSeq(s, 1, i - 1) = Restrict(s, 1..(i - 1))
  BY <1>1, <1>3, SubSeqRestrict
<1>5. Restrict(t, 1..(i - 1)) = Restrict(s, 1..(i - 1))
  BY <1>1, <1>3 DEF Restrict
<1>. QED BY <1>1, <1>2, <1>3, <1>4, <1>5 DEF t

\* Only the records of the stage the worker is in change.
LEMMA RecordsKept ==
  ASSUME IInv, Next, ~Replan, NEW stage \in Stages, worker.at \in Staged => stage # Stage,
         NEW text, NEW before, Recorded(stages, reflection, stage, text, before)
  PROVE  Recorded(stages', reflection', stage, text, before)
<1>1. ASSUME NEW repair \in {0, 1}
      PROVE  stages'[<<stage, repair>>] = stages[<<stage, repair>>]
  <2>1. <<stage, repair>> \in Keys /\ (worker.at \in Staged => <<stage, repair>> # Key)
    BY DEF Keys, Key
  <2>. QED BY <2>1, StageWrites DEF IInv, RowsTyped
<1>2. ASSUME stage \in Reflections
      PROVE  reflection'[stage] = reflection[stage]
  <2>1. reflection \in [Reflections -> ReflectionRow]
    BY DEF IInv, RowsTyped
  <2>2. ASSUME worker.at \in Reflecting, NEW row, reflection' = [reflection EXCEPT ![Stage] = row]
        PROVE  reflection'[stage] = reflection[stage]
    BY <1>2, <2>1, <2>2 DEF Staged
  <2>3. CASE Skip /\ worker.at \in Reflecting
    BY <2>2, <2>3 DEF Skip
  <2>4. CASE PrepareCall
    <3>1. worker.at \in Reflecting
      BY <2>4 DEF PrepareCall, Calls, Reflecting
    <3>2. ASSUME NEW call, reflection' = [reflection EXCEPT ![Stage][Phase] = call]
          PROVE  reflection'[stage] = reflection[stage]
      BY <1>2, <2>1, <3>1, <3>2 DEF Staged
    <3>3. CASE reflection' = [reflection EXCEPT ![Stage][Phase] =
                                [status |-> "RUNNING", attempts |-> @.attempts + 1]]
      BY <3>2, <3>3
    <3>. QED BY <2>3, <2>4, <3>1, <3>3 DEF PrepareCall
  <2>5. CASE ReflectionLost \/ ReflectionRefused
    BY <2>3, <2>5 DEF ReflectionLost, ReflectionRefused, Calls, Answers, Reflecting
  <2>6. CASE ReflectionFinished
    <3>1. worker.at \in Reflecting
      BY <2>6 DEF ReflectionFinished, Calls, Answers, Reflecting
    <3>. QED BY <2>2, <2>6, <3>1 DEF ReflectionFinished
  <2>7. CASE IssuesFound
    <3>1. worker.at \in Staged
      BY <2>7 DEF IssuesFound, At, Staged, Reflecting
    <3>. QED BY <1>2, <2>1, <2>7, <3>1 DEF IssuesFound
  <2>. QED BY <2>4, <2>5, <2>6, <2>7, WhoWrites
<1>. QED BY <1>1, <1>2, Zenon DEF Recorded

LEMMA MadeOn == IInv /\ Next => MadeFits(run.chain, worker'.made, stages', reflection')
<1>. SUFFICES ASSUME IInv, Next PROVE MadeFits(run.chain, worker'.made, stages', reflection')
  OBVIOUS
<1>. DEFINE c == run.chain
            made == worker.made
<1>1. /\ worker \in WorkerRow /\ RowsTyped /\ Placed(c, worker) /\ made \in Seq(AllTexts)
      /\ c \in AllChains /\ MadeFits(c, made, stages, reflection) /\ Len(made) \in Nat
      /\ Len(made) <= Len(Course[c]) /\ Len(Course[c]) \in Nat
  <2>1. c \in AllChains /\ worker \in WorkerRow
    BY ChainsAre DEF IInv, RowsTyped
  <2>2. made \in Seq(AllTexts) /\ Len(made) \in Nat
    BY <2>1, LenProperties DEF WorkerRow
  <2>. QED BY <2>1, <2>2, CourseIs, LenProperties DEF IInv, Placed
<1>2. CASE worker'.made = <<>>
  BY <1>2 DEF MadeFits
<1>3. ASSUME ~Replan
      PROVE  MadeFits(c, made, stages', reflection')
  <2>. SUFFICES ASSUME NEW i \in 1..Len(made)
                PROVE  Recorded(stages', reflection', Course[c][i], made[i], SubSeq(made, 1, i - 1))
    BY DEF MadeFits
  <2>1. Recorded(stages, reflection, Course[c][i], made[i], SubSeq(made, 1, i - 1))
    BY <1>1 DEF MadeFits
  <2>2. Course[c][i] \in Stages
    <3>1. i \in 1..Len(Course[c])
      BY <1>1
    <3>. QED BY <1>1, <3>1, CourseIs, ElementOfSeq
  <2>3. worker.at \in Staged => Course[c][i] # Stage
    BY <1>1, StageIs
  <2>. QED BY <1>3, <2>1, <2>2, <2>3, RecordsKept
<1>4. ASSUME worker'.made # <<>>
      PROVE  ~Replan
  <2>1. Replan => worker' = worker /\ worker.at = "idle"
    BY DEF Replan, IInv, RunFits
  <2>. QED BY <1>1, <1>4, <2>1 DEF Placed, Early
<1>5. CASE worker'.made = made
  BY <1>2, <1>3, <1>4, <1>5
<1>6. CASE Compile
  <2>1. worker'.made \in {made, Front(made)} /\ ~Replan
    BY <1>6, CompileIs DEF Compile, Replan, At, IInv, RunFits
  <2>2. Len(made) >= 1
    <3>1. Len(made) = Len(Course[c])
      BY <1>1, <1>6 DEF Compile, At, Placed, Late
    <3>. QED BY <1>1, <3>1, CourseIs
  <2>3. CASE worker'.made = Front(made)
    <3>. DEFINE front == Front(made)
    <3>. SUFFICES ASSUME NEW i \in 1..Len(front)
                  PROVE  Recorded(stages', reflection', Course[c][i], front[i],
                                  SubSeq(front, 1, i - 1))
      BY <2>3 DEF MadeFits
    <3>1. /\ i \in 1..Len(made) /\ front[i] = made[i]
          /\ SubSeq(front, 1, i - 1) = SubSeq(made, 1, i - 1)
      BY <1>1, <2>2, BeforeInFront
    <3>. HIDE DEF front
    <3>2. Recorded(stages', reflection', Course[c][i], made[i], SubSeq(made, 1, i - 1))
      BY <1>3, <2>1, <3>1 DEF MadeFits
    <3>. QED BY <3>1, <3>2
  <2>. QED BY <1>5, <2>1, <2>3
<1>7. CASE \E text \in AllTexts : Gains(worker, worker', text)
  <2>1. PICK text \in AllTexts : Gains(worker, worker', text)
    BY <1>7
  <2>2. /\ worker.at \in Staged /\ worker'.made \in {made, Append(made, text)}
        /\ Recorded(stages', reflection', Stage, text, made)
    BY <2>1 DEF Gains, Onward
  <2>3. CASE worker'.made = Append(made, text)
    <3>. DEFINE longer == Append(made, text)
    <3>1. /\ Len(longer) = Len(made) + 1 /\ longer # <<>>
          /\ \A i \in 1..Len(made) : longer[i] = made[i]
          /\ longer[Len(made) + 1] = text
      BY <1>1, AppendProperties
    <3>2. ~Replan
      BY <1>4, <2>3, <3>1
    <3>. SUFFICES ASSUME NEW i \in 1..Len(longer)
                  PROVE  Recorded(stages', reflection', Course[c][i], longer[i],
                                  SubSeq(longer, 1, i - 1))
      BY <2>3 DEF MadeFits
    <3>3. SubSeq(longer, 1, i - 1) = SubSeq(made, 1, i - 1)
      <4>1. i \in 1..(Len(made) + 1)
        BY <3>1
      <4>. QED BY <1>1, <4>1, BeforeAppended
    <3>. HIDE DEF longer
    <3>4. CASE i = Len(made) + 1
      <4>1. SubSeq(made, 1, i - 1) = made
        BY <1>1, <3>4, SubSeqFull
      <4>2. Course[c][i] = Stage
        BY <3>4 DEF Stage
      <4>. QED BY <2>2, <3>1, <3>3, <3>4, <4>1, <4>2
    <3>5. CASE i # Len(made) + 1
      <4>1. i \in 1..Len(made) /\ longer[i] = made[i]
        BY <1>1, <3>1, <3>5
      <4>2. Recorded(stages', reflection', Course[c][i], made[i], SubSeq(made, 1, i - 1))
        BY <1>3, <3>2, <4>1 DEF MadeFits
      <4>. QED BY <3>3, <4>1, <4>2
    <3>. QED BY <3>4, <3>5
  <2>. QED BY <1>5, <2>2, <2>3
<1>8. CASE Claim
  BY <1>1, <1>5, <1>8 DEF Claim, WorkerRow
<1>. QED BY <1>2, <1>5, <1>6, <1>7, <1>8, WorkerMoves DEF Stays, Blank, Keeps

-----------------------------------------------------------------------------
(* What was sent, and under which claims. *)

LEMMA SentOn == IInv /\ Next => SentFits(run.chain, stages', evidence', sent')
<1>. SUFFICES ASSUME IInv, Next, NEW k \in Keys, NEW s \in sent'[k]
              PROVE  /\ stages'[k].status # "NONE" /\ s[1] = stages'[k].request
                     /\ IF run.chain = "CHAIN_4" THEN evidence'[k] = {s[2]}
                                                 ELSE s[2] = stages'[k].request[3]
  BY DEF SentFits
<1>1. RowsTyped /\ worker \in WorkerRow /\ Placed(run.chain, worker)
      /\ SentFits(run.chain, stages, evidence, sent)
  BY DEF IInv, RowsTyped
<1>2. ~Replan
  BY DEF Replan, NothingSent
<1>3. ASSUME stages[k].status # "NONE"
      PROVE  stages'[k].status # "NONE" /\ stages'[k].request = stages[k].request
  <2>1. CASE stages' = stages
    BY <1>3, <2>1
  <2>2. ASSUME NEW row \in StageRow, row.status # "NONE", row.request = Request(worker.extra),
               Key \in Keys, stages' = [stages EXCEPT ![Key] = row],
               Open => ~Conflicts, ~Open => stages[Key].request = row.request
        PROVE  stages'[k].status # "NONE" /\ stages'[k].request = stages[k].request
    <3>1. CASE k = Key
      <4>1. stages'[k] = row
        BY <1>1, <2>2, <3>1 DEF RowsTyped
      <4>2. stages[k].request = row.request
        BY <1>3, <2>2, <3>1 DEF Conflicts
      <4>. QED BY <2>2, <4>1, <4>2
    <3>2. CASE k # Key
      BY <1>1, <1>3, <2>2, <3>2 DEF RowsTyped
    <3>. QED BY <3>1, <3>2
  <2>. QED BY <1>2, <2>1, <2>2, StageWrites
<1>4. ASSUME evidence[k] # {}
      PROVE  evidence'[k] = evidence[k]
  <2>1. CASE PersistEvidence
    <3>1. evidence' = [evidence EXCEPT ![Key] = {worker.pictures}] /\ ~Drifted
      BY <2>1 DEF PersistEvidence
    <3>. QED BY <1>1, <1>4, <3>1 DEF Drifted, RowsTyped
  <2>. QED BY <1>2, <2>1, WhoWrites
<1>5. CASE s \in sent[k]
  <2>1. /\ stages[k].status # "NONE" /\ s[1] = stages[k].request
        /\ IF run.chain = "CHAIN_4" THEN evidence[k] = {s[2]} ELSE s[2] = stages[k].request[3]
    BY <1>1, <1>5 DEF SentFits
  <2>. QED BY <1>3, <1>4, <2>1
<1>6. CASE s \notin sent[k]
  <2>1. Call
    BY <1>2, <1>6, WhoWrites
  <2>2. worker.at = "call" /\ worker.at \in Staged /\ stages' = stages /\ evidence' = evidence
    BY <2>1 DEF Call, At, Staged
  <2>3. Key \in Keys /\ Key = KeyOf(run.chain, worker)
        /\ Request(worker.extra) = RequestOf(run.chain, worker)
    BY <1>1, <2>2, StageIs
  <2>4. k = Key /\ s = <<Request(worker.extra), worker.pictures>>
    BY <1>1, <1>6, <2>1 DEF Call, RowsTyped
  <2>5. /\ stages[Key].status = "RUNNING" /\ stages[Key].request = RequestOf(run.chain, worker)
        /\ run.chain = "CHAIN_4" => evidence[Key] = {worker.pictures}
    BY <2>2, <2>3 DEF IInv, Holds
  <2>6. run.chain # "CHAIN_4" => RequestOf(run.chain, worker)[3] = worker.pictures
    BY DEF RequestOf
  <2>7. s[1] = RequestOf(run.chain, worker) /\ s[2] = worker.pictures
    BY <2>3, <2>4
  <2>. QED BY <2>2, <2>4, <2>5, <2>6, <2>7
<1>. QED BY <1>5, <1>6

LEMMA ClaimsOn == IInv /\ Next => ClaimsFit(run.chain, worker', audit', sent')
<1>. SUFFICES ASSUME IInv, Next PROVE ClaimsFit(run.chain, worker', audit', sent')
  OBVIOUS
<1>. DEFINE c == run.chain
<1>1. /\ RowsTyped /\ worker \in WorkerRow /\ Placed(c, worker) /\ ClaimsFit(c, worker, audit, sent)
      /\ c \in AllChains /\ worker' \in WorkerRow /\ Placed(c, worker')
  BY ChainsAre, WorkerGoesOn DEF IInv, RowsTyped
<1>2. Manuscripts \subseteq Stages /\ \A m \in Manuscripts : <<m, 1>> \in Keys
  BY StagesAre DEF Keys
<1>3. CASE Replan
  <2>1. \A m \in Stages : audit'[m].used = FALSE
    BY <1>3 DEF Replan, FreshAudit, NoAudit
  <2>2. \A k \in Keys : sent'[k] = {}
    BY <1>3 DEF Replan, NothingSent
  <2>3. worker'.at \notin Staged
    BY <1>3 DEF Replan, IInv, RunFits, Staged, Reflecting
  <2>4. \E m \in Manuscripts : m \in Stages
    BY <1>2 DEF Manuscripts
  <2>. QED BY <1>2, <2>1, <2>2, <2>3, <2>4 DEF ClaimsFit
<1>4. ASSUME ~Replan, NEW m \in Stages
      PROVE  audit'[m].used = audit[m].used \/ (Claim /\ m = Stage /\ audit'[m].used = TRUE)
  <2>1. audit \in [Stages -> AuditRow]
    BY <1>1 DEF RowsTyped
  <2>2. CASE Call
    BY <2>1, <2>2 DEF Call, AuditRow
  <2>3. CASE Answered \/ Refused
    <3>1. audit' = [audit EXCEPT ![Stage].open = {}]
      BY <2>3 DEF Answered, Refused
    <3>. QED BY <2>1, <3>1 DEF AuditRow
  <2>4. CASE Claim
    BY <2>1, <2>4 DEF Claim, AuditRow
  <2>5. CASE Exhaust
    BY <2>1, <2>5 DEF Exhaust, AuditRow
  <2>. QED BY <1>4, <2>2, <2>3, <2>4, <2>5, WhoWrites
<1>5. ASSUME Claim
      PROVE  /\ worker.at = "claim" /\ worker.at \in Staged /\ Stage \in Manuscripts
             /\ audit[Stage].used \/ \A m \in Manuscripts : ~audit[m].used
             /\ worker'.made = worker.made /\ worker'.repair = 1
             /\ audit'[Stage].used = TRUE
  <2>1. worker.at = "claim" /\ worker.at \in Staged /\ MayClaim
    BY <1>5 DEF Claim, At, Staged
  <2>2. Stage \in Manuscripts
    <3>1. c = "CHAIN_4"
      BY <1>1, <2>1 DEF Placed
    <3>. QED BY <1>1, <2>1, <3>1, StageIs DEF Chain4
  <2>3. worker'.made = worker.made /\ worker'.repair = 1
    BY <1>1, <1>5 DEF Claim, WorkerRow
  <2>4. audit'[Stage].used = TRUE
    BY <1>1, <1>2, <1>5, <2>2 DEF Claim, RowsTyped, AuditRow
  <2>. QED BY <2>1, <2>2, <2>3, <2>4 DEF MayClaim
<1>6. ASSUME ~Replan
      PROVE  \E m \in Manuscripts : ~audit'[m].used
  <2>1. CASE Claim /\ ~audit[Stage].used
    <3>1. PICK m \in Manuscripts : m # Stage
      BY DEF Manuscripts
    <3>2. ~audit[m].used
      BY <1>5, <2>1
    <3>. QED BY <1>2, <1>4, <1>6, <3>1, <3>2
  <2>2. CASE ~(Claim /\ ~audit[Stage].used)
    <3>1. PICK m \in Manuscripts : ~audit[m].used
      BY <1>1 DEF ClaimsFit
    <3>2. ~(Claim /\ m = Stage)
      BY <2>2, <3>1
    <3>3. audit'[m].used = audit[m].used
      BY <1>2, <1>4, <1>6, <3>2
    <3>. QED BY <3>1, <3>3
  <2>. QED BY <2>1, <2>2
<1>7. ASSUME ~Replan, NEW m \in Manuscripts, audit[m].used
      PROVE  audit'[m].used
  <2>1. audit'[m].used = audit[m].used \/ audit'[m].used = TRUE
    BY <1>2, <1>4, <1>7
  <2>. QED BY <1>7, <2>1
<1>8. ASSUME ~Replan, NEW m \in Manuscripts, sent'[<<m, 1>>] # {}
      PROVE  audit'[m].used
  <2>1. CASE sent[<<m, 1>>] # {}
    BY <1>1, <1>7, <1>8, <2>1 DEF ClaimsFit
  <2>2. CASE sent[<<m, 1>>] = {}
    <3>1. Call
      BY <1>8, <2>2, WhoWrites
    <3>2. Key = <<m, 1>>
      BY <1>1, <1>2, <1>8, <2>2, <3>1 DEF Call, RowsTyped
    <3>3. worker.at \in Staged /\ worker.repair = 1 /\ Stage = m /\ Stage = StageOf(c, worker)
      BY <3>1, <3>2 DEF Call, At, Staged, Key, Stage, StageOf
    <3>. QED BY <1>1, <1>7, <1>8, <3>3 DEF ClaimsFit
  <2>. QED BY <2>1, <2>2
<1>9. ASSUME ~Replan, worker'.at \in Staged, worker'.repair = 1, StageOf(c, worker') \in Manuscripts
      PROVE  audit'[StageOf(c, worker')].used
  <2>1. ASSUME worker'.made = worker.made
        PROVE  StageOf(c, worker') = StageOf(c, worker)
    BY <2>1 DEF StageOf
  <2>2. ASSUME worker'.made = worker.made, worker'.repair = worker.repair, worker.at \in Staged
        PROVE  audit'[StageOf(c, worker')].used
    BY <1>1, <1>7, <1>9, <2>1, <2>2 DEF ClaimsFit
  <2>3. CASE Stays
    BY <1>9, <2>2, <2>3 DEF Stays
  <2>4. CASE Blank(worker')
    BY <1>9, <2>4 DEF Blank
  <2>5. CASE Keeps(worker, worker')
    BY <1>9, <2>2, <2>5 DEF Keeps, Blank
  <2>6. CASE Claim
    <3>1. StageOf(c, worker') = Stage
      BY <1>5, <2>1, <2>6 DEF Stage, StageOf
    <3>. QED BY <1>5, <2>6, <3>1
  <2>7. CASE Compile
    BY <1>9, <2>7, CompileIs
  <2>8. CASE \E text \in AllTexts : Gains(worker, worker', text)
    BY <1>9, <2>8 DEF Gains, Onward
  <2>. QED BY <2>3, <2>4, <2>5, <2>6, <2>7, <2>8, WorkerMoves
<1>. QED BY <1>3, <1>6, <1>8, <1>9 DEF ClaimsFit

-----------------------------------------------------------------------------
(* The execution. *)

\* Once it is executed a Run is planned no more: nothing but the pictures changes.
LEMMA StartedIsLeft ==
  ASSUME IInv, Next, steps.planning = "COMPLETED"
  PROVE  UNCHANGED <<run, steps, worker, stages, reflection>>
<1>1. run.status = "EXECUTING" /\ worker.at = "idle"
  BY DEF IInv, StartFits
<1>2. CASE \/ Resume \/ SourceUnavailable \/ SourceResolved \/ Prepare \/ ProtocolKnown \/ Preflight
           \/ PreflightPassed \/ PreflightFailed \/ PersistWindow
  BY <1>1, <1>2 DEF Resume, SourceUnavailable, SourceResolved, Prepare, ProtocolKnown, Preflight,
     PreflightPassed, PreflightFailed, PersistWindow, Tick, At
<1>3. CASE \/ OpenConflict \/ Open \/ EvidenceRefused \/ PersistEvidence \/ CallRefused \/ Call
           \/ Answered \/ Refused \/ Claim \/ ClaimRefused \/ Exhaust \/ Compile
  BY <1>1, <1>3 DEF OpenConflict, Open, EvidenceRefused, PersistEvidence, CallRefused, Call,
     Answered, Refused, Claim, ClaimRefused, Exhaust, Compile, At
<1>4. CASE \/ ReflectionReplayed \/ PrepareCall \/ ReflectionLost \/ ReflectionRefused \/ IssuesFound
           \/ ReflectionFinished \/ Complete \/ FailPlanning \/ Crash
  BY <1>1, <1>4 DEF ReflectionReplayed, PrepareCall, ReflectionLost, ReflectionRefused, IssuesFound,
     ReflectionFinished, Complete, FailPlanning, Crash, At, Calls, Answers
<1>5. CASE Users
  BY <1>1, <1>5 DEF Users, RetryPlanning, Replan, Cancel, TerminalStates
<1>6. CASE Drift
  BY <1>6 DEF Drift
<1>. QED BY <1>2, <1>3, <1>4, <1>5, <1>6 DEF Next, Planning

LEMMA StartOn == IInv /\ Next => StartFits(run', steps', worker', stages', reflection')
<1>. SUFFICES ASSUME IInv, Next PROVE StartFits(run', steps', worker', stages', reflection')
  OBVIOUS
<1>1. steps \in StepRows /\ run \in RunRow /\ worker \in WorkerRow /\ Placed(run.chain, worker)
  BY DEF IInv, RowsTyped
<1>2. CASE steps.planning = "COMPLETED"
  <2>1. /\ run' = run /\ steps' = steps /\ worker' = worker /\ stages' = stages
        /\ reflection' = reflection
    BY <1>2, StartedIsLeft
  <2>. QED BY <2>1 DEF IInv, StartFits
<1>3. CASE Complete /\ steps'.planning = "COMPLETED" /\ steps.planning # "COMPLETED"
  <2>1. /\ run' = To(run, "EXECUTING") /\ Idle /\ worker.at = "complete"
        /\ steps' = [steps EXCEPT !.planning = "COMPLETED", !.blueprint = worker.made]
        /\ stages' = stages /\ reflection' = reflection
    BY <1>3 DEF Complete, At
  <2>2. run'.status = "EXECUTING" /\ run'.chain = run.chain
    BY <1>1, <2>1, ToMoves DEF Statuses, Follows
  <2>3. worker'.at = "idle" /\ steps'.blueprint = worker.made
    BY <1>1, <2>1, MovesAre DEF StepRows
  <2>4. Len(worker.made) = Len(Course[run.chain])
    BY <1>1, <2>1 DEF Placed, Late
  <2>. QED BY <2>1, <2>2, <2>3, <2>4 DEF StartFits, IInv
<1>4. ASSUME steps.planning # "COMPLETED", ~Complete
      PROVE  steps'.planning # "COMPLETED"
  <2>1. CASE \/ SourceUnavailable \/ SourceResolved \/ Prepare \/ Preflight \/ PreflightPassed
             \/ PreflightFailed \/ FailPlanning
    BY <1>1, <1>4, <2>1 DEF StepRows, SourceUnavailable, SourceResolved, Prepare, Preflight,
       PreflightPassed, PreflightFailed, FailPlanning
  <2>2. CASE Replan
    BY <2>2 DEF Replan, FreshSteps
  <2>. QED BY <1>4, <2>1, <2>2, WhoWrites
<1>. QED BY <1>2, <1>3, <1>4 DEF StartFits

-----------------------------------------------------------------------------
(* The invariant. *)

LEMMA InitHolds == Init => IInv
<1>. SUFFICES ASSUME Init PROVE IInv
  OBVIOUS
<1>1. run \in RunRow /\ run.status = "PLANNING" /\ run.chain \in AllChains
  <2>1. NoRecovery \in [phase: {"NONE", "PLANNING"}, attempt: 0..MaxAttempts, active: BOOLEAN,
                        accounting: {FALSE}]
    BY PolicyAssumption DEF NoRecovery
  <2>2. 0 \in 0..MaxReplans
    BY PlanningAssumption
  <2>3. PICK chain \in Chains :
          run = [status |-> "PLANNING", resume |-> "NONE", recovery |-> NoRecovery,
                 pending |-> "NONE", failed |-> "NONE", settled |-> TRUE,
                 disposition |-> "PENDING", finalization |-> "NONE",
                 chain |-> chain, protocol |-> FALSE, window |-> FALSE, attempt |-> 0]
    BY DEF Init
  <2>4. chain \in AllChains
    BY PlanningAssumption DEF AllChains
  <2>. HIDE DEF NoRecovery
  <2>. QED BY <2>1, <2>2, <2>3, <2>4 DEF RunRow, Statuses
<1>2. worker \in WorkerRow /\ worker.at = "idle" /\ worker.made = <<>> /\ worker.repair = 0
  BY EmptySeq, PlanningAssumption DEF Init, Resting, WorkerRow, Early, Extras, Versions
<1>3. RowsTyped
  <2>1. NoStep \in StageRow /\ NoReflection \in CallRow /\ NoAudit \in AuditRow
    BY PlanningAssumption DEF NoStep, StageRow, NoReflection, CallRow, NoAudit, AuditRow
  <2>2. Disposed("NONE") \in ReflectionRow
    BY <2>1 DEF Disposed, ReflectionRow
  <2>3. steps \in StepRows
    BY EmptySeq DEF Init, FreshSteps, StepRows
  <2>4. pictures \in Versions
    BY PlanningAssumption DEF Init, Versions
  <2>. QED BY <1>1, <1>2, <2>1, <2>2, <2>3, <2>4
       DEF Init, RowsTyped, FreshStages, FreshAudit, FreshEvidence, FreshReflection, NothingSent
<1>4. \A k \in Keys : StepFits(stages[k])
  BY DEF Init, FreshStages, NoStep, StepFits
<1>5. Placed(run.chain, worker)
  BY <1>1, <1>2, RestingIsPlaced DEF Early
<1>6. Holds(run.chain, worker, stages, evidence)
  BY <1>2 DEF Holds
<1>7. MadeFits(run.chain, worker.made, stages, reflection)
  BY <1>2 DEF MadeFits
<1>8. SentFits(run.chain, stages, evidence, sent)
  BY DEF Init, NothingSent, SentFits
<1>9. ClaimsFit(run.chain, worker, audit, sent)
  <2>1. "review-manuscript" \in Manuscripts /\ \A m \in Manuscripts : m \in Stages /\ <<m, 1>> \in Keys
    BY StagesAre DEF Manuscripts, Keys
  <2>2. \A m \in Manuscripts : ~audit[m].used /\ sent[<<m, 1>>] = {}
    BY <2>1 DEF Init, FreshAudit, NoAudit, NothingSent
  <2>. QED BY <1>2, <2>1, <2>2 DEF ClaimsFit, Staged, Reflecting
<1>10. StartFits(run, steps, worker, stages, reflection)
  BY DEF Init, FreshSteps, StartFits
<1>11. RunFits(run, worker)
  BY <1>1, <1>2 DEF RunFits
<1>. QED BY <1>3, <1>4, <1>5, <1>6, <1>7, <1>8, <1>9, <1>10, <1>11 DEF IInv

LEMMA NextKeeps == IInv /\ [Next]_vars => IInv'
<1>. SUFFICES ASSUME IInv, [Next]_vars PROVE IInv'
  OBVIOUS
<1>1. CASE UNCHANGED vars
  BY <1>1 DEF vars, IInv, RowsTyped
<1>2. CASE Next
  <2>1. run'.chain = run.chain /\ RunFits(run', worker')
    BY <1>2, RunGoesOn DEF Follows
  <2>2. RowsTyped' /\ \A k \in Keys : StepFits(stages'[k])
    BY <1>2, RowsStayTyped
  <2>3. /\ Placed(run.chain, worker') /\ Holds(run.chain, worker', stages', evidence')
        /\ MadeFits(run.chain, worker'.made, stages', reflection')
        /\ SentFits(run.chain, stages', evidence', sent')
        /\ ClaimsFit(run.chain, worker', audit', sent')
    BY <1>2, WorkerGoesOn, HoldsOn, MadeOn, SentOn, ClaimsOn
  <2>4. StartFits(run', steps', worker', stages', reflection')
    BY <1>2, StartOn
  <2>. QED BY <2>1, <2>2, <2>3, <2>4 DEF IInv
<1>. QED BY <1>1, <1>2

LEMMA InvariantHolds == Spec => []IInv
  BY InitHolds, NextKeeps, PTL DEF Spec

-----------------------------------------------------------------------------
(* The theorems. *)

\* Every variable holds what the code can put into it.  (planning-runner.ts,
\* runV4PlanningStage and the steps it persists)
THEOREM TypeCorrect == Spec => []TypeOK
<1>1. IInv => TypeOK
  <2>. SUFFICES ASSUME IInv PROVE TypeOK
    OBVIOUS
  <2>1. /\ run \in RunRow /\ worker \in WorkerRow /\ Placed(run.chain, worker)
        /\ run.chain \in AllChains
    BY ChainsAre DEF IInv, RowsTyped
  <2>2. /\ run.status \in Statuses /\ run.attempt \in 0..MaxReplans
        /\ run.protocol \in BOOLEAN /\ run.window \in BOOLEAN
    BY <2>1 DEF RunRow
  <2>3. run.recovery \in Recoveries
    BY <2>1 DEF RunRow, Recoveries, RecoverableStates
  <2>4. worker.at \in Early \cup Staged \cup Late \cup {"fail"} /\ worker.repair \in {0, 1}
        /\ worker.extra \in Extras /\ Len(worker.made) \in Nat
    BY <2>1, LenProperties DEF WorkerRow
  <2>5. Len(worker.made) <= Len(Course[run.chain]) /\ Len(Course[run.chain]) >= 2
        /\ Len(Course[run.chain]) \in Nat
    BY <2>1, CourseIs, LenProperties DEF Placed
  <2>6. (At("complete") \/ At("compile")) <=>
          Len(worker.made) = Len(Course[run.chain]) /\ ~At("fail")
    <3>1. CASE worker.at \in Late
      BY <2>1, <3>1 DEF Placed, Late, At
    <3>2. CASE worker.at \in Early
      <4>1. Len(worker.made) = 0
        BY <2>1, <3>2 DEF Placed
      <4>. QED BY <2>5, <3>2, <4>1 DEF Early, At
    <3>3. CASE worker.at \in Staged
      BY <2>1, <2>4, <2>5, <3>3 DEF Placed, Staged, Reflecting, At
    <3>4. CASE worker.at = "fail"
      BY <3>4 DEF At
    <3>. QED BY <2>4, <3>1, <3>2, <3>3, <3>4
  <2>7. \A k \in Keys : /\ stages[k].status \in {"NONE", "RUNNING", "COMPLETED", "FAILED"}
                        /\ stages[k].status = "COMPLETED" <=> stages[k].text # "NONE"
                        /\ stages[k].status = "FAILED" <=> stages[k].error # "NONE"
                        /\ evidence[k] \subseteq 0..MaxDrifts
    BY DEF IInv, RowsTyped, StageRow, StepFits, Versions
  <2>8. \A s \in Stages : audit[s].calls \in 0..MaxCalls /\ audit[s].open \subseteq {0, 1}
    BY DEF IInv, RowsTyped, AuditRow
  <2>9. \A s \in Reflections, p \in Phases : reflection[s][p].attempts \in 0..2
    <3>. SUFFICES ASSUME NEW s \in Reflections PROVE \A p \in Phases : reflection[s][p].attempts \in 0..2
      OBVIOUS
    <3>1. reflection[s] \in ReflectionRow
      BY DEF IInv, RowsTyped
    <3>. QED BY <3>1 DEF ReflectionRow, CallRow, Phases
  <2>10. worker.at \in {"idle", "prepare", "protocol", "preflight", "window", "open", "evidence",
                        "call", "answer", "claim", "exhaust", "compile", "critic", "critic-answer",
                        "optimizer", "optimizer-answer", "complete", "fail"}
    BY <2>4 DEF Early, Staged, Reflecting, Late
  <2>. QED BY <2>2, <2>3, <2>4, <2>5, <2>6, <2>7, <2>8, <2>9, <2>10 DEF TypeOK
<1>. QED BY <1>1, InvariantHolds, PTL

\* However often a worker stops, a call fails or a picture of the source changes, a key
\* of the model is one request, and one manuscript at most is completed in a planning
\* attempt.  (persistV4PlanningRequestEvidence, claimV4SemanticCompletion)
THEOREM RequestsAreAskedOnce == Spec => []AskedOnce
<1>1. IInv => SameKeySameRequest
  <2>. SUFFICES ASSUME IInv, NEW k \in Keys PROVE Cardinality(sent[k]) <= 1
    BY DEF SameKeySameRequest
  <2>1. \A s \in sent[k] : s = <<s[1], s[2]>>
    BY DEF IInv, RowsTyped
  <2>2. \A s, t \in sent[k] : s[1] = t[1] /\ s[2] = t[2]
    BY DEF IInv, SentFits
  <2>3. \A s, t \in sent[k] : s = t
    BY <2>1, <2>2, Zenon
  <2>4. CASE sent[k] = {}
    BY <2>4, FS_EmptySet
  <2>5. CASE sent[k] # {}
    <3>1. PICK s : sent[k] = {s}
      BY <2>3, <2>5
    <3>2. Cardinality({s}) = 1
      BY FS_Singleton
    <3>. QED BY <3>1, <3>2
  <2>. QED BY <2>4, <2>5
<1>2. IInv => OneCompletion
  BY DEF IInv, ClaimsFit, OneCompletion
<1>. QED BY <1>1, <1>2, InvariantHolds, PTL DEF AskedOnce

\* What is executed is made of texts on record, each asked for with exactly the texts
\* before it, whichever workers made them.  (complete, runV4PlanningStage)
THEOREM RecordsAreExecuted == Spec => []ExecutesWhatWasAsked
<1>1. IInv => ExecutesWhatWasAsked
  <2>. SUFFICES ASSUME IInv, steps.planning = "COMPLETED"
                PROVE  /\ Len(steps.blueprint) = Len(Course[run.chain])
                       /\ \A i \in DOMAIN steps.blueprint :
                            OnRecord(Course[run.chain][i], steps.blueprint[i],
                                     SubSeq(steps.blueprint, 1, i - 1))
    BY DEF ExecutesWhatWasAsked
  <2>1. /\ Len(steps.blueprint) = Len(Course[run.chain])
        /\ MadeFits(run.chain, steps.blueprint, stages, reflection)
    BY DEF IInv, StartFits
  <2>2. DOMAIN steps.blueprint = 1..Len(steps.blueprint)
    BY LenProperties DEF IInv, RowsTyped, StepRows
  <2>3. ASSUME NEW stage, NEW text, NEW before, Recorded(stages, reflection, stage, text, before)
        PROVE  OnRecord(stage, text, before)
    BY <2>3 DEF Recorded, OnRecord
  <2>. QED BY <2>1, <2>2, <2>3 DEF MadeFits
<1>. QED BY <1>1, InvariantHolds, PTL

\* An answer that the connection cut off is never gone on with, whatever the protocol
\* of the model.  (readResponsesTextStream, throwToolResponseError)
THEOREM WholeAnswersAreTaken == Spec => []AnswersAreWhole
<1>1. IInv => AnswersAreWhole
  BY DEF IInv, StepFits, AnswersAreWhole
<1>. QED BY <1>1, InvariantHolds, PTL

=============================================================================

--------------------------- MODULE PresentationJobV2 ---------------------------
(***************************************************************************)
(* Presentation Job V2: a service creates jobs, and the tick of one worker *)
(* submits each to a provider under a stable key, polls it, publishes the  *)
(* PPTX, and reconciles the usage it may only learn later                  *)
(* (src/src/core/presentation-job-v2-service.ts and its SQLite adapter).   *)
(*                                                                         *)
(* One process ticks (ADR-010), so the record read when the jobs were      *)
(* listed is still the stored one when it is saved.  A provider call and   *)
(* the save that follows it are separate steps; a crash loses the answer.  *)
(*                                                                         *)
(* The service budget allows the first operation of every job, and a       *)
(* QUEUED job never has one, so the two refusals of submit before the      *)
(* provider call cannot happen.  Progress, names and hashes are left out.  *)
(*                                                                         *)
(* The ports may throw, and the tick tells two exceptions apart: one with  *)
(* a 4xx status and a code fails the job with an empty usage, whatever the *)
(* job was being advanced for; any other one defers it.  The provider may  *)
(* also report FAILED for a Run that later goes on (Resume).               *)
(***************************************************************************)
EXTENDS Naturals, Sequences, SequencesExt

CONSTANTS
  Jobs,
  Limit,      \* jobs listed by one tick
  Cap,        \* maximumBillableImageOperations of a job
  Bills,      \* bound: what a provider may bill, within the cap or not
  MaxFaults   \* bound: crashes, thrown calls and misleading answers

ASSUME JobAssumption ==
  /\ Limit \in Nat \ {0}
  /\ Cap \in Nat /\ Bills \subseteq Nat /\ MaxFaults \in Nat

Amounts == {0} \cup Bills

VARIABLES
  job,      \* the stored records
  due,      \* next_attempt_at has passed
  queue,    \* the created jobs in the order of updated_at
  task,     \* external: the provider operation under the key of each job
  listed,   \* the jobs of the current tick, still to be advanced
  answer,   \* what the provider answered for the first of them
  faults

stored == <<job, due, queue>>
vars == <<stored, task, listed, answer, faults>>

\* The usage a provider reports: an operation may still be unknown.
Usage == [billed: Amounts, unknown: BOOLEAN]
NoUsage == [billed |-> 0, unknown |-> FALSE]
UnknownUsage == [billed |-> 0, unknown |-> TRUE]

JobRecord ==
  [status: {"NONE", "QUEUED", "RUNNING", "COMPLETED", "FAILED"},
   operation: {"NONE", "SUBMITTED", "COMPLETED", "FAILED"}, artifact: BOOLEAN,
   usage: {"PENDING", "RECONCILING", "FINALIZED"}, amounts: Usage,
   refused: BOOLEAN, capExceeded: BOOLEAN]

\* failed: reported as FAILED, which a Run that is paused, waits for a person
\* or has drawn more than its cap is too; reopened: such a Run went on.
\* ok: the artifact is a readable PPTX of acceptable quality.
Task == [state: {"none", "running", "completed", "failed"}, ok: BOOLEAN, amounts: Usage,
         reopened: BOOLEAN]

\* refused: an exception with a 4xx status and a code; threw: any other one.
Answers == [kind: {"none", "accepted", "refused", "threw", "running", "completed", "failed"},
            ok: BOOLEAN, amounts: Usage]
NoAnswer == [kind |-> "none", ok |-> FALSE, amounts |-> NoUsage]

TypeOK ==
  /\ job \in [Jobs -> JobRecord]
  /\ due \in [Jobs -> BOOLEAN]
  /\ ToSet(queue) = {j \in Jobs : job[j].status # "NONE"} /\ IsInjective(queue)
  /\ task \in [Jobs -> Task]
  /\ ToSet(listed) \subseteq ToSet(queue) /\ Len(listed) <= Limit
  /\ answer \in Answers
  /\ faults \in 0..MaxFaults

Init ==
  /\ job = [j \in Jobs |-> [status |-> "NONE", operation |-> "NONE", artifact |-> FALSE,
                            usage |-> "PENDING", amounts |-> NoUsage,
                            refused |-> FALSE, capExceeded |-> FALSE]]
  /\ due = [j \in Jobs |-> FALSE]
  /\ queue = <<>>
  /\ task = [j \in Jobs |-> [state |-> "none", ok |-> FALSE, amounts |-> NoUsage,
                             reopened |-> FALSE]]
  /\ listed = <<>> /\ answer = NoAnswer
  /\ faults = 0

-----------------------------------------------------------------------------
Ended(j) == job[j].status \in {"COMPLETED", "FAILED"}

\* The statuses listRunnable selects.
Runnable(j) == job[j].status \in {"QUEUED", "RUNNING"} \/ (Ended(j) /\ job[j].usage = "RECONCILING")

Count(u) == u.billed + (IF u.unknown THEN 1 ELSE 0)

Fault == faults < MaxFaults /\ faults' = faults + 1

\* Variant: a save keeps the place of the job in the queue.
RequeueInPlace(j) == queue

\* Variant: the old place in the queue is kept beside the new one.
RequeueTwice(j) == Append(queue, j)

\* updatedAt is now: the job is the last of those ordered by updated_at.
Requeue(j) ==
  LET i == CHOOSE i \in DOMAIN queue : queue[i] = j
  IN Append(RemoveAt(queue, i), j)

\* save, and on with the next job of the tick.
Save(j, record, eligible) ==
  /\ job' = [job EXCEPT ![j] = record]
  /\ due' = [due EXCEPT ![j] = eligible]
  /\ queue' = Requeue(j)
  /\ listed' = Tail(listed) /\ answer' = NoAnswer
  /\ UNCHANGED <<task, faults>>

\* usage(summary): open while an operation is unknown.
UsageStatus(u) == IF u.unknown THEN "RECONCILING" ELSE "FINALIZED"

\* fail: the last operation, if there is one, fails with the job, and the
\* errorCode is that of the failure (refused).
Failed(j, u, refused) ==
  [job[j] EXCEPT !.status = "FAILED", !.artifact = FALSE, !.amounts = u,
                 !.operation = IF @ = "NONE" THEN @ ELSE "FAILED",
                 !.usage = UsageStatus(u), !.refused = refused, !.capExceeded = FALSE]

Fail(j, u) == Save(j, Failed(j, u, FALSE), FALSE)

Defer(j) == Save(j, job[j], FALSE)

-----------------------------------------------------------------------------
Create(j) ==
  /\ job[j].status = "NONE"
  /\ job' = [job EXCEPT ![j].status = "QUEUED"]
  /\ due' = [due EXCEPT ![j] = TRUE]
  /\ queue' = Append(queue, j)
  /\ UNCHANGED <<task, listed, answer, faults>>

\* tick: listRunnablePresentationJobs, the first candidates in the order of
\* the queue, as many as the limit lets in.
ListJobs ==
  LET candidates == {i \in DOMAIN queue : Runnable(queue[i]) /\ due[queue[i]]}
  IN /\ listed = <<>>
     /\ \E n \in 1..Limit : \E at \in [1..n -> candidates] :
          /\ \A k, m \in 1..n : k < m => at[k] < at[m]
          /\ \A i \in candidates : (\E k \in 1..n : at[k] = i) \/ (n = Limit /\ at[n] < i)
          /\ listed' = [k \in 1..n |-> queue[at[k]]]
     /\ UNCHANGED <<stored, task, answer, faults>>

Advancing(j) == listed # <<>> /\ j = Head(listed)

Calls(j) == Advancing(j) /\ answer = NoAnswer

Answered(j, kind) == Advancing(j) /\ answer.kind = kind

Answer(kind, ok, u) == answer' = [kind |-> kind, ok |-> ok, amounts |-> u]

\* submit: provider.submit.  A key that has an operation gets that one.  A
\* refusal creates none, but one may exist from a call whose answer was lost;
\* any other thrown call may have created it.
CallSubmit(j) ==
  LET accepted == IF task[j].state = "none" THEN [task EXCEPT ![j].state = "running"] ELSE task
  IN /\ Calls(j) /\ job[j].status = "QUEUED"
     /\ \/ task' = accepted /\ Answer("accepted", FALSE, NoUsage) /\ UNCHANGED faults
        \/ /\ task[j].state = "none"
           /\ Answer("refused", FALSE, NoUsage) /\ UNCHANGED <<task, faults>>
        \/ /\ task[j].state # "none"
           /\ Answer("refused", FALSE, NoUsage) /\ Fault /\ UNCHANGED task
        \/ task' \in {task, accepted} /\ Answer("threw", FALSE, NoUsage) /\ Fault
     /\ UNCHANGED <<stored, listed>>

\* inspect and reconcile: provider.inspect, and artifacts.put.  Either may
\* throw; the provider may answer RUNNING for a call that failed, FAILED with
\* unknown usage for an operation it cannot find, or FAILED with the bill of
\* one whose delivery it cannot read.
CallInspect(j) ==
  /\ Calls(j) /\ job[j].status # "QUEUED"
  /\ \/ Answer(task[j].state, task[j].ok, task[j].amounts) /\ UNCHANGED faults
     \/ \E kind \in {"refused", "threw", "running"} : Answer(kind, FALSE, NoUsage) /\ Fault
     \/ Answer("failed", FALSE, UnknownUsage) /\ Fault
     \/ task[j].state = "completed" /\ Answer("failed", FALSE, task[j].amounts) /\ Fault
  /\ UNCHANGED <<stored, task, listed>>

\* Variant: a submission whose answer is unknown fails the job.
SubmitThrewFails(j) ==
  job[j].status = "QUEUED" /\ Answered(j, "threw") /\ Fail(j, NoUsage)

SubmitAccepted(j) ==
  /\ job[j].status = "QUEUED" /\ Answered(j, "accepted")
  /\ Save(j, [job[j] EXCEPT !.status = "RUNNING", !.operation = "SUBMITTED"], TRUE)

\* tick, terminalProviderSubmissionError: an exception with a 4xx status and a
\* code fails the job it was met for, QUEUED, RUNNING or ended, with a final
\* usage of nothing.
Refused(j) == Answered(j, "refused") /\ Save(j, Failed(j, NoUsage, TRUE), FALSE)

\* tick: any other exception of submit, inspect, reconcile or artifacts.put.
Threw(j) == Answered(j, "threw") /\ Defer(j)

Inspecting(j) == job[j].status = "RUNNING"

StillRunning(j) == Answered(j, "running") /\ Defer(j)

InspectFailed(j) ==
  /\ Inspecting(j)
  /\ \/ Answered(j, "failed")
     \/ Answered(j, "completed") /\ (Count(answer.amounts) > Cap \/ ~answer.ok)
  /\ Fail(j, answer.amounts)

InspectCompleted(j) ==
  /\ Inspecting(j) /\ Answered(j, "completed")
  /\ Count(answer.amounts) <= Cap /\ answer.ok
  /\ Save(j, [job[j] EXCEPT !.status = "COMPLETED", !.operation = "COMPLETED", !.artifact = TRUE,
                            !.amounts = answer.amounts, !.usage = UsageStatus(answer.amounts)], FALSE)

Reconciling(j) == Ended(j) /\ answer.kind \in {"completed", "failed"}

\* Variant: the terminal state of the provider is taken over by the job.
ReconcileDisagreesFails(j) ==
  /\ Advancing(j) /\ Reconciling(j)
  /\ answer.amounts.unknown \/ (job[j].status = "COMPLETED" /\ answer.kind # "completed")
  /\ IF answer.kind = "failed" THEN Fail(j, answer.amounts) ELSE Defer(j)

\* The usage is still unknown, or the provider contradicts the delivered job.
ReconcileLater(j) ==
  /\ Advancing(j) /\ Reconciling(j)
  /\ answer.amounts.unknown \/ (job[j].status = "COMPLETED" /\ answer.kind # "completed")
  /\ Defer(j)

Conclusive(j) ==
  /\ Advancing(j) /\ Reconciling(j)
  /\ ~answer.amounts.unknown
  /\ job[j].status = "COMPLETED" => answer.kind = "completed"

\* More than the cap is never confirmed automatically.
ReconcileOverCap(j) ==
  /\ Conclusive(j) /\ Count(answer.amounts) > Cap
  /\ Save(j, [job[j] EXCEPT !.capExceeded = TRUE], FALSE)

WithinCap(u) == Count(u) <= Cap

ReconcileUsage(j) ==
  /\ Conclusive(j) /\ WithinCap(answer.amounts)
  /\ Save(j, [job[j] EXCEPT !.amounts = answer.amounts, !.usage = "FINALIZED"], FALSE)

Record(j) ==
  \/ SubmitAccepted(j) \/ Refused(j) \/ Threw(j) \/ StillRunning(j)
  \/ InspectFailed(j) \/ InspectCompleted(j)
  \/ ReconcileLater(j) \/ ReconcileOverCap(j) \/ ReconcileUsage(j)

-----------------------------------------------------------------------------
(* The environment. *)

\* The process dies and comes back: the tick and the answer are lost.
Crash ==
  /\ listed # <<>>
  /\ listed' = <<>> /\ answer' = NoAnswer
  /\ Fault
  /\ UNCHANGED <<stored, task>>

RetryDelayElapses(j) ==
  /\ Runnable(j) /\ ~due[j]
  /\ due' = [due EXCEPT ![j] = TRUE]
  /\ UNCHANGED <<job, queue, task, listed, answer, faults>>

\* External: the operation is over, as it is reported, with the bill so far,
\* and an image of it may have an unknown bill.
ProviderEnds(j) ==
  /\ task[j].state = "running"
  /\ \E state \in {"completed", "failed"}, ok \in BOOLEAN, n \in Bills, open \in BOOLEAN :
       /\ n >= task[j].amounts.billed
       /\ task' = [task EXCEPT ![j] = [state |-> state, ok |-> ok /\ state = "completed",
                                       amounts |-> [billed |-> n, unknown |-> open],
                                       reopened |-> task[j].reopened]]
  /\ UNCHANGED <<stored, listed, answer, faults>>

\* External: a Run that was reported FAILED goes on, and may bill more.
Resume(j) ==
  /\ task[j].state = "failed"
  /\ task' = [task EXCEPT ![j].state = "running", ![j].reopened = TRUE]
  /\ Fault
  /\ UNCHANGED <<stored, listed, answer>>

\* External: the bill of that image becomes known.
ProviderSettles(j) ==
  /\ task[j].amounts.unknown
  /\ \E n \in Bills :
       /\ n >= task[j].amounts.billed
       /\ task' = [task EXCEPT ![j].amounts = [billed |-> n, unknown |-> FALSE]]
  /\ UNCHANGED <<stored, listed, answer, faults>>

Next ==
  \/ ListJobs
  \/ Crash
  \/ \E j \in Jobs :
       \/ Create(j) \/ CallSubmit(j) \/ CallInspect(j) \/ Record(j)
       \/ RetryDelayElapses(j) \/ ProviderEnds(j) \/ Resume(j) \/ ProviderSettles(j)

Spec == Init /\ [][Next]_vars

(***************************************************************************)
(* The interval of the server keeps ticking, delays pass, and the provider *)
(* ends and bills every operation.  Nobody has to create a job.            *)
(***************************************************************************)
Tick == ListJobs \/ \E j \in Jobs : CallSubmit(j) \/ CallInspect(j) \/ Record(j)

FairSpec ==
  /\ Spec
  /\ WF_vars(Tick)
  /\ \A j \in Jobs :
       WF_vars(RetryDelayElapses(j)) /\ WF_vars(ProviderEnds(j)) /\ WF_vars(ProviderSettles(j))

-----------------------------------------------------------------------------
(* Safety. *)

\* No job is charged for more than the provider billed.
NeverOvercharged ==
  \A j \in Jobs : job[j].usage = "FINALIZED" => job[j].amounts.billed <= task[j].amounts.billed

\* A final usage is what the provider billed once it was over: always for a
\* delivered job, and for a failed one unless the coded exception of a port
\* failed it or the provider went on after it had reported the failure.
FinalUsageIsTrue ==
  \A j \in Jobs :
    /\ job[j].usage = "FINALIZED"
    /\ job[j].status = "COMPLETED" \/ ~(job[j].refused \/ task[j].reopened)
    => /\ task[j].state # "running"
       /\ ~task[j].amounts.unknown
       /\ job[j].amounts = task[j].amounts

\* A delivered job is charged within the cap the service was told, even when
\* the provider bills more after the delivery.
DeliveredWithinCap ==
  \A j \in Jobs : job[j].status = "COMPLETED" /\ job[j].usage = "FINALIZED" =>
    job[j].amounts.billed <= Cap

\* What the service that created a job sees, as the contract speaks of it.
Outcome(r) ==
  CASE r.status = "COMPLETED" -> "delivered" [] r.status = "FAILED" -> "failed" [] OTHER -> "pending"
Bill(r) == IF r.usage = "FINALIZED" THEN {r.amounts.billed} ELSE {}

Contract == INSTANCE PresentationJobContract WITH
  outcome <- [j \in Jobs |-> Outcome(job[j])],
  bill <- [j \in Jobs |-> Bill(job[j])]

\* The outcome of a job is decided once and its bill is closed once: no later
\* answer, contradiction, retry or crash changes either, except that a coded
\* exception fails a delivered job, without a bill, while the bill is open.
\* (tick, inspect, reconcile, fail)
KeepsContract == Contract!Spec

\* A job is never charged for more than the provider billed, a delivered job
\* for exactly that and within the cap, and a failed one too, but for the two
\* ways named at FinalUsageIsTrue.  (tick, inspect, reconcile, fail)
BillsAreTrue == NeverOvercharged /\ FinalUsageIsTrue /\ DeliveredWithinCap

(* Liveness. *)

\* Every job ends and its usage becomes final, unless the provider bills more
\* than the cap, however often others are retried: no job starves in the
\* bounded listing.  (tick, listRunnablePresentationJobs)
EveryJobIsBilled ==
  \A j \in Jobs :
    job[j].status = "QUEUED" ~> Ended(j) /\ (job[j].usage = "FINALIZED" \/ job[j].capExceeded)

=============================================================================

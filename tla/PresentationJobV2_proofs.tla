----------------------- MODULE PresentationJobV2_proofs -----------------------
(***************************************************************************)
(* Proofs about PresentationJobV2 for every set of jobs, listing limit,    *)
(* cap and bills: what is reported of a bill is true (BillsAreTrue), the   *)
(* queue holds every created job once (TypeOK), and the service implements *)
(* PresentationJobContract (KeepsContract).                                *)
(*                                                                         *)
(* None is inductive.  A save writes what an earlier step was told, so     *)
(* the invariant says what an answer in the worker's hands is still worth  *)
(* (AnswerIsTrue): a completed operation stays as it was reported, and one *)
(* that was reported failed has billed at least what was told, and exactly *)
(* that unless it went on.  On top of it, QInv types the queue and says    *)
(* that the jobs a tick still holds are listed once and wait for           *)
(* something: a job whose bill is closed is never advanced again, which is *)
(* what keeps the contract.                                                *)
(***************************************************************************)
EXTENDS PresentationJobV2, SequenceTheorems, TLAPS

Typed ==
  /\ job \in [Jobs -> JobRecord]
  /\ task \in [Jobs -> Task]
  /\ answer \in Answers

\* An operation that does not exist bills nothing.
NothingBilled == \A j \in Jobs : task[j].state = "none" => task[j].amounts = NoUsage

\* What the amounts of a conclusive failure are still worth.
Told(a, t) ==
  /\ a.billed <= t.amounts.billed
  /\ t.reopened \/ (t.state \in {"completed", "failed"} /\ t.amounts = a)

AnswerIsTrue ==
  /\ answer # NoAnswer => listed # <<>>
  /\ \A j \in Jobs : Advancing(j) =>
       /\ answer.kind = "completed" =>
            /\ task[j].state = "completed"
            /\ ~answer.amounts.unknown => task[j].amounts = answer.amounts
       /\ answer.kind = "failed" /\ ~answer.amounts.unknown => Told(answer.amounts, task[j])

\* The bill of a job is closed with the job or after it.
ClosedAfterEnd == \A j \in Jobs : job[j].usage = "FINALIZED" => Ended(j)

\* A completed operation never goes on, so a delivery stands on its bill.
DeliveryStands == \A j \in Jobs : job[j].status = "COMPLETED" => task[j].state = "completed"

IInv == Typed /\ NothingBilled /\ AnswerIsTrue /\ ClosedAfterEnd /\ DeliveryStands /\ BillsAreTrue

Report(r) == r.usage = "FINALIZED"

\* What a record may say of the operation t.
Honest(r, t) ==
  /\ r.status = "COMPLETED" => t.state = "completed"
  /\ Report(r) =>
       /\ r.status \in {"COMPLETED", "FAILED"}
       /\ r.amounts.billed <= t.amounts.billed
       /\ r.status = "COMPLETED" \/ ~(r.refused \/ t.reopened) =>
            t.state # "running" /\ ~t.amounts.unknown /\ r.amounts = t.amounts
       /\ r.status = "COMPLETED" => r.amounts.billed <= Cap

USE DEF Ended, Report

LEMMA UsageIsCounted ==
  ASSUME NEW u \in Usage
  PROVE  u.billed \in Nat /\ u.unknown \in BOOLEAN
<1>1. Amounts \subseteq Nat
  BY JobAssumption DEF Amounts
<1>. QED BY <1>1 DEF Usage

-----------------------------------------------------------------------------
\* The invariant says exactly that every record is honest.
LEMMA HonestRecords ==
  BillsAreTrue /\ ClosedAfterEnd /\ DeliveryStands <=> \A j \in Jobs : Honest(job[j], task[j])
BY DEF BillsAreTrue, NeverOvercharged, FinalUsageIsTrue, DeliveredWithinCap, ClosedAfterEnd,
       DeliveryStands, Honest

LEMMA HonestNext ==
  ASSUME \A j \in Jobs : Honest(job'[j], task'[j])
  PROVE  ClosedAfterEnd' /\ DeliveryStands' /\ BillsAreTrue'
BY DEF BillsAreTrue, NeverOvercharged, FinalUsageIsTrue, DeliveredWithinCap, ClosedAfterEnd,
       DeliveryStands, Honest

LEMMA InitIInv == Init => IInv
<1> SUFFICES ASSUME Init PROVE IInv
  OBVIOUS
<1>1. Typed
  BY DEF Init, Typed, JobRecord, Usage, Amounts, NoUsage, Task, Answers, NoAnswer
<1>2. NothingBilled /\ AnswerIsTrue
  BY DEF Init, NothingBilled, AnswerIsTrue, Advancing, NoAnswer
<1>3. ClosedAfterEnd /\ DeliveryStands /\ BillsAreTrue
  BY HonestRecords DEF Init, Honest
<1>. QED BY <1>1, <1>2, <1>3 DEF IInv

\* A save of an honest record keeps the invariant: no answer is left.
LEMMA SaveStep ==
  ASSUME IInv, NEW j \in Jobs, NEW r \in JobRecord, NEW eligible,
         Save(j, r, eligible), Honest(r, task[j])
  PROVE  IInv'
<1>1. Typed'
  BY DEF IInv, Typed, Save, Answers, NoAnswer, NoUsage, Usage, Amounts
<1>2. NothingBilled' /\ AnswerIsTrue'
  BY DEF IInv, NothingBilled, AnswerIsTrue, Save, Advancing, NoAnswer
<1>3. \A i \in Jobs : Honest(job'[i], task'[i])
  BY HonestRecords DEF IInv, Typed, Save, Honest
<1>4. ClosedAfterEnd' /\ DeliveryStands' /\ BillsAreTrue'
  BY <1>3, HonestNext
<1>. QED BY <1>1, <1>2, <1>4 DEF IInv

-----------------------------------------------------------------------------
\* A call answers truthfully, unless it throws, says RUNNING or leaves the bill open.
LEMMA CallStep ==
  ASSUME IInv, NEW j \in Jobs, CallSubmit(j) \/ CallInspect(j)
  PROVE  IInv'
<1>1. CASE CallSubmit(j)
  <2>0. task \in [Jobs -> Task] /\ task[j] \in Task
    BY DEF IInv, Typed
  <2>1. Typed'
    <3>1. [task EXCEPT ![j].state = "running"] \in [Jobs -> Task]
      BY <2>0 DEF Task
    <3>2. task' \in [Jobs -> Task]
      BY <1>1, <2>0, <3>1 DEF CallSubmit
    <3>3. \E kind \in {"accepted", "refused", "threw"} : Answer(kind, FALSE, NoUsage)
      BY <1>1, Zenon DEF CallSubmit
    <3>4. answer' \in Answers
      BY <3>3 DEF Answer, Answers, NoUsage, Usage, Amounts
    <3>. QED BY <1>1, <3>2, <3>4 DEF CallSubmit, IInv, Typed, stored
  <2>2. NothingBilled'
    BY <1>1 DEF CallSubmit, IInv, Typed, NothingBilled, Task
  <2>3. AnswerIsTrue'
    BY <1>1 DEF CallSubmit, Calls, Answer, IInv, Typed, AnswerIsTrue, Advancing
  <2>4. \A i \in Jobs : Honest(job'[i], task'[i])
    <3>1. ~(job[j].usage = "FINALIZED")
      BY <1>1 DEF CallSubmit, IInv, ClosedAfterEnd
    <3>. QED BY <1>1, <3>1, HonestRecords DEF CallSubmit, IInv, Typed, Honest, stored
  <2>5. ClosedAfterEnd' /\ DeliveryStands' /\ BillsAreTrue'
    BY <2>4, HonestNext
  <2>. QED BY <2>1, <2>2, <2>3, <2>5 DEF IInv
<1>2. CASE CallInspect(j)
  <2>1. UNCHANGED <<job, task, listed>> /\ answer = NoAnswer /\ Advancing(j)
    BY <1>2 DEF CallInspect, Calls, stored
  <2>2. /\ answer' \in Answers
        /\ answer'.kind = "completed" =>
             /\ task[j].state = "completed"
             /\ ~answer'.amounts.unknown => task[j].amounts = answer'.amounts
        /\ answer'.kind = "failed" /\ ~answer'.amounts.unknown => Told(answer'.amounts, task[j])
    <3>0. task[j] \in Task /\ task[j].amounts.billed \in Nat
      BY UsageIsCounted DEF IInv, Typed, Task
    <3>1. CASE Answer(task[j].state, task[j].ok, task[j].amounts)
      BY <3>0, <3>1 DEF Answer, Answers, Task, Told
    <3>2. CASE \E kind \in {"refused", "threw", "running"} : Answer(kind, FALSE, NoUsage)
      BY <3>2 DEF Answer, Answers, NoUsage, Usage, Amounts
    <3>3. CASE Answer("failed", FALSE, UnknownUsage)
      BY <3>3 DEF Answer, Answers, UnknownUsage, Usage, Amounts
    <3>4. CASE task[j].state = "completed" /\ Answer("failed", FALSE, task[j].amounts)
      BY <3>0, <3>4 DEF Answer, Answers, Task, Told
    <3>. QED BY <1>2, <3>1, <3>2, <3>3, <3>4 DEF CallInspect
  <2>3. Typed' /\ NothingBilled' /\ ClosedAfterEnd' /\ DeliveryStands' /\ BillsAreTrue'
    BY <2>1, <2>2, HonestRecords, HonestNext DEF IInv, Typed, NothingBilled
  <2>4. AnswerIsTrue'
    BY <2>1, <2>2 DEF AnswerIsTrue, Advancing
  <2>. QED BY <2>3, <2>4 DEF IInv
<1>. QED BY <1>1, <1>2

\* The record a failure saves.
LEMMA FailedRecord ==
  ASSUME IInv, NEW j \in Jobs, NEW u \in Usage, NEW refused \in BOOLEAN
  PROVE  /\ Failed(j, u, refused) \in JobRecord
         /\ Failed(j, u, refused).status = "FAILED" /\ Failed(j, u, refused).amounts = u
         /\ Failed(j, u, refused).usage = "FINALIZED" <=> ~u.unknown
         /\ Failed(j, u, refused).refused = refused
<1>1. job[j] \in JobRecord
  BY DEF IInv, Typed
<1>2. UsageStatus(u) \in {"RECONCILING", "FINALIZED"} /\ (UsageStatus(u) = "FINALIZED" <=> ~u.unknown)
  BY DEF UsageStatus
<1>. QED BY <1>1, <1>2 DEF Failed, JobRecord

\* Every record that is saved is honest, because the answer it is made of is true.
LEMMA RecordIsHonest ==
  ASSUME IInv, NEW j \in Jobs, Record(j)
  PROVE  \E r \in JobRecord, eligible \in BOOLEAN : Save(j, r, eligible) /\ Honest(r, task[j])
<1>0. /\ job[j] \in JobRecord /\ task[j] \in Task /\ answer \in Answers
      /\ Honest(job[j], task[j])
      /\ task[j].amounts.billed \in Nat
  BY HonestRecords, UsageIsCounted DEF IInv, Typed, Task
<1>1. CASE SubmitAccepted(j)
  <2> DEFINE r == [job[j] EXCEPT !.status = "RUNNING", !.operation = "SUBMITTED"]
  <2>1. r \in JobRecord
    BY <1>0 DEF JobRecord
  <2>2. r.usage = job[j].usage /\ r.status = "RUNNING"
    BY <1>0 DEF JobRecord
  <2>3. Honest(r, task[j])
    BY <1>1, <2>2 DEF SubmitAccepted, Honest, IInv, ClosedAfterEnd
  <2>4. Save(j, r, TRUE)
    BY <1>1 DEF SubmitAccepted
  <2>. QED BY <2>1, <2>3, <2>4
<1>2. CASE Refused(j)
  <2> DEFINE r == Failed(j, NoUsage, TRUE)
  <2>1. NoUsage \in Usage /\ NoUsage.billed = 0
    BY DEF NoUsage, Usage, Amounts
  <2>2. r \in JobRecord /\ r.status = "FAILED" /\ r.amounts = NoUsage /\ r.refused
    BY <2>1, FailedRecord
  <2>3. Save(j, r, FALSE)
    BY <1>2 DEF Refused
  <2> HIDE DEF r
  <2>4. r.amounts.billed <= task[j].amounts.billed
    BY <1>0, <2>1, <2>2
  <2>5. Honest(r, task[j])
    BY <2>2, <2>4 DEF Honest
  <2>. QED BY <2>2, <2>3, <2>5
<1>3. CASE Threw(j) \/ StillRunning(j) \/ ReconcileLater(j)
  BY <1>0, <1>3 DEF Threw, StillRunning, ReconcileLater, Defer
<1>4. CASE InspectFailed(j)
  <2>1. answer.amounts \in Usage
    BY <1>0 DEF Answers
  <2>2. ~answer.amounts.unknown =>
          /\ answer.amounts.billed <= task[j].amounts.billed
          /\ ~task[j].reopened => task[j].state # "running" /\ task[j].amounts = answer.amounts
    BY <1>0, <1>4 DEF InspectFailed, Answered, IInv, AnswerIsTrue, Told
  <2>3. Honest(Failed(j, answer.amounts, FALSE), task[j]) /\ Failed(j, answer.amounts, FALSE) \in JobRecord
    BY <2>1, <2>2, FailedRecord DEF Honest
  <2>. QED BY <1>4, <2>3 DEF InspectFailed, Fail
<1>5. CASE InspectCompleted(j)
  <2> DEFINE r == [job[j] EXCEPT !.status = "COMPLETED", !.operation = "COMPLETED",
                                 !.artifact = TRUE, !.amounts = answer.amounts,
                                 !.usage = UsageStatus(answer.amounts)]
  <2>1. answer.amounts \in Usage
    BY <1>0 DEF Answers
  <2>2. r \in JobRecord
    BY <1>0, <2>1 DEF JobRecord, UsageStatus
  <2>3. r.status = "COMPLETED" /\ r.amounts = answer.amounts /\ r.usage = UsageStatus(answer.amounts)
    BY <1>0 DEF JobRecord
  <2>4. ~answer.amounts.unknown => answer.amounts.billed <= Cap
    BY <1>5, <2>1, JobAssumption DEF InspectCompleted, Count, Usage, Amounts
  <2>5. /\ task[j].state = "completed"
        /\ ~answer.amounts.unknown => task[j].amounts = answer.amounts
    BY <1>5 DEF InspectCompleted, Answered, IInv, AnswerIsTrue
  <2>6. Honest(r, task[j])
    BY <1>0, <2>3, <2>4, <2>5 DEF Honest, UsageStatus
  <2>7. Save(j, r, FALSE)
    BY <1>5 DEF InspectCompleted
  <2>. QED BY <2>2, <2>6, <2>7
<1>6. CASE ReconcileOverCap(j)
  <2> DEFINE r == [job[j] EXCEPT !.capExceeded = TRUE]
  <2>1. r \in JobRecord /\ Honest(r, task[j])
    BY <1>0 DEF JobRecord, Honest
  <2>2. Save(j, r, FALSE)
    BY <1>6 DEF ReconcileOverCap
  <2>. QED BY <2>1, <2>2
<1>7. CASE ReconcileUsage(j)
  <2> DEFINE r == [job[j] EXCEPT !.amounts = answer.amounts, !.usage = "FINALIZED"]
  <2>1. answer.amounts \in Usage
    BY <1>0 DEF Answers
  <2>2. r \in JobRecord
    BY <1>0, <2>1 DEF JobRecord
  <2>3. r.status = job[j].status /\ r.amounts = answer.amounts /\ r.refused = job[j].refused
    BY <1>0 DEF JobRecord
  <2>4. ~answer.amounts.unknown /\ answer.amounts.billed <= Cap
    BY <1>7, <2>1, JobAssumption DEF ReconcileUsage, Conclusive, WithinCap, Count, Usage, Amounts
  <2>5. /\ answer.kind = "completed" => task[j].state = "completed" /\ task[j].amounts = answer.amounts
        /\ answer.kind = "failed" => Told(answer.amounts, task[j])
        /\ answer.kind \in {"completed", "failed"}
    BY <1>7, <2>4 DEF ReconcileUsage, Conclusive, Reconciling, IInv, AnswerIsTrue
  <2>6. Honest(r, task[j])
    BY <1>0, <1>7, <2>3, <2>4, <2>5 DEF Honest, Told, ReconcileUsage, Conclusive, Reconciling
  <2>7. Save(j, r, FALSE)
    BY <1>7 DEF ReconcileUsage
  <2>. QED BY <2>2, <2>6, <2>7
<1>. QED BY <1>1, <1>2, <1>3, <1>4, <1>5, <1>6, <1>7 DEF Record

LEMMA RecordStep ==
  ASSUME IInv, NEW j \in Jobs, Record(j)
  PROVE  IInv'
BY RecordIsHonest, SaveStep

-----------------------------------------------------------------------------
\* The provider changes only what runs, what is open and what it reported failed, and
\* takes no bill back.
LEMMA ProviderStep ==
  ASSUME IInv, NEW j \in Jobs, ProviderEnds(j) \/ Resume(j) \/ ProviderSettles(j)
  PROVE  IInv'
<1>0. task[j] \in Task /\ task[j].amounts \in Usage /\ task[j].amounts.billed \in Nat
  BY UsageIsCounted DEF IInv, Typed, Task
<1>1. PICK t \in Task :
        /\ task' = [task EXCEPT ![j] = t]
        /\ t.state # "none" /\ t.amounts.billed >= task[j].amounts.billed
        /\ task[j].reopened => t.reopened
        /\ task[j].state = "running" \/ task[j].amounts.unknown \/ t.reopened
        /\ task[j].state = "completed" => t.state = "completed" /\ task[j].amounts.unknown
  <2>1. CASE ProviderEnds(j)
    <3>1. PICK state \in {"completed", "failed"}, ok \in BOOLEAN, n \in Bills, open \in BOOLEAN :
            /\ n >= task[j].amounts.billed
            /\ task' = [task EXCEPT ![j] = [state |-> state, ok |-> ok /\ state = "completed",
                                            amounts |-> [billed |-> n, unknown |-> open],
                                            reopened |-> task[j].reopened]]
      BY <2>1 DEF ProviderEnds
    <3>2. [state |-> state, ok |-> ok /\ state = "completed",
           amounts |-> [billed |-> n, unknown |-> open], reopened |-> task[j].reopened] \in Task
      BY <1>0 DEF Task, Usage, Amounts
    <3>3. task[j].state = "running"
      BY <2>1 DEF ProviderEnds
    <3>. QED BY <3>1, <3>2, <3>3
  <2>2. CASE ProviderSettles(j)
    <3>1. PICK n \in Bills :
            /\ n >= task[j].amounts.billed
            /\ task' = [task EXCEPT ![j].amounts = [billed |-> n, unknown |-> FALSE]]
      BY <2>2 DEF ProviderSettles
    <3> DEFINE t == [task[j] EXCEPT !.amounts = [billed |-> n, unknown |-> FALSE]]
    <3>2. task[j].state # "none" /\ task[j].amounts.unknown
      BY <2>2 DEF ProviderSettles, IInv, Typed, NothingBilled, NoUsage
    <3>3. [billed |-> n, unknown |-> FALSE] \in Usage
      BY DEF Usage, Amounts
    <3>4. t \in Task /\ t.state = task[j].state /\ t.reopened = task[j].reopened /\ t.amounts.billed = n
      BY <1>0, <3>3 DEF Task
    <3>5. task' = [task EXCEPT ![j] = t]
      BY <3>1 DEF IInv, Typed
    <3>. QED BY <3>1, <3>2, <3>4, <3>5
  <2>3. CASE Resume(j)
    <3> DEFINE t == [task[j] EXCEPT !.state = "running", !.reopened = TRUE]
    <3>1. t \in Task /\ t.state = "running" /\ t.reopened /\ t.amounts = task[j].amounts
      BY <1>0 DEF Task
    <3>2. task' = [task EXCEPT ![j] = t] /\ task[j].state = "failed"
      BY <2>3 DEF Resume, IInv, Typed
    <3>3. t.amounts.billed >= task[j].amounts.billed
      BY <1>0, <3>1
    <3> HIDE DEF t
    <3>. QED BY <3>1, <3>2, <3>3
  <2>. QED BY <2>1, <2>2, <2>3
<1>2. UNCHANGED <<job, listed, answer>>
  BY DEF ProviderEnds, Resume, ProviderSettles, stored
<1>3. Typed' /\ NothingBilled'
  BY <1>1, <1>2 DEF IInv, Typed, NothingBilled
<1>4. ASSUME NEW a \in Usage, Told(a, task[j]), ~a.unknown PROVE Told(a, t)
  <2>1. a.billed \in Nat /\ t.amounts.billed \in Nat
    BY UsageIsCounted DEF Task
  <2>. QED BY <1>0, <1>1, <1>4, <2>1 DEF Told
<1>5. AnswerIsTrue'
  <2>1. ASSUME NEW i \in Jobs, Advancing(i)'
        PROVE  /\ answer.kind = "completed" =>
                    /\ task'[i].state = "completed"
                    /\ ~answer.amounts.unknown => task'[i].amounts = answer.amounts
               /\ answer.kind = "failed" /\ ~answer.amounts.unknown => Told(answer.amounts, task'[i])
    <3>1. Advancing(i) /\ answer.amounts \in Usage
      BY <1>2, <2>1 DEF Advancing, IInv, Typed, Answers
    <3>2. CASE i # j
      <4>1. task'[i] = task[i]
        BY <1>1, <3>2 DEF IInv, Typed
      <4>. QED BY <3>1, <4>1 DEF IInv, AnswerIsTrue
    <3>3. CASE i = j
      <4>1. task'[j] = t
        BY <1>1 DEF IInv, Typed
      <4>2. answer.kind = "completed" =>
              t.state = "completed" /\ (~answer.amounts.unknown => t.amounts = answer.amounts)
        BY <1>1, <3>1, <3>3 DEF IInv, AnswerIsTrue
      <4>3. answer.kind = "failed" /\ ~answer.amounts.unknown => Told(answer.amounts, t)
        BY <1>4, <3>1, <3>3 DEF IInv, AnswerIsTrue
      <4>. QED BY <3>3, <4>1, <4>2, <4>3
    <3>. QED BY <3>2, <3>3
  <2>. QED BY <1>2, <2>1 DEF IInv, AnswerIsTrue
<1>6. ASSUME NEW i \in Jobs PROVE Honest(job'[i], task'[i])
  <2>1. Honest(job[i], task[i]) /\ job'[i] = job[i] /\ job[i] \in JobRecord
    BY <1>2, HonestRecords DEF IInv, Typed
  <2>2. CASE i # j
    BY <1>1, <2>1, <2>2 DEF IInv, Typed
  <2>3. CASE i = j
    <3>1. task'[i] = t
      BY <1>1, <2>3 DEF IInv, Typed
    <3>2. job[i].amounts.billed \in Nat /\ t.amounts.billed \in Nat
      BY <2>1, UsageIsCounted DEF JobRecord, Task
    <3>3. job[i].amounts.billed <= task[j].amounts.billed => job[i].amounts.billed <= t.amounts.billed
      BY <1>0, <1>1, <3>2
    <3>. QED BY <1>1, <2>1, <2>3, <3>1, <3>3 DEF Honest
  <2>. QED BY <2>2, <2>3
<1>7. ClosedAfterEnd' /\ DeliveryStands' /\ BillsAreTrue'
  BY <1>6, HonestNext
<1>. QED BY <1>3, <1>5, <1>7 DEF IInv

\* The other steps neither answer nor save a bill.
LEMMA QuietStep ==
  ASSUME IInv,
         \/ ListJobs \/ Crash \/ UNCHANGED vars
         \/ \E j \in Jobs : Create(j) \/ RetryDelayElapses(j)
  PROVE  IInv'
<1>1. CASE ListJobs \/ Crash \/ UNCHANGED vars \/ \E j \in Jobs : RetryDelayElapses(j)
  <2>1. UNCHANGED <<job, task>> /\ (UNCHANGED <<listed, answer>> \/ answer' = NoAnswer)
    BY <1>1 DEF ListJobs, Crash, RetryDelayElapses, vars, stored, IInv, AnswerIsTrue
  <2>2. NoAnswer \in Answers
    BY DEF NoAnswer, Answers, NoUsage, Usage, Amounts
  <2>3. Typed' /\ NothingBilled' /\ ClosedAfterEnd' /\ DeliveryStands' /\ BillsAreTrue'
    BY <2>1, <2>2, HonestRecords, HonestNext DEF IInv, Typed, NothingBilled
  <2>4. AnswerIsTrue'
    BY <2>1 DEF IInv, AnswerIsTrue, Advancing, NoAnswer
  <2>. QED BY <2>3, <2>4 DEF IInv
<1>2. ASSUME NEW j \in Jobs, Create(j) PROVE IInv'
  <2>0. job[j] \in JobRecord
    BY DEF IInv, Typed
  <2>1. [job[j] EXCEPT !.status = "QUEUED"] \in JobRecord
    BY <2>0 DEF JobRecord
  <2>2. [job[j] EXCEPT !.status = "QUEUED"].usage = job[j].usage
    BY <2>0 DEF JobRecord
  <2>3. job[j].usage # "FINALIZED"
    BY <1>2 DEF Create, IInv, ClosedAfterEnd
  <2>4. job' = [job EXCEPT ![j] = [job[j] EXCEPT !.status = "QUEUED"]]
    BY <1>2 DEF Create
  <2>5. UNCHANGED <<task, listed, answer>>
    BY <1>2 DEF Create
  <2>6. Typed' /\ NothingBilled' /\ AnswerIsTrue'
    BY <2>1, <2>4, <2>5 DEF IInv, Typed, NothingBilled, AnswerIsTrue, Advancing
  <2>7. \A i \in Jobs : Honest(job'[i], task'[i])
    BY <2>2, <2>3, <2>4, <2>5, HonestRecords DEF IInv, Typed, Honest
  <2>8. ClosedAfterEnd' /\ DeliveryStands' /\ BillsAreTrue'
    BY <2>7, HonestNext
  <2>. QED BY <2>6, <2>8 DEF IInv
<1>. QED BY <1>1, <1>2

LEMMA NextIInv == IInv /\ [Next]_vars => IInv'
BY QuietStep, CallStep, RecordStep, ProviderStep DEF Next

LEMMA Invariance == Spec => []IInv
BY InitIInv, NextIInv, PTL DEF Spec

\* No job is ever charged for more than the provider billed, a delivered job is charged
\* exactly that and within the cap, and so is a failed one unless the coded exception of
\* a port failed it or the provider went on after it had reported the failure; whatever
\* else is lost, thrown or answered, for any number of jobs and faults.
\* (tick, inspect, reconcile, fail)
THEOREM TrueBills == Spec => []BillsAreTrue
<1>1. IInv => BillsAreTrue
  BY DEF IInv
<1>. QED BY <1>1, Invariance, PTL

-----------------------------------------------------------------------------
(* The queue: whatever is saved, in whatever order, holds every created job once. *)

\* TypeOK with what the operators on sequences need to know of the two lists, and what
\* the tick still holds: each job once, and each waiting for something.
QInv ==
  /\ TypeOK
  /\ queue \in Seq(Jobs) /\ listed \in Seq(Jobs)
  /\ IsInjective(listed) /\ \A j \in ToSet(listed) : Runnable(j)

Created == {j \in Jobs : job[j].status # "NONE"}

\* Taking the element at one position out shifts the ones behind it by one.
LEMMA RemoveAtShifts ==
  ASSUME NEW S, NEW s \in Seq(S), NEW i \in 1..Len(s)
  PROVE  /\ RemoveAt(s, i) \in Seq(S)
         /\ Len(RemoveAt(s, i)) = Len(s) - 1
         /\ \A k \in 1..Len(s) - 1 : RemoveAt(s, i)[k] = IF k < i THEN s[k] ELSE s[k + 1]
<1> DEFINE before == SubSeq(s, 1, i - 1)
           after == SubSeq(s, i + 1, Len(s))
<1>1. before \in Seq(S) /\ Len(before) = i - 1 /\ \A k \in 1..i - 1 : before[k] = s[k]
  OBVIOUS
<1>2. after \in Seq(S) /\ Len(after) = Len(s) - i /\ \A k \in 1..Len(s) - i : after[k] = s[k + i]
  OBVIOUS
<1>3. RemoveAt(s, i) = before \o after
  BY DEF RemoveAt
<1> HIDE DEF before, after
<1>4. /\ before \o after \in Seq(S) /\ Len(before \o after) = Len(s) - 1
      /\ \A k \in 1..Len(s) - 1 :
           (before \o after)[k] = IF k < i THEN before[k] ELSE after[k - (i - 1)]
  <2>1. Len(s) \in Nat /\ i \in Nat /\ 1 <= i /\ i <= Len(s) /\ (i - 1) + (Len(s) - i) = Len(s) - 1
    OBVIOUS
  <2>2. before \o after \in Seq(S) /\ Len(before \o after) = Len(before) + Len(after)
    BY <1>1, <1>2, ConcatProperties
  <2>3. \A k \in 1..Len(before) + Len(after) :
          (before \o after)[k] = IF k <= Len(before) THEN before[k] ELSE after[k - Len(before)]
    BY <1>1, <1>2, ConcatProperties
  <2>4. Len(before) + Len(after) = Len(s) - 1 /\ Len(before) = i - 1
    BY <1>1, <1>2, <2>1
  <2>5. \A k \in 1..Len(s) - 1 : k <= i - 1 <=> k < i
    BY <2>1
  <2>. QED BY <2>2, <2>3, <2>4, <2>5
<1>5. \A k \in 1..Len(s) - 1 : k >= i => k - (i - 1) \in 1..Len(s) - i /\ k - (i - 1) + i = k + 1
  OBVIOUS
<1>. QED BY <1>1, <1>2, <1>3, <1>4, <1>5

\* A job that is saved moves to the end: the queue keeps its jobs, each once.
LEMMA RequeueKeeps ==
  ASSUME QInv, NEW j \in ToSet(queue)
  PROVE  Requeue(j) \in Seq(Jobs) /\ ToSet(Requeue(j)) = ToSet(queue) /\ IsInjective(Requeue(j))
<1> DEFINE i == CHOOSE k \in DOMAIN queue : queue[k] = j
           rest == RemoveAt(queue, i)
           n == Len(queue)
<1>0. queue \in Seq(Jobs) /\ DOMAIN queue = 1..n /\ n \in Nat
  BY DEF QInv
<1>1. i \in 1..n /\ queue[i] = j
  BY <1>0 DEF ToSet
<1>2. \A k, m \in 1..n : queue[k] = queue[m] => k = m
  BY <1>0 DEF QInv, TypeOK, IsInjective
<1>3. /\ rest \in Seq(Jobs) /\ Len(rest) = n - 1
      /\ \A k \in 1..n - 1 : rest[k] = IF k < i THEN queue[k] ELSE queue[k + 1]
  BY <1>0, <1>1, RemoveAtShifts
<1>4. Requeue(j) = Append(rest, j)
  BY DEF Requeue
<1>5. j \in Jobs
  BY <1>0, <1>1
<1> HIDE DEF i, rest, n
<1>6. /\ Requeue(j) \in Seq(Jobs) /\ DOMAIN Requeue(j) = 1..n
      /\ \A k \in 1..n : Requeue(j)[k] = IF k = n THEN j
                                        ELSE IF k < i THEN queue[k] ELSE queue[k + 1]
  BY <1>0, <1>1, <1>3, <1>4, <1>5
<1>7. ToSet(Requeue(j)) \subseteq ToSet(queue)
  BY <1>0, <1>1, <1>6 DEF ToSet
<1>8. ASSUME NEW m \in 1..n PROVE queue[m] \in ToSet(Requeue(j))
  <2>1. CASE m = i
    <3>1. n \in 1..n /\ Requeue(j)[n] = queue[m]
      BY <1>0, <1>1, <1>6, <2>1
    <3>. QED BY <3>1, <1>6 DEF ToSet
  <2>2. CASE m < i
    <3>1. Requeue(j)[m] = queue[m]
      BY <1>0, <1>1, <1>6, <2>2
    <3>. QED BY <3>1, <1>6 DEF ToSet
  <2>3. CASE m > i
    <3>1. m - 1 \in 1..n /\ m - 1 # n /\ ~(m - 1 < i) /\ (m - 1) + 1 = m
      BY <1>0, <1>1, <2>3
    <3>2. Requeue(j)[m - 1] = queue[m]
      BY <1>6, <3>1
    <3>. QED BY <3>1, <3>2, <1>6 DEF ToSet
  <2>. QED BY <1>0, <1>1, <2>1, <2>2, <2>3
<1>9. ToSet(queue) \subseteq ToSet(Requeue(j))
  BY <1>0, <1>8 DEF ToSet
<1>10. ASSUME NEW k \in 1..n, NEW m \in 1..n, Requeue(j)[k] = Requeue(j)[m]
       PROVE  k = m
  <2> DEFINE From(x) == IF x = n THEN i ELSE IF x < i THEN x ELSE x + 1
  <2>1. \A x \in 1..n : From(x) \in 1..n /\ Requeue(j)[x] = queue[From(x)]
    BY <1>0, <1>1, <1>6
  <2>2. From(k) = From(m)
    BY <1>2, <1>10, <2>1
  <2>. QED BY <1>0, <1>1, <2>2
<1>11. IsInjective(Requeue(j))
  BY <1>6, <1>10 DEF IsInjective
<1>. QED BY <1>6, <1>7, <1>9, <1>11

\* Every step that only looks at the queue and the tick keeps QInv.
LEMMA KeptQueue ==
  ASSUME QInv, Typed', due' \in [Jobs -> BOOLEAN], faults' \in 0..MaxFaults,
         UNCHANGED <<job, queue, listed>>
  PROVE  QInv'
BY DEF QInv, TypeOK, Typed, Runnable

LEMMA FaultCounts == ASSUME QInv, Fault \/ UNCHANGED faults PROVE faults' \in 0..MaxFaults
BY JobAssumption DEF QInv, TypeOK, Fault

\* A tick lists created jobs, at most as many as the limit says.
LEMMA ListStep == ASSUME QInv, Typed', ListJobs PROVE QInv'
<1> DEFINE candidates == {i \in DOMAIN queue : Runnable(queue[i]) /\ due[queue[i]]}
<1>n. PICK n \in 1..Limit : \E at \in [1..n -> candidates] :
        /\ \A k, m \in 1..n : k < m => at[k] < at[m]
        /\ listed' = [k \in 1..n |-> queue[at[k]]]
  BY DEF ListJobs
<1>1. PICK at \in [1..n -> candidates] :
        /\ \A k, m \in 1..n : k < m => at[k] < at[m]
        /\ listed' = [k \in 1..n |-> queue[at[k]]]
  BY <1>n
<1>2. UNCHANGED <<job, due, queue, faults>>
  BY DEF ListJobs, stored
<1>3. \A k \in 1..n : at[k] \in DOMAIN queue /\ Runnable(queue[at[k]])
  OBVIOUS
<1>4. \A k \in 1..n : queue[at[k]] \in Jobs /\ queue[at[k]] \in ToSet(queue)
  BY <1>3 DEF QInv, ToSet
<1>5. n \in Nat /\ n <= Limit
  BY JobAssumption
<1>6. listed' \in Seq(Jobs) /\ Len(listed') = n /\ ToSet(listed') \subseteq ToSet(queue)
  BY <1>1, <1>4, <1>5 DEF ToSet
<1>7. IsInjective(listed')
  <2>1. \A k, m \in 1..n : queue[at[k]] = queue[at[m]] => at[k] = at[m]
    BY <1>3 DEF QInv, TypeOK, IsInjective
  <2>2. \A k \in 1..n : at[k] \in Nat
    BY <1>3 DEF QInv
  <2>3. \A k, m \in 1..n : at[k] = at[m] => k = m
    BY <1>1, <1>5, <2>2
  <2>. QED BY <1>1, <1>6, <2>1, <2>3 DEF IsInjective
<1>8. \A j \in ToSet(listed') : Runnable(j)
  BY <1>1, <1>3, <1>6 DEF ToSet
<1>9. \A j \in ToSet(listed') : Runnable(j)'
  BY <1>2, <1>8 DEF Runnable
<1>. QED BY <1>2, <1>5, <1>6, <1>7, <1>9 DEF QInv, TypeOK, Typed

\* A created job is the last of the queue.
LEMMA CreateStep == ASSUME QInv, Typed', NEW j \in Jobs, Create(j) PROVE QInv'
<1>0. queue \in Seq(Jobs) /\ DOMAIN queue = 1..Len(queue) /\ Len(queue) \in Nat
  BY DEF QInv
<1>1. queue' = Append(queue, j) /\ UNCHANGED <<listed, faults>> /\ j \notin ToSet(queue)
  BY DEF Create, QInv, TypeOK
<1>2. /\ queue' \in Seq(Jobs) /\ DOMAIN queue' = 1..Len(queue) + 1
      /\ \A k \in 1..Len(queue) + 1 : queue'[k] = IF k <= Len(queue) THEN queue[k] ELSE j
  BY <1>0, <1>1
<1>3. \A k \in 1..Len(queue) : queue[k] # j
  BY <1>0, <1>1 DEF ToSet
<1>4. ToSet(queue') = ToSet(queue) \cup {j}
  <2>1. ToSet(queue') \subseteq ToSet(queue) \cup {j}
    BY <1>0, <1>2 DEF ToSet
  <2>2. ToSet(queue) \subseteq ToSet(queue')
    BY <1>0, <1>2 DEF ToSet
  <2>3. Len(queue) + 1 \in DOMAIN queue' /\ queue'[Len(queue) + 1] = j
    BY <1>0, <1>2
  <2>. QED BY <2>1, <2>2, <2>3 DEF ToSet
<1>5. IsInjective(queue')
  BY <1>0, <1>2, <1>3 DEF IsInjective, QInv, TypeOK
<1>6. job[j] \in JobRecord /\ job'[j].status = "QUEUED" /\ \A i \in Jobs \ {j} : job'[i] = job[i]
  BY DEF Create, QInv, TypeOK, JobRecord
<1>7. Created' = Created \cup {j}
  BY <1>6 DEF Created
<1>8. due' \in [Jobs -> BOOLEAN]
  BY DEF Create, QInv, TypeOK
<1>9. \A i \in ToSet(listed') : Runnable(i)'
  BY <1>1, <1>6 DEF QInv, TypeOK, Runnable
<1>. QED BY <1>1, <1>2, <1>4, <1>5, <1>7, <1>8, <1>9 DEF QInv, TypeOK, Typed, Created

\* A save ends the first listed job, and no save takes a job back to NONE.
LEMMA SavedStep ==
  ASSUME IInv, QInv, Typed', NEW j \in Jobs, Record(j)
  PROVE  QInv'
<1>1. PICK r \in JobRecord, eligible \in BOOLEAN : Save(j, r, eligible)
  BY RecordIsHonest
<1>2. Advancing(j)
  BY DEF Record, SubmitAccepted, Refused, Threw, StillRunning, InspectFailed, InspectCompleted,
         ReconcileLater, ReconcileOverCap, ReconcileUsage, Conclusive, Answered
<1>3. listed \in Seq(Jobs) /\ listed # <<>> /\ j = listed[1] /\ 1 \in DOMAIN listed
  BY <1>2 DEF Advancing, QInv
<1>4. j \in ToSet(queue)
  BY <1>3 DEF ToSet, QInv, TypeOK
<1>5. job[j] \in JobRecord /\ job[j].status # "NONE" /\ job'[j] = r
  BY <1>1, <1>4 DEF QInv, TypeOK, Save
<1>6. r.status # "NONE"
  <2>1. CASE SubmitAccepted(j)
    <3>1. job'[j] = [job[j] EXCEPT !.status = "RUNNING", !.operation = "SUBMITTED"]
      BY <2>1 DEF SubmitAccepted, Save, QInv, TypeOK
    <3>. QED BY <1>5, <3>1 DEF JobRecord
  <2>2. ASSUME NEW u, NEW refused, Save(j, Failed(j, u, refused), FALSE) PROVE r.status # "NONE"
    <3>1. job'[j] = Failed(j, u, refused)
      BY <2>2 DEF Save, QInv, TypeOK
    <3>. QED BY <1>5, <3>1 DEF Failed, JobRecord
  <2>3. CASE Refused(j) \/ InspectFailed(j)
    BY <2>2, <2>3 DEF Refused, InspectFailed, Fail
  <2>4. CASE Threw(j) \/ StillRunning(j) \/ ReconcileLater(j)
    BY <1>5, <2>4 DEF Threw, StillRunning, ReconcileLater, Defer, Save, QInv, TypeOK
  <2>5. CASE InspectCompleted(j)
    <3>1. job'[j] = [job[j] EXCEPT !.status = "COMPLETED", !.operation = "COMPLETED",
                                   !.artifact = TRUE, !.amounts = answer.amounts,
                                   !.usage = UsageStatus(answer.amounts)]
      BY <2>5 DEF InspectCompleted, Save, QInv, TypeOK
    <3>. QED BY <1>5, <3>1 DEF JobRecord
  <2>6. CASE ReconcileOverCap(j)
    <3>1. job'[j] = [job[j] EXCEPT !.capExceeded = TRUE]
      BY <2>6 DEF ReconcileOverCap, Save, QInv, TypeOK
    <3>. QED BY <1>5, <3>1 DEF JobRecord
  <2>7. CASE ReconcileUsage(j)
    <3>1. job'[j] = [job[j] EXCEPT !.amounts = answer.amounts, !.usage = "FINALIZED"]
      BY <2>7 DEF ReconcileUsage, Save, QInv, TypeOK
    <3>. QED BY <1>5, <3>1 DEF JobRecord
  <2>. QED BY <2>1, <2>3, <2>4, <2>5, <2>6, <2>7 DEF Record
<1>7. Created' = Created
  BY <1>1, <1>5, <1>6 DEF Created, Save, QInv, TypeOK
<1>8. queue' \in Seq(Jobs) /\ ToSet(queue') = ToSet(queue) /\ IsInjective(queue')
  BY <1>1, <1>4, RequeueKeeps DEF Save
<1>9. /\ listed' \in Seq(Jobs) /\ Len(listed') <= Limit /\ ToSet(listed') \subseteq ToSet(listed)
      /\ IsInjective(listed') /\ j \notin ToSet(listed')
  <2>1. /\ listed' = Tail(listed) /\ listed' \in Seq(Jobs) /\ Len(listed') = Len(listed) - 1
        /\ \A k \in 1..Len(listed') : listed'[k] = listed[k + 1]
    BY <1>1, <1>3 DEF Save
  <2>2. Len(listed) \in Nat /\ Len(listed) <= Limit /\ Limit \in Nat
    BY <1>3, JobAssumption DEF QInv, TypeOK
  <2>3. \A k, m \in 1..Len(listed) : listed[k] = listed[m] => k = m
    BY <1>3 DEF QInv, IsInjective
  <2>4. \A k \in 1..Len(listed') : k \in Nat /\ k + 1 \in 1..Len(listed) /\ k + 1 # 1
    BY <2>1, <2>2
  <2>5. DOMAIN listed' = 1..Len(listed') /\ DOMAIN listed = 1..Len(listed)
    BY <1>3, <2>1
  <2>6. ToSet(listed') \subseteq ToSet(listed)
    BY <2>1, <2>4, <2>5 DEF ToSet
  <2>7. IsInjective(listed')
    BY <2>1, <2>3, <2>4, <2>5 DEF IsInjective
  <2>8. j \notin ToSet(listed')
    BY <1>3, <2>1, <2>2, <2>3, <2>4, <2>5 DEF ToSet
  <2>. QED BY <2>1, <2>2, <2>6, <2>7, <2>8
<1>10. due' \in [Jobs -> BOOLEAN] /\ UNCHANGED faults
  BY <1>1 DEF Save, QInv, TypeOK
<1>11. \A i \in ToSet(listed') : Runnable(i)'
  <2>1. \A i \in ToSet(listed') : i \in Jobs /\ i # j /\ Runnable(i)
    BY <1>9 DEF QInv, TypeOK
  <2>. QED BY <1>1, <2>1 DEF Runnable, Save, QInv, TypeOK
<1>. QED BY <1>7, <1>8, <1>9, <1>10, <1>11 DEF QInv, TypeOK, Typed, Created

LEMMA NextQInv == IInv /\ IInv' /\ QInv /\ [Next]_vars => QInv'
<1> SUFFICES ASSUME IInv, IInv', QInv, [Next]_vars PROVE QInv'
  OBVIOUS
<1>0. Typed'
  BY DEF IInv
<1>1. CASE ListJobs
  BY <1>0, <1>1, ListStep
<1>2. CASE Crash
  <2>1. UNCHANGED <<job, due, queue>> /\ listed' = <<>> /\ faults' \in 0..MaxFaults
    BY <1>2, FaultCounts DEF Crash, stored
  <2>2. listed' \in Seq(Jobs) /\ ToSet(listed') = {} /\ Len(listed') <= Limit /\ IsInjective(listed')
    BY <2>1, JobAssumption DEF ToSet, IsInjective
  <2>. QED BY <1>0, <2>1, <2>2 DEF QInv, TypeOK, Typed
<1>3. ASSUME NEW j \in Jobs, Create(j) PROVE QInv'
  BY <1>0, <1>3, CreateStep
<1>4. ASSUME NEW j \in Jobs, Record(j) PROVE QInv'
  BY <1>0, <1>4, SavedStep
<1>5. ASSUME NEW j \in Jobs, CallSubmit(j) \/ CallInspect(j) PROVE QInv'
  <2>1. UNCHANGED <<job, due, queue, listed>> /\ (Fault \/ UNCHANGED faults)
    BY <1>5 DEF CallSubmit, CallInspect, stored
  <2>. QED BY <1>0, <2>1, FaultCounts, KeptQueue DEF QInv, TypeOK
<1>6. ASSUME NEW j \in Jobs,
             RetryDelayElapses(j) \/ ProviderEnds(j) \/ Resume(j) \/ ProviderSettles(j)
      PROVE  QInv'
  <2>1. UNCHANGED <<job, queue, listed>> /\ due' \in [Jobs -> BOOLEAN] /\ (Fault \/ UNCHANGED faults)
    BY <1>6 DEF RetryDelayElapses, ProviderEnds, Resume, ProviderSettles, stored, QInv, TypeOK
  <2>. QED BY <1>0, <2>1, FaultCounts, KeptQueue
<1>7. CASE UNCHANGED vars
  BY <1>0, <1>7, KeptQueue DEF vars, stored, QInv, TypeOK
<1>. QED BY <1>1, <1>2, <1>3, <1>4, <1>5, <1>6, <1>7 DEF Next

LEMMA InitQInv == Init => QInv
<1> SUFFICES ASSUME Init PROVE QInv
  OBVIOUS
<1>1. Typed
  BY InitIInv DEF IInv
<1>2. queue = <<>> /\ listed = <<>> /\ <<>> \in Seq(Jobs) /\ Len(<<>>) = 0
  BY DEF Init
<1>3. ToSet(<<>>) = {} /\ IsInjective(<<>>)
  BY DEF ToSet, IsInjective
<1>4. due \in [Jobs -> BOOLEAN] /\ faults \in 0..MaxFaults /\ \A j \in Jobs : job[j].status = "NONE"
  BY JobAssumption DEF Init
<1>. QED BY <1>1, <1>2, <1>3, <1>4, JobAssumption DEF QInv, TypeOK, Typed, Runnable

LEMMA QueueInvariance == Spec => []QInv
BY InitQInv, NextQInv, Invariance, PTL DEF Spec

\* Every created job is in the queue and none is in it twice, however the saves of the
\* ticks reorder it, and a tick works on created jobs, as many as the limit lets in.
\* (save, listRunnablePresentationJobs)
THEOREM TypeCorrect == Spec => []TypeOK
<1>1. QInv => TypeOK
  BY DEF QInv
<1>. QED BY <1>1, QueueInvariance, PTL

-----------------------------------------------------------------------------
\* A job the tick advances has an open bill.
LEMMA AdvancedIsOpen ==
  ASSUME IInv, QInv, NEW j \in Jobs, Record(j)
  PROVE  ~Report(job[j])
<1>1. Advancing(j)
  BY DEF Record, SubmitAccepted, Refused, Threw, StillRunning, InspectFailed, InspectCompleted,
         ReconcileLater, ReconcileOverCap, ReconcileUsage, Conclusive, Answered
<1>2. j \in ToSet(listed)
  BY <1>1 DEF Advancing, QInv, ToSet
<1>. QED BY <1>2 DEF QInv, Runnable, IInv, ClosedAfterEnd

\* An answer changes the outcome only of a job that has none; the one exception is the
\* coded exception that fails a delivered job, which it does not charge.
LEMMA RecordDecidesOnce ==
  ASSUME IInv, QInv, NEW j \in Jobs, Record(j)
  PROVE  \E r \in JobRecord :
           /\ job' = [job EXCEPT ![j] = r]
           /\ Bill(job[j]) = {}
           /\ Outcome(job[j]) # "pending" =>
                \/ Outcome(r) = Outcome(job[j])
                \/ Outcome(job[j]) = "delivered" /\ Outcome(r) = "failed" /\ Bill(r) = {0}
           /\ Outcome(r) = "pending" => Bill(r) = {}
<1>0. job[j] \in JobRecord /\ answer \in Answers /\ ~Report(job[j])
  BY AdvancedIsOpen DEF IInv, Typed
<1>1. PICK r \in JobRecord, eligible \in BOOLEAN : Save(j, r, eligible) /\ Honest(r, task[j])
  BY RecordIsHonest
<1>2. job' = [job EXCEPT ![j] = r] /\ job'[j] = r
  BY <1>1 DEF Save, IInv, Typed
<1>3. Ended(j) => \/ r.status = job[j].status
                  \/ r.status = "FAILED" /\ Report(r) /\ r.amounts = NoUsage
  <2>1. CASE SubmitAccepted(j) \/ InspectFailed(j) \/ InspectCompleted(j)
    BY <2>1 DEF SubmitAccepted, InspectFailed, InspectCompleted, Inspecting
  <2>2. CASE Refused(j)
    <3>1. r = Failed(j, NoUsage, TRUE)
      BY <1>2, <2>2 DEF Refused, Save, IInv, Typed
    <3>2. NoUsage \in Usage /\ ~NoUsage.unknown
      BY DEF NoUsage, Usage, Amounts
    <3>3. r.status = "FAILED" /\ r.amounts = NoUsage /\ r.usage = "FINALIZED"
      BY <3>1, <3>2, FailedRecord, Zenon
    <3>. QED BY <3>3
  <2>3. CASE Threw(j) \/ StillRunning(j) \/ ReconcileLater(j)
    BY <1>0, <1>2, <2>3 DEF Threw, StillRunning, ReconcileLater, Defer, Save, IInv, Typed
  <2>4. CASE ReconcileOverCap(j)
    <3>1. job'[j] = [job[j] EXCEPT !.capExceeded = TRUE]
      BY <2>4 DEF ReconcileOverCap, Save, IInv, Typed
    <3>. QED BY <1>0, <1>2, <3>1 DEF JobRecord
  <2>5. CASE ReconcileUsage(j)
    <3>1. job'[j] = [job[j] EXCEPT !.amounts = answer.amounts, !.usage = "FINALIZED"]
      BY <2>5 DEF ReconcileUsage, Save, IInv, Typed
    <3>. QED BY <1>0, <1>2, <3>1 DEF JobRecord
  <2>. QED BY <2>1, <2>2, <2>3, <2>4, <2>5 DEF Record
<1>4. r.status \notin {"COMPLETED", "FAILED"} => ~Report(r)
  BY <1>1 DEF Honest
<1>5. Bill(job[j]) = {} /\ (Outcome(r) = "pending" => Bill(r) = {})
  BY <1>0, <1>4 DEF Bill, Outcome
<1>6. NoUsage.billed = 0
  BY DEF NoUsage
<1>7. Outcome(job[j]) # "pending" =>
        \/ Outcome(r) = Outcome(job[j])
        \/ Outcome(job[j]) = "delivered" /\ Outcome(r) = "failed" /\ Bill(r) = {0}
  BY <1>0, <1>3, <1>6 DEF Outcome, Bill, JobRecord
<1>. QED BY <1>2, <1>5, <1>7

\* Such a change is a step of the contract, or none.
LEMMA ChangeRefines ==
  ASSUME IInv, IInv', NEW j \in Jobs, NEW r \in JobRecord,
         job' = [job EXCEPT ![j] = r],
         Bill(job[j]) = {},
         Outcome(job[j]) # "pending" =>
           \/ Outcome(r) = Outcome(job[j])
           \/ Outcome(job[j]) = "delivered" /\ Outcome(r) = "failed" /\ Bill(r) = {0},
         Outcome(r) = "pending" => Bill(r) = {}
  PROVE  [Contract!Next]_<<[i \in Jobs |-> Outcome(job[i])], [i \in Jobs |-> Bill(job[i])]>>
<1> DEFINE outcome == [i \in Jobs |-> Outcome(job[i])]
           bill == [i \in Jobs |-> Bill(job[i])]
<1>1. /\ outcome' = [outcome EXCEPT ![j] = Outcome(r)]
      /\ bill' = [bill EXCEPT ![j] = Bill(r)]
  BY DEF IInv, Typed
<1>2. Bill(r) \in {{}} \cup {{n} : n \in Amounts} /\ Outcome(r) \in {"pending", "delivered", "failed"}
  BY DEF Bill, Outcome, JobRecord, Usage
<1>3. CASE Outcome(r) = Outcome(job[j]) /\ Bill(r) = Bill(job[j])
  <2>1. outcome' = outcome /\ bill' = bill
    BY <1>1, <1>3
  <2>. QED BY <2>1
<1>4. CASE Outcome(r) # Outcome(job[j])
  <2>1. CASE Outcome(job[j]) = "pending"
    <3>1. Outcome(r) \in {"delivered", "failed"}
      BY <1>2, <1>4, <2>1
    <3>2. Contract!Decide(j)
      BY <1>1, <1>2, <2>1, <3>1 DEF Contract!Decide
    <3>. QED BY <3>2 DEF Contract!Next
  <2>2. CASE Outcome(job[j]) = "delivered" /\ Outcome(r) = "failed" /\ Bill(r) = {0}
    <3>1. Contract!Revoke(j)
      BY <1>1, <2>2 DEF Contract!Revoke
    <3>. QED BY <3>1 DEF Contract!Next
  <2>. QED BY <1>4, <2>1, <2>2
<1>5. CASE Outcome(r) = Outcome(job[j]) /\ Bill(r) # Bill(job[j])
  <2>1. outcome' = outcome
    BY <1>1, <1>5
  <2>2. Outcome(job[j]) # "pending" /\ Bill(job[j]) = {} /\ \E n \in Amounts : Bill(r) = {n}
    BY <1>2, <1>5
  <2>3. Contract!Close(j)
    BY <1>1, <2>1, <2>2 DEF Contract!Close
  <2>. QED BY <2>3 DEF Contract!Next
<1>. QED BY <1>3, <1>4, <1>5

\* Creating a job shows the contract nothing; the other steps write no record.
LEMMA StepRefines ==
  ASSUME IInv, IInv', QInv, [Next]_vars
  PROVE  [Contract!Next]_<<[i \in Jobs |-> Outcome(job[i])], [i \in Jobs |-> Bill(job[i])]>>
<1>1. ASSUME NEW j \in Jobs, Record(j)
      PROVE  [Contract!Next]_<<[i \in Jobs |-> Outcome(job[i])], [i \in Jobs |-> Bill(job[i])]>>
  BY <1>1, RecordDecidesOnce, ChangeRefines
<1>2. ASSUME NEW j \in Jobs, Create(j)
      PROVE  [Contract!Next]_<<[i \in Jobs |-> Outcome(job[i])], [i \in Jobs |-> Bill(job[i])]>>
  <2> DEFINE r == [job[j] EXCEPT !.status = "QUEUED"]
  <2>1. job[j] \in JobRecord
    BY DEF IInv, Typed
  <2>2. r \in JobRecord /\ r.status = "QUEUED" /\ r.usage = job[j].usage /\ r.amounts = job[j].amounts
    BY <2>1 DEF JobRecord
  <2>3. job' = [job EXCEPT ![j] = r] /\ job[j].status = "NONE"
    BY <1>2 DEF Create
  <2>4. Outcome(r) = "pending" /\ Outcome(job[j]) = "pending" /\ Bill(job[j]) = {} /\ Bill(r) = {}
    BY <2>2, <2>3 DEF Outcome, Bill, IInv, ClosedAfterEnd
  <2>. QED BY <2>2, <2>3, <2>4, ChangeRefines
<1>3. ASSUME UNCHANGED job
      PROVE  [Contract!Next]_<<[i \in Jobs |-> Outcome(job[i])], [i \in Jobs |-> Bill(job[i])]>>
  BY <1>3
<1>4. \/ UNCHANGED job
      \/ \E j \in Jobs : Record(j) \/ Create(j)
  BY DEF Next, vars, stored, ListJobs, Crash, CallSubmit, CallInspect, RetryDelayElapses, ProviderEnds,
         Resume, ProviderSettles
<1>. QED BY <1>1, <1>2, <1>3, <1>4

LEMMA InitRefines == Init => Contract!Init
BY DEF Init, Contract!Init, Outcome, Bill

\* The outcome of a job is decided once and its bill is closed once, for any number of
\* jobs, whatever the provider answers and whenever a port throws; only the coded
\* exception of a port takes a delivery back, while its bill is open, and charges nothing.
THEOREM ContractIsKept == Spec => KeepsContract
<1>1. IInv /\ IInv' /\ QInv /\ [Next]_vars
        => [Contract!Next]_<<[j \in Jobs |-> Outcome(job[j])], [j \in Jobs |-> Bill(job[j])]>>
  BY StepRefines
<1>. QED BY <1>1, InitRefines, Invariance, QueueInvariance, PTL DEF Spec, KeepsContract, Contract!Spec

===============================================================================

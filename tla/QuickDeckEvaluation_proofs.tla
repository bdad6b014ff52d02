---------------------- MODULE QuickDeckEvaluation_proofs ----------------------
(***************************************************************************)
(* Proofs about QuickDeckEvaluation for every number of workers, pages,    *)
(* faults and restarts: no image task is submitted twice (SubmittedOnce),  *)
(* and what the record says of an end is true (EndsAreHonest).  At the     *)
(* end of the module, the deck: whole while it is offered                  *)
(* (DownloadReady), and for one worker also gone after its cleanup         *)
(* (DeckIsKept).                                                           *)
(*                                                                         *)
(* A request is sent without looking at the claim, and a worker that lost  *)
(* its claim may send it late.  It is sent once all the same, because the  *)
(* save that leaves QUEUED succeeds once: there is one submitter for ever  *)
(* (OneSubmitter), which takes the pages in order (PagesInOrder).          *)
(* Only the holder of the claim writes, and its copy is the record but for *)
(* what it has just learnt (CopyIsCurrent); so a save can be judged by the *)
(* step the holder is at (StepFitsStatus).  No step is at fault for a page *)
(* it does not know of, because a page about to be submitted is never      *)
(* recorded NOT_SUBMITTED (PagesAreTrue).  A doubt is carried by the error *)
(* of its page until pendingFailure is set (DoubtIsRecorded).              *)
(*                                                                         *)
(* For the deck: nothing is removed before the job has expired             *)
(* (RemovedLate), an image is recorded as complete only after it was       *)
(* stored, and the holder of the claim has put away what it is about to    *)
(* deliver (Whole).  A cleanup within its window that knows everything has *)
(* what is left of the deck on its list (DeckIsListed).                    *)
(***************************************************************************)
EXTENDS QuickDeckEvaluation, FiniteSetTheorems, TLAPS

Submitting == {"model", "preflight", "page", "call", "await"}
Submitter(w) == worker[w].at \in Submitting

\* Past the save that leaves QUEUED there is one worker at most.
OneSubmitter ==
  /\ \A v, w \in Workers : Submitter(v) /\ Submitter(w) => v = w
  /\ job.status = "QUEUED" => /\ \A w \in Workers : ~Submitter(w)
                              /\ \A p \in Pages : sent[p] = 0

\* What lies before a submitter has not been sent.
PagesInOrder ==
  \A w \in Workers :
    /\ worker[w].at \in {"idle", "plan", "model", "preflight"} => worker[w].page = 0
    /\ worker[w].at \in {"call", "await"} => worker[w].page \in Pages
    /\ Submitter(w) => \A p \in Pages : p > worker[w].page => sent[p] = 0
    /\ worker[w].at = "call" => sent[worker[w].page] = 0

\* The gateway knows only what was sent to it.
SentFirst == \A p \in Pages : sent[p] = 0 => gateway[p] = "none"

\* The worker whose next save succeeds.
Acting(w) == Holds(w) /\ worker[w].at \notin {"idle", "broken", "release"}
CopyIsCurrent ==
  \A w \in Workers : Acting(w) =>
    /\ worker[w].at \notin {"progress", "expire"} => worker[w].rec = job
    /\ worker[w].at = "progress" =>
         worker[w].rec.status = job.status /\ worker[w].rec.pending = job.pending

Statuses == Active \cup {"COMPLETED", "FAILED", "EXPIRED"}
\* The statuses of the record at each step of the worker that acts on it.
StatusesAt(step) ==
  CASE step = "plan" -> {"QUEUED"}
    [] step \in {"model", "interrupted"} -> {"PLANNING"}
    [] step \in {"preflight", "page", "call", "await", "recover"} -> {"SUBMITTING_IMAGES"}
    [] step \in {"inspect", "progress"} -> {"GENERATING", "PACKAGING"}
    [] step \in {"preview", "pptx", "deliver"} -> {"PACKAGING"}
    [] step \in {"remove", "settle"} -> {"EXPIRED"}
    [] OTHER -> Statuses
StepFitsStatus == \A w \in Workers : Acting(w) => job.status \in StatusesAt(worker[w].at)

\* A request for the page may still go out.
Pledged(p) == \E w \in Workers : worker[w].at = "call" /\ worker[w].page = p
TrueOf(pages) ==
  \A p \in Pages : pages[p].sub = "NOT_SUBMITTED" => gateway[p] \in {"none", "refused"} /\ ~Pledged(p)
PagesAreTrue ==
  /\ TrueOf(job.pages)
  /\ \A w \in Workers :
       Acting(w) /\ worker[w].at \in {"progress", "expire"} => TrueOf(worker[w].rec.pages)

NoUnknown(pages) == \A p \in Pages : pages[p].sub # "UNKNOWN"
\* What is saved about the pages after the last one taken, and what follows from a doubt.
InOrder(rec, step, page) ==
  /\ step = "preflight" => \A p \in Pages : rec.pages[p] = FreshPage
  /\ step \in {"page", "call", "await"} =>
       \A p \in Pages :
         /\ p > page => rec.pages[p] = FreshPage
         /\ rec.pages[p].sub = "UNKNOWN" => rec.pages[p].err \/ (step # "page" /\ p = page)
DoubtOf(rec) ==
  /\ rec.status \in {"QUEUED", "PLANNING"} => \A p \in Pages : rec.pages[p] = FreshPage
  /\ rec.status = "GENERATING" => rec.pending \/ NoUnknown(rec.pages)
  /\ rec.status \in {"PACKAGING", "COMPLETED"} => ~rec.pending /\ NoUnknown(rec.pages)
DoubtIsRecorded ==
  /\ DoubtOf(job)
  /\ \A w \in Workers : Acting(w) => InOrder(job, worker[w].at, worker[w].page)

IInv == /\ TypeOK /\ SubmittedOnce /\ OneSubmitter /\ PagesInOrder /\ SentFirst
        /\ CopyIsCurrent /\ StepFitsStatus /\ PagesAreTrue /\ DoubtIsRecorded

\* The holder of the claim is at the submission of the page.
Calling(w, p) == Holds(w) /\ worker[w].at \in {"call", "await"} /\ worker[w].page = p
\* A record that can no longer complete: it failed, a failure is pending, or a page
\* is unknown that nobody is still asking about.
Doomed ==
  \/ job.status \in {"FAILED", "EXPIRED"}
  \/ job.status = "GENERATING" /\ job.pending
  \/ /\ job.status = "SUBMITTING_IMAGES"
     /\ \E p \in Pages : job.pages[p].sub = "UNKNOWN" /\ \A w \in Workers : ~Calling(w, p)

EndIsKept ==
  job.status \in {"COMPLETED", "FAILED", "EXPIRED"} => job' = job \/ job'.status = "EXPIRED"
\* What every step is shown to do.
SoundStep == IInv' /\ (Doomed => Doomed') /\ EndIsKept

Others(w) == \A v \in Workers \ {w} : worker'[v] = worker[v]

-----------------------------------------------------------------------------
LEMMA PageOps ==
  ASSUME NEW page \in Page, NEW task
  PROVE  /\ FreshPage \in Page /\ Skipped(page) \in Page /\ NotAccepted(page) \in Page
         /\ FailedInspection(page) \in Page
         /\ Answered(page, task) \in Page /\ LookedUp(page, task) \in Page
         /\ Inspected(page, task) \in Page
         /\ task \in {"done", "refused", "failed"} => Settled(page, task) \in Page
<1>1. FreshPage \in Page /\ Skipped(page) \in Page /\ NotAccepted(page) \in Page
      /\ FailedInspection(page) \in Page
  BY DEF Page, FreshPage, Skipped, NotAccepted, FailedInspection
<1>2. Answered(page, task) \in Page
  BY <1>1 DEF Page, Answered
<1>3. LookedUp(page, task) \in Page
  BY <1>1 DEF Page, LookedUp
<1>4. Inspected(page, task) \in Page
  BY <1>1 DEF Page, Inspected
<1>5. task \in {"done", "refused", "failed"} => Settled(page, task) \in Page
  BY <1>1 DEF Page, Settled
<1>. QED BY <1>1, <1>2, <1>3, <1>4, <1>5

LEMMA NotAcceptedFields ==
  ASSUME NEW page \in Page
  PROVE  /\ NotAccepted(page) \in Page /\ NotAccepted(page).sub = "NOT_SUBMITTED"
         /\ NotAccepted(page).err
<1>1. NotAccepted(page) \in Page
  BY DEF Page, NotAccepted
<1>2. NotAccepted(page).sub = "NOT_SUBMITTED" /\ NotAccepted(page).err
  BY DEF Page, NotAccepted
<1>. QED BY <1>1, <1>2

LEMMA RecordOps ==
  ASSUME NEW rec \in Record
  PROVE  /\ Failed(rec) \in Record /\ Generating(rec) \in Record /\ StartDraining(rec) \in Record
         /\ RecoveredSubmission(rec) \in Record /\ Recovered(rec) \in Record
<1>1. \A r \in Record : Failed(r) \in Record /\ Generating(r) \in Record
  BY DEF Record, Failed, Generating
<1>2. \A r \in Record : StartDraining(r) \in Record
  BY <1>1 DEF Record, StartDraining, Generating
<1>. DEFINE pages == [p \in Pages |-> Skipped(rec.pages[p])]
            next == [rec EXCEPT !.pages = pages]
<1>3. next \in Record
  BY PageOps DEF Record
<1>. HIDE DEF next
<1>4. [Generating(next) EXCEPT !.pending = FALSE, !.drain = FALSE] \in Record
  BY <1>1, <1>3 DEF Record, Generating
<1>10. \A r \in Record : /\ [r EXCEPT !.drain = FALSE] \in Record /\ [r EXCEPT !.due = TRUE] \in Record
                         /\ [r EXCEPT !.pending = FALSE] \in Record
  BY DEF Record
<1>5. /\ [Generating(next) EXCEPT !.drain = FALSE] \in Record
      /\ [Failed(next) EXCEPT !.pending = FALSE] \in Record
      /\ [next EXCEPT !.due = TRUE] \in Record
  BY <1>1, <1>3, <1>10
<1>6. RecoveredSubmission(rec) \in Record
  BY <1>1, <1>2, <1>3, <1>4 DEF RecoveredSubmission, next
<1>7. Resumed(rec) \in Record
  BY <1>1, <1>2, <1>3, <1>5 DEF Resumed, next
<1>8. [rec EXCEPT !.due = TRUE] \in Record /\ [Failed(rec) EXCEPT !.pending = FALSE] \in Record
  BY <1>1 DEF Record, Failed
<1>9. Recovered(rec) \in Record
  BY <1>7, <1>8 DEF Recovered
<1>. QED BY <1>1, <1>2, <1>6, <1>9

LEMMA RecordFields ==
  ASSUME NEW rec \in Record
  PROVE  /\ Failed(rec).status = "FAILED" /\ Failed(rec).pages = rec.pages
         /\ Generating(rec).status = "GENERATING" /\ Generating(rec).pages = rec.pages
         /\ StartDraining(rec).status = "GENERATING" /\ StartDraining(rec).pages = rec.pages
         /\ StartDraining(rec).pending
<1>1. /\ Failed(rec).status = "FAILED" /\ Failed(rec).pages = rec.pages
      /\ Generating(rec).status = "GENERATING" /\ Generating(rec).pages = rec.pages
  BY DEF Record, Failed, Generating
<1>2. Generating(rec) \in Record
  BY RecordOps
<1>. QED BY <1>1, <1>2 DEF StartDraining, Record

-----------------------------------------------------------------------------
\* Of a turn that ends without a save nothing is left but the worker's release.
LEMMA Stops ==
  ASSUME IInv, NEW w \in Workers, Others(w), worker' \in [Workers -> WorkerState],
         worker'[w].at \in {"release", "broken", "idle"}, worker'[w].at = "idle" => worker'[w].page = 0,
         UNCHANGED <<job, sent, late, restarts>>,
         lease' = lease \/ lease' = [holder |-> "none", live |-> FALSE],
         faults' \in 0 .. MaxFaults, store' \subseteq (Pages \cup Deck),
         gateway' = gateway \/ (\E p \in Pages : gateway[p] = "flying" /\ gateway' = [gateway EXCEPT ![p] = "none"])
  PROVE  SoundStep
<1>. USE DEF IInv, Others
<1>1. TypeOK' /\ SubmittedOnce'
  <2>1. lease' \in [holder: Workers \cup {"none"}, live: BOOLEAN]
    <3>1. [holder |-> "none", live |-> FALSE] \in [holder: Workers \cup {"none"}, live: BOOLEAN]
      OBVIOUS
    <3>2. lease \in [holder: Workers \cup {"none"}, live: BOOLEAN]
      BY DEF TypeOK
    <3>. QED BY <3>1, <3>2
  <2>2. gateway' \in [Pages -> {"none", "flying", "pending", "unknown", "refused", "done", "failed"}]
    BY DEF TypeOK
  <2>. QED BY <2>1, <2>2 DEF TypeOK, SubmittedOnce
<1>2. /\ \A v \in Workers : Holds(v)' => Holds(v)
      /\ \A v \in Workers : Submitter(v)' => Submitter(v) /\ v # w
      /\ \A v \in Workers : Acting(v)' => Acting(v) /\ v # w
  BY DEF Holds, Submitter, Submitting, Acting
<1>3. OneSubmitter'
  BY <1>2 DEF OneSubmitter
<1>4. PagesInOrder'
  BY <1>2 DEF PagesInOrder, Submitter, Submitting
<1>5. SentFirst'
  BY DEF SentFirst, TypeOK
<1>6. CopyIsCurrent' /\ StepFitsStatus'
  BY <1>2 DEF CopyIsCurrent, StepFitsStatus
<1>7. PagesAreTrue'
  <2>1. \A p \in Pages : gateway[p] \in {"none", "refused"} => gateway'[p] \in {"none", "refused"}
    BY DEF TypeOK
  <2>2. \A p \in Pages : Pledged(p)' => Pledged(p)
    BY DEF Pledged
  <2>3. \A pages : TrueOf(pages) => \A p \in Pages : pages[p].sub = "NOT_SUBMITTED" =>
            gateway'[p] \in {"none", "refused"} /\ ~Pledged(p)'
    BY <2>1, <2>2 DEF TrueOf
  <2>. QED BY <1>2, <2>3 DEF PagesAreTrue, TrueOf
<1>8. DoubtIsRecorded'
  BY <1>2 DEF DoubtIsRecorded
<1>9. Doomed => Doomed'
  <2>1. \A v \in Workers, p \in Pages : Calling(v, p)' => Calling(v, p)
    BY <1>2 DEF Calling
  <2>. QED BY <2>1 DEF Doomed
<1>. QED BY <1>1, <1>3, <1>4, <1>5, <1>6, <1>7, <1>8, <1>9 DEF SoundStep, EndIsKept

-----------------------------------------------------------------------------
\* What a worker does to its own copy only.
LEMMA Thinks ==
  ASSUME IInv, NEW w \in Workers, Others(w), worker' \in [Workers -> WorkerState],
         worker'[w].at \in {"progress", "pptx", "deliver", "expire", "settle"},
         worker[w].at \in {"inspect", "preview", "pptx", "survey", "remove"},
         UNCHANGED <<job, lease, sent, gateway, late, restarts>>,
         faults' \in 0 .. MaxFaults, store' \subseteq (Pages \cup Deck),
         StatusesAt(worker[w].at) \subseteq StatusesAt(worker'[w].at),
         Acting(w) /\ worker'[w].at \notin {"progress", "expire"} => worker'[w].rec = worker[w].rec,
         Acting(w) /\ worker'[w].at = "progress" =>
            worker'[w].rec.status = job.status /\ worker'[w].rec.pending = job.pending,
         Acting(w) /\ worker'[w].at \in {"progress", "expire"} => TrueOf(worker'[w].rec.pages)
  PROVE  SoundStep
<1>. USE DEF IInv, Others
<1>1. TypeOK' /\ SubmittedOnce'
  BY DEF TypeOK, SubmittedOnce
<1>2. /\ \A v \in Workers : Holds(v)' <=> Holds(v)
      /\ \A v \in Workers : Submitter(v)' => Submitter(v) /\ v # w
      /\ \A v \in Workers : Acting(v)' => Acting(v)
  BY DEF Holds, Submitter, Submitting, Acting
<1>3. OneSubmitter'
  BY <1>2 DEF OneSubmitter
<1>4. PagesInOrder'
  BY <1>2 DEF PagesInOrder, Submitter, Submitting
<1>5. SentFirst'
  BY DEF SentFirst
<1>6. CopyIsCurrent'
  BY <1>2 DEF CopyIsCurrent
<1>7. StepFitsStatus'
  BY <1>2 DEF StepFitsStatus
<1>8. PagesAreTrue'
  <2>1. \A p \in Pages : Pledged(p)' <=> Pledged(p)
    BY DEF Pledged
  <2>2. \A pages : TrueOf(pages) => \A p \in Pages : pages[p].sub = "NOT_SUBMITTED" =>
            gateway'[p] \in {"none", "refused"} /\ ~Pledged(p)'
    BY <2>1 DEF TrueOf
  <2>3. TrueOf(job.pages)'
    BY <2>2 DEF PagesAreTrue, TrueOf
  <2>4. ASSUME NEW v \in Workers, Acting(v)', worker'[v].at \in {"progress", "expire"}
        PROVE  TrueOf(worker'[v].rec.pages)
    BY <1>2, <2>4 DEF PagesAreTrue
  <2>. QED BY <1>2, <2>2, <2>3, <2>4 DEF PagesAreTrue, TrueOf
<1>9. DoubtIsRecorded'
  BY <1>2 DEF DoubtIsRecorded, InOrder
<1>10. Doomed => Doomed'
  <2>1. \A v \in Workers, p \in Pages : Calling(v, p)' => Calling(v, p)
    BY <1>2 DEF Calling
  <2>. QED BY <2>1 DEF Doomed
<1>. QED BY <1>1, <1>3, <1>4, <1>5, <1>6, <1>7, <1>8, <1>9, <1>10 DEF SoundStep, EndIsKept

-----------------------------------------------------------------------------
\* What the holder of the claim saves: nobody else acts on the record.
LEMMA Saves ==
  ASSUME IInv, NEW w \in Workers, Holds(w), Others(w), worker' \in [Workers -> WorkerState],
         worker[w].at # "idle",
         job' \in Record, UNCHANGED <<lease, sent, store, late, faults, restarts>>,
         gateway' = gateway \/ (\E p \in Pages : gateway[p] = "flying" /\ gateway' = [gateway EXCEPT ![p] = "none"]),
         worker'[w].at \in {"release", "model", "preflight", "page", "call", "preview", "remove"},
         worker'[w].at # "release" =>
            worker'[w].rec = job' /\ job'.status \in StatusesAt(worker'[w].at),
         worker'[w].at \in {"model", "preflight"} => worker'[w].page = worker[w].page,
         worker'[w].at = "model" => worker[w].at = "plan",
         worker'[w].at = "preflight" => worker[w].at = "model",
         worker'[w].at \in {"page", "call"} => Submitter(w) /\ worker'[w].page >= worker[w].page,
         worker'[w].at = "call" => worker'[w].page \in Pages /\ sent[worker'[w].page] = 0,
         job'.status # "QUEUED", TrueOf(job.pages)', DoubtOf(job'),
         InOrder(job', worker'[w].at, worker'[w].page), Doomed => Doomed', EndIsKept
  PROVE  SoundStep
<1>. USE DEF IInv, Others
<1>1. TypeOK' /\ SubmittedOnce'
  BY DEF TypeOK, SubmittedOnce
<1>2. /\ \A v \in Workers : Holds(v)' <=> v = w
      /\ \A v \in Workers : Acting(v)' => v = w
      /\ \A v \in Workers : v # w => (Submitter(v)' <=> Submitter(v))
  BY DEF Holds, Acting, Submitter
<1>3. worker[w].at = "plan" =>
        (\A v \in Workers : ~Submitter(v)) /\ (\A p \in Pages : sent[p] = 0) /\ worker[w].page = 0
  BY DEF StepFitsStatus, Acting, StatusesAt, OneSubmitter, PagesInOrder
<1>4. Submitter(w)' => Submitter(w) \/ worker[w].at = "plan"
  BY DEF Submitter, Submitting
<1>5. OneSubmitter'
  BY <1>2, <1>3, <1>4 DEF OneSubmitter
<1>6. PagesInOrder'
  <2>1. \A v \in Workers : worker[v].page \in Nat /\ worker'[v].page \in Nat
    BY DEF TypeOK, WorkerState
  <2>2. \A p \in Pages : p \in Nat
    BY DEF Pages
  <2>3. Submitter(w)' => \A p \in Pages : p > worker'[w].page => sent[p] = 0
    BY <1>3, <1>4, <2>1, <2>2 DEF PagesInOrder, Submitter, Submitting
  <2>4. worker'[w].at \in {"model", "preflight"} => worker'[w].page = 0
    BY DEF PagesInOrder
  <2>. QED BY <1>2, <2>3, <2>4 DEF PagesInOrder, Submitter, Submitting
<1>7. SentFirst'
  BY DEF SentFirst, TypeOK
<1>8. CopyIsCurrent'
  BY <1>2, <1>1 DEF CopyIsCurrent, Acting
<1>9. StepFitsStatus'
  BY <1>2 DEF StepFitsStatus, Acting
<1>10. PagesAreTrue'
  BY <1>2 DEF PagesAreTrue
<1>11. DoubtIsRecorded'
  BY <1>2 DEF DoubtIsRecorded
<1>. QED BY <1>1, <1>5, <1>6, <1>7, <1>8, <1>9, <1>10, <1>11 DEF SoundStep

LEMMA IdleType == NewRecord \in Record /\ Idle \in WorkerState
<1>1. FreshPage \in Page
  BY DEF FreshPage, Page
<1>2. NewRecord \in Record
  BY <1>1 DEF NewRecord, Record, Deck
<1>3. 0 \in 0 .. PageCount
  BY QuickDeckAssumption
<1>4. "idle" \in Steps
  BY DEF Steps
<1>. QED BY <1>2, <1>3, <1>4 DEF Idle, WorkerState

LEMMA SaveEffect ==
  ASSUME TypeOK, NEW w \in Workers, NEW rec \in Record, NEW step \in Steps, SaveClaimed(w, rec, step)
  PROVE  /\ UNCHANGED <<lease, late, faults, restarts>> /\ Others(w)
         /\ worker' \in [Workers -> WorkerState]
         /\ \/ /\ Holds(w) /\ job' = rec /\ worker'[w].at = step
               /\ step # "release" => worker'[w].rec = rec /\ worker'[w].page = worker[w].page
            \/ ~Holds(w) /\ job' = job /\ worker'[w].at = "release"
<1>1. UNCHANGED <<lease, late, faults, restarts>>
  BY DEF SaveClaimed
<1>2. ASSUME Leave(w)
      PROVE  Others(w) /\ worker' \in [Workers -> WorkerState] /\ worker'[w].at = "release"
  <2>1. [Idle EXCEPT !.at = "release"] \in WorkerState /\ [Idle EXCEPT !.at = "release"].at = "release"
    BY IdleType DEF WorkerState, Steps
  <2>. QED BY <1>2, <2>1 DEF Leave, TypeOK, Others
<1>3. ASSUME Holds(w), step # "release"
      PROVE  /\ Others(w) /\ worker' \in [Workers -> WorkerState] /\ job' = rec
             /\ worker'[w].at = step /\ worker'[w].rec = rec /\ worker'[w].page = worker[w].page
  <2>1. worker' = [worker EXCEPT ![w].at = step, ![w].rec = rec] /\ job' = rec
    BY <1>3 DEF SaveClaimed
  <2>2. worker[w] \in WorkerState
    BY DEF TypeOK
  <2>3. worker' = [worker EXCEPT ![w] = [[worker[w] EXCEPT !.at = step] EXCEPT !.rec = rec]]
    BY <2>1, <2>2 DEF TypeOK, WorkerState
  <2>. DEFINE now == [[worker[w] EXCEPT !.at = step] EXCEPT !.rec = rec]
  <2>4. now \in WorkerState /\ now.at = step /\ now.rec = rec /\ now.page = worker[w].page
    BY <2>2 DEF WorkerState
  <2>. HIDE DEF now
  <2>. QED BY <2>1, <2>3, <2>4 DEF TypeOK, Others, now
<1>. QED BY <1>1, <1>2, <1>3 DEF SaveClaimed

\* The same of a record nobody is submitting for.
DoomedRec(rec) ==
  \/ rec.status \in {"FAILED", "EXPIRED"}
  \/ rec.status = "GENERATING" /\ rec.pending
  \/ rec.status = "SUBMITTING_IMAGES" /\ ~NoUnknown(rec.pages)

\* A call to saveClaimed, with what the record it saves must satisfy if the claim holds.
LEMMA SaveTurn ==
  ASSUME IInv, NEW w \in Workers, NEW rec \in Record,
         NEW step \in {"release", "model", "preflight", "page", "preview", "remove"},
         SaveClaimed(w, rec, step), worker[w].at # "idle", UNCHANGED <<sent, store>>,
         gateway' = gateway \/ (\E p \in Pages : gateway[p] = "flying" /\ gateway' = [gateway EXCEPT ![p] = "none"]),
         Holds(w) =>
           /\ step # "release" => rec.status \in StatusesAt(step)
           /\ step = "model" => worker[w].at = "plan"
           /\ step = "preflight" => worker[w].at = "model"
           /\ step = "page" => Submitter(w)
           /\ rec.status # "QUEUED" /\ DoubtOf(rec) /\ InOrder(rec, step, worker[w].page)
           /\ \A p \in Pages : rec.pages[p].sub = "NOT_SUBMITTED" =>
                /\ gateway'[p] \in {"none", "refused"}
                /\ \A v \in Workers \ {w} : ~(worker[v].at = "call" /\ worker[v].page = p)
           /\ Doomed => DoomedRec(rec)
           /\ job.status \in {"COMPLETED", "FAILED", "EXPIRED"} => rec = job \/ rec.status = "EXPIRED"
  PROVE  SoundStep
<1>1. step \in Steps
  BY DEF Steps, PlanningSteps, PollingSteps, ExpirySteps
<1>2. TypeOK
  BY DEF IInv
<1>3. /\ UNCHANGED <<lease, late, faults, restarts>> /\ Others(w)
      /\ worker' \in [Workers -> WorkerState]
      /\ \/ /\ Holds(w) /\ job' = rec /\ worker'[w].at = step
            /\ step # "release" => worker'[w].rec = rec /\ worker'[w].page = worker[w].page
         \/ ~Holds(w) /\ job' = job /\ worker'[w].at = "release"
  BY <1>1, <1>2, SaveEffect
<1>4. CASE ~Holds(w)
  <2>1. faults' \in 0 .. MaxFaults /\ store' \subseteq (Pages \cup Deck)
    BY <1>2, <1>3 DEF TypeOK
  <2>. QED BY <1>3, <1>4, <2>1, Stops
<1>5. CASE Holds(w)
  <2>1. job' = rec /\ worker'[w].at = step
        /\ (step # "release" => worker'[w].rec = rec /\ worker'[w].page = worker[w].page)
    BY <1>3, <1>5
  <2>2. \A p \in Pages : Pledged(p)' =>
           \E v \in Workers \ {w} : worker[v].at = "call" /\ worker[v].page = p
    BY <1>3, <2>1 DEF Pledged, Others
  <2>3. TrueOf(job.pages)'
    BY <1>5, <2>1, <2>2 DEF TrueOf
  <2>4. \A v \in Workers, p \in Pages : ~Calling(v, p)'
    BY <1>3, <1>5, <2>1 DEF Calling, Holds
  <2>5. DoomedRec(rec) => Doomed'
    BY <2>1, <2>4 DEF DoomedRec, Doomed, NoUnknown
  <2>6. InOrder(rec, step, worker'[w].page)
    BY <1>5, <2>1 DEF InOrder
  <2>7. worker[w].page \in Nat
    BY <1>2 DEF TypeOK, WorkerState
  <2>. QED BY <1>3, <1>5, <2>1, <2>3, <2>5, <2>6, <2>7, Saves DEF EndIsKept
<1>. QED BY <1>4, <1>5

LEMMA CopyType ==
  ASSUME TypeOK, NEW w \in Workers
  PROVE  /\ worker[w] \in WorkerState /\ worker[w].rec \in Record /\ worker[w].page \in Nat
         /\ job \in Record
         /\ \A p \in Pages : job.pages[p] \in Page /\ worker[w].rec.pages[p] \in Page
BY DEF TypeOK, WorkerState, Record

\* A save outside a submission, where the gateway is left alone.
LEMMA SaveOnly ==
  ASSUME IInv, NEW w \in Workers, NEW rec \in Record,
         NEW step \in {"release", "model", "preflight", "page", "preview", "remove"},
         SaveClaimed(w, rec, step), worker[w].at # "idle", UNCHANGED outside,
         Holds(w) =>
           /\ step # "release" => rec.status \in StatusesAt(step)
           /\ step = "model" => worker[w].at = "plan"
           /\ step = "preflight" => worker[w].at = "model"
           /\ step = "page" => Submitter(w)
           /\ rec.status # "QUEUED" /\ DoubtOf(rec) /\ InOrder(rec, step, worker[w].page)
           /\ TrueOf(rec.pages) /\ (Doomed => DoomedRec(rec))
           /\ job.status \in {"COMPLETED", "FAILED", "EXPIRED"} => rec = job \/ rec.status = "EXPIRED"
  PROVE  SoundStep
BY SaveTurn DEF TrueOf, Pledged, outside

\* What the invariant says of a worker whose claim holds.
LEMMA Known ==
  ASSUME IInv, NEW w \in Workers, Acting(w)
  PROVE  /\ worker[w].at \notin {"progress", "expire"} => worker[w].rec = job
         /\ job.status \in StatusesAt(worker[w].at) /\ DoubtOf(job)
         /\ InOrder(job, worker[w].at, worker[w].page)
         /\ TrueOf(job.pages)
BY DEF IInv, CopyIsCurrent, StepFitsStatus, DoubtIsRecorded, PagesAreTrue

-----------------------------------------------------------------------------
LEMMA SavePlanningStep ==
  ASSUME IInv, NEW w \in Workers, SavePlanning(w) PROVE SoundStep
<1>. DEFINE rec == [worker[w].rec EXCEPT !.status = "PLANNING", !.due = TRUE]
<1>1. worker[w].at = "plan" /\ SaveClaimed(w, rec, "model") /\ UNCHANGED outside
  BY DEF SavePlanning
<1>2. rec \in Record /\ rec.status = "PLANNING" /\ rec.pages = worker[w].rec.pages
  BY CopyType DEF IInv, Record
<1>. HIDE DEF rec
<1>3. ASSUME Holds(w)
      PROVE  /\ worker[w].rec = job /\ job.status = "QUEUED" /\ TrueOf(job.pages)
             /\ \A p \in Pages : job.pages[p] = FreshPage
  BY <1>1, <1>3, Known DEF Acting, StatusesAt, DoubtOf
<1>. QED
  BY <1>1, <1>2, <1>3, SaveOnly DEF StatusesAt, DoubtOf, InOrder, Doomed

LEMMA ModelFailsStep ==
  ASSUME IInv, NEW w \in Workers, ModelFails(w) PROVE SoundStep
<1>. DEFINE rec == Failed(worker[w].rec)
<1>1. worker[w].at = "model" /\ SaveClaimed(w, rec, "release") /\ UNCHANGED outside
  BY DEF ModelFails
<1>2. rec \in Record /\ rec.status = "FAILED" /\ rec.pages = worker[w].rec.pages
  BY CopyType, RecordOps, RecordFields DEF IInv
<1>. HIDE DEF rec
<1>3. ASSUME Holds(w)
      PROVE  worker[w].rec = job /\ job.status = "PLANNING" /\ TrueOf(job.pages)
  BY <1>1, <1>3, Known DEF Acting, StatusesAt
<1>. QED
  BY <1>1, <1>2, <1>3, SaveOnly DEF DoubtOf, InOrder, DoomedRec

LEMMA ModelAnswersStep ==
  ASSUME IInv, NEW w \in Workers, ModelAnswers(w) PROVE SoundStep
<1>. DEFINE rec == [worker[w].rec EXCEPT !.status = "SUBMITTING_IMAGES", !.due = FALSE]
<1>1. worker[w].at = "model" /\ SaveClaimed(w, rec, "preflight") /\ UNCHANGED outside
  BY DEF ModelAnswers
<1>2. rec \in Record /\ rec.status = "SUBMITTING_IMAGES" /\ rec.pages = worker[w].rec.pages
  BY CopyType DEF IInv, Record
<1>. HIDE DEF rec
<1>3. ASSUME Holds(w)
      PROVE  /\ worker[w].rec = job /\ job.status = "PLANNING" /\ TrueOf(job.pages)
             /\ \A p \in Pages : job.pages[p] = FreshPage
  BY <1>1, <1>3, Known DEF Acting, StatusesAt, DoubtOf
<1>. QED
  BY <1>1, <1>2, <1>3, SaveOnly DEF StatusesAt, DoubtOf, InOrder, Doomed

LEMMA SavePreflightStep ==
  ASSUME IInv, NEW w \in Workers, SavePreflight(w) PROVE SoundStep
<1>. DEFINE rec == [worker[w].rec EXCEPT !.due = TRUE]
<1>1. worker[w].at = "preflight" /\ SaveClaimed(w, rec, "page") /\ UNCHANGED outside
  BY DEF SavePreflight
<1>2. rec \in Record /\ rec.status = worker[w].rec.status /\ rec.pages = worker[w].rec.pages
  BY CopyType DEF IInv, Record
<1>. HIDE DEF rec
<1>3. ASSUME Holds(w)
      PROVE  /\ worker[w].rec = job /\ job.status = "SUBMITTING_IMAGES" /\ TrueOf(job.pages)
             /\ \A p \in Pages : job.pages[p] = FreshPage
  BY <1>1, <1>3, Known DEF Acting, StatusesAt, InOrder
<1>4. FreshPage.sub = "NOT_SUBMITTED"
  BY DEF FreshPage
<1>5. Submitter(w)
  BY <1>1 DEF Submitter, Submitting
<1>6. ASSUME Holds(w) PROVE ~Doomed
  BY <1>3, <1>4, <1>6 DEF Doomed
<1>. QED
  BY <1>1, <1>2, <1>3, <1>4, <1>5, <1>6, SaveOnly DEF StatusesAt, DoubtOf, InOrder

\* What comes of a submission is saved for its page, and the next one is taken.
LEMMA PageSave ==
  ASSUME IInv, NEW w \in Workers, worker[w].at \in {"call", "await"}, NEW page \in Page,
         SaveClaimed(w, WithPage(w, page), "page"), UNCHANGED <<sent, store>>,
         gateway' = gateway \/ (\E p \in Pages : gateway[p] = "flying" /\ gateway' = [gateway EXCEPT ![p] = "none"]),
         Holds(w) => /\ page.sub = "NOT_SUBMITTED" => gateway'[worker[w].page] \in {"none", "refused"}
                     /\ page.sub = "UNKNOWN" => page.err
  PROVE  SoundStep
<1>. DEFINE n == worker[w].page
            rec == WithPage(w, page)
<1>1. n \in Pages /\ Submitter(w)
  BY DEF IInv, PagesInOrder, Submitter, Submitting
<1>2. /\ rec \in Record /\ rec.status = worker[w].rec.status /\ rec.pages[n] = page
      /\ \A p \in Pages \ {n} : rec.pages[p] = worker[w].rec.pages[p]
  BY <1>1, CopyType DEF IInv, Record, WithPage
<1>3. \A v \in Workers \ {w} : worker[v].at # "call"
  BY <1>1 DEF IInv, OneSubmitter, Submitter, Submitting
<1>. HIDE DEF rec
<1>. SUFFICES ASSUME Holds(w)
     PROVE  /\ rec.status = "SUBMITTING_IMAGES" /\ InOrder(rec, "page", n) /\ DoubtOf(rec)
            /\ \A p \in Pages : rec.pages[p].sub = "NOT_SUBMITTED" => gateway'[p] \in {"none", "refused"}
            /\ Doomed => DoomedRec(rec)
            /\ job.status = "SUBMITTING_IMAGES"
  BY <1>1, <1>2, <1>3, SaveTurn DEF StatusesAt, rec
<1>4. /\ worker[w].rec = job /\ job.status = "SUBMITTING_IMAGES" /\ TrueOf(job.pages)
      /\ \A p \in Pages : /\ p > n => job.pages[p] = FreshPage
                          /\ job.pages[p].sub = "UNKNOWN" => job.pages[p].err \/ p = n
  BY Known DEF Acting, StatusesAt, InOrder
<1>5. InOrder(rec, "page", n)
  <2>1. ~(n > n)
    BY <1>1 DEF Pages
  <2>. QED BY <1>1, <1>2, <1>4, <2>1 DEF InOrder
<1>6. DoubtOf(rec)
  BY <1>2, <1>4 DEF DoubtOf
<1>7. \A p \in Pages : rec.pages[p].sub = "NOT_SUBMITTED" => gateway'[p] \in {"none", "refused"}
  BY <1>1, <1>2, <1>4 DEF TrueOf, IInv, TypeOK
<1>8. Doomed => DoomedRec(rec)
  <2>1. Calling(w, n)
    BY DEF Calling
  <2>. QED BY <1>2, <1>4, <2>1 DEF Doomed, DoomedRec, NoUnknown
<1>. QED BY <1>2, <1>4, <1>5, <1>6, <1>7, <1>8

LEMMA AnsweredFields ==
  ASSUME NEW page \in Page, NEW task
  PROVE  /\ task = "refused" \/ Answered(page, task).sub \in {page.sub, "SUBMITTED"}
         /\ Answered(page, task).sub = "UNKNOWN" => Answered(page, task).err
         /\ task = "refused" => Answered(page, task).sub = "NOT_SUBMITTED"
<1>1. NotAccepted(page).sub = "NOT_SUBMITTED"
  BY DEF Page, NotAccepted
<1>2. CASE task \in {"pending", "done"}
  BY <1>2 DEF Answered, Page
<1>3. CASE task = "unknown"
  BY <1>3 DEF Answered, Page
<1>4. CASE task \notin {"pending", "done", "unknown"}
  BY <1>1, <1>4 DEF Answered, Page
<1>. QED BY <1>2, <1>3, <1>4

LEMMA AnswerSteps ==
  ASSUME IInv, NEW w \in Workers,
         ModelNotEligible(w) \/ SubmitAnswered(w) \/ SubmitUnanswered(w) \/ SubmitRejected(w)
  PROVE  SoundStep
<1>. DEFINE n == worker[w].page
<1>1. worker[w].at \in {"call", "await"} => ThePage(w) \in Page
  BY CopyType DEF IInv, PagesInOrder, ThePage
<1>2. ASSUME NEW page \in Page
      PROVE  /\ NotAccepted(page) \in Page /\ NotAccepted(page).sub = "NOT_SUBMITTED"
             /\ NotAccepted(page).err
  BY NotAcceptedFields
<1>3. worker[w].at \in {"call", "await"} /\ Holds(w) =>
        (ThePage(w).sub = "NOT_SUBMITTED" => gateway[n] \in {"none", "refused"})
  BY Known DEF Acting, ThePage, TrueOf, IInv, PagesInOrder
<1>7. CASE ModelNotEligible(w)
  <2>1. worker[w].at = "call" /\ SaveClaimed(w, WithPage(w, NotAccepted(ThePage(w))), "page")
        /\ UNCHANGED outside
    BY <1>7 DEF ModelNotEligible
  <2>2. gateway[n] = "none"
    BY <2>1 DEF IInv, PagesInOrder, SentFirst
  <2>. QED BY <1>1, <1>2, <2>1, <2>2, PageSave DEF outside
<1>4. CASE SubmitAnswered(w)
  <2>1. /\ worker[w].at = "await" /\ gateway[n] \notin {"none", "flying"}
        /\ SaveClaimed(w, WithPage(w, Answered(ThePage(w), gateway[n])), "page")
        /\ UNCHANGED outside
    BY <1>4 DEF SubmitAnswered
  <2>. DEFINE page == Answered(ThePage(w), gateway[n])
  <2>2. page \in Page
    BY <1>1, <2>1, PageOps
  <2>3. ASSUME Holds(w)
        PROVE  /\ page.sub = "NOT_SUBMITTED" => gateway[n] \in {"none", "refused"}
               /\ page.sub = "UNKNOWN" => page.err
    BY <1>1, <1>2, <1>3, <2>1, <2>3, AnsweredFields
  <2>. HIDE DEF page
  <2>. QED BY <2>1, <2>2, <2>3, PageSave DEF outside, page
<1>5. CASE SubmitUnanswered(w)
  <2>1. /\ worker[w].at = "await" /\ UNCHANGED outside
        /\ SaveClaimed(w, WithPage(w, [ThePage(w) EXCEPT !.err = TRUE]), "page")
    BY <1>5 DEF SubmitUnanswered
  <2>. DEFINE page == [ThePage(w) EXCEPT !.err = TRUE]
  <2>2. page \in Page /\ page.err /\ page.sub = ThePage(w).sub
    BY <1>1, <2>1 DEF Page
  <2>3. Holds(w) => (page.sub = "NOT_SUBMITTED" => gateway[n] \in {"none", "refused"})
    BY <1>3, <2>1, <2>2
  <2>. HIDE DEF page
  <2>. QED BY <2>1, <2>2, <2>3, PageSave DEF outside, page
<1>6. CASE SubmitRejected(w)
  <2>1. /\ worker[w].at = "await" /\ gateway[n] = "flying" /\ UNCHANGED <<store, sent>>
        /\ gateway' = [gateway EXCEPT ![n] = "none"]
        /\ SaveClaimed(w, WithPage(w, NotAccepted(ThePage(w))), "page")
    BY <1>6 DEF SubmitRejected
  <2>2. n \in Pages /\ gateway'[n] = "none"
    BY <2>1 DEF IInv, PagesInOrder, TypeOK
  <2>. QED BY <1>1, <1>2, <2>1, <2>2, PageSave
<1>. QED BY <1>4, <1>5, <1>6, <1>7

\* The next page is saved before it is taken: skipped, or about to be submitted.
LEMMA TakePage ==
  ASSUME IInv, NEW w \in Workers, worker[w].at = "page", NextPage(w) \in Pages,
         NEW page \in Page, NEW step \in {"page", "call"},
         page.sub = "NOT_SUBMITTED" => step = "page",
         page.sub = "UNKNOWN" => step = "call",
         UNCHANGED <<lease, outside, late, faults, restarts>>,
         ~Holds(w) => UNCHANGED job /\ Leave(w),
         Holds(w) =>
           /\ job' = [worker[w].rec EXCEPT !.pages[NextPage(w)] = page]
           /\ worker' = [worker EXCEPT ![w].rec = job', ![w].page = NextPage(w), ![w].at = step]
  PROVE  SoundStep
<1>. DEFINE n == NextPage(w)
<1>1. TypeOK /\ worker[w] \in WorkerState /\ n \in Pages /\ n > worker[w].page /\ sent[n] = 0
      /\ gateway[n] = "none" /\ Submitter(w) /\ worker[w].page \in Nat
  <2>1. TypeOK /\ worker[w] \in WorkerState /\ worker[w].page \in Nat /\ Submitter(w)
    BY CopyType DEF IInv, Submitter, Submitting
  <2>2. n > worker[w].page
    BY <2>1 DEF NextPage
  <2>. QED BY <2>1, <2>2 DEF IInv, PagesInOrder, SentFirst
<1>2. CASE ~Holds(w)
  <2>1. /\ Others(w) /\ worker' \in [Workers -> WorkerState] /\ worker'[w].at = "release"
        /\ faults' \in 0 .. MaxFaults /\ store' \subseteq (Pages \cup Deck)
        /\ UNCHANGED <<job, lease, sent, gateway, late, restarts>>
    <3>1. [Idle EXCEPT !.at = "release"] \in WorkerState /\ [Idle EXCEPT !.at = "release"].at = "release"
      BY IdleType DEF WorkerState, Steps
    <3>. QED BY <1>1, <1>2, <3>1 DEF Leave, TypeOK, Others, outside
  <2>. QED BY <2>1, Stops
<1>3. CASE Holds(w)
  <2>. DEFINE old == worker[w].rec
              rec == [worker[w].rec EXCEPT !.pages[n] = page]
              now == [[[worker[w] EXCEPT !.rec = rec] EXCEPT !.page = n] EXCEPT !.at = step]
  <2>1. /\ old = job /\ job.status = "SUBMITTING_IMAGES" /\ TrueOf(job.pages)
        /\ \A p \in Pages : /\ p > worker[w].page => job.pages[p] = FreshPage
                            /\ job.pages[p].sub = "UNKNOWN" => job.pages[p].err
    BY <1>3, Known DEF Acting, StatusesAt, InOrder
  <2>2. /\ rec \in Record /\ rec.status = "SUBMITTING_IMAGES" /\ rec.pages[n] = page
        /\ \A p \in Pages \ {n} : rec.pages[p] = job.pages[p]
    BY <1>1, <2>1 DEF WorkerState, Record
  <2>. HIDE DEF rec
  <2>3. step \in Steps /\ n \in 0 .. PageCount
    BY <1>1 DEF Steps, PlanningSteps, Pages
  <2>4. now \in WorkerState /\ now.rec = rec /\ now.page = n /\ now.at = step
    BY <1>1, <2>2, <2>3 DEF WorkerState
  <2>5. job' = rec /\ worker' = [worker EXCEPT ![w] = now]
    BY <1>1, <1>3 DEF rec, TypeOK, WorkerState
  <2>. HIDE DEF now
  <2>6. /\ Others(w) /\ worker' \in [Workers -> WorkerState]
        /\ worker'[w].rec = rec /\ worker'[w].page = n /\ worker'[w].at = step
    BY <1>1, <2>4, <2>5 DEF Others, TypeOK
  <2>7. InOrder(rec, step, n)
    <3>1. \A p \in Pages : p > n => p # n /\ p > worker[w].page
      BY <1>1 DEF Pages
    <3>. QED BY <2>1, <2>2, <3>1 DEF InOrder
  <2>8. TrueOf(job.pages)'
    <3>1. \A v \in Workers \ {w} : worker[v].at # "call"
      BY <1>1 DEF IInv, OneSubmitter, Submitter, Submitting
    <3>2. \A p \in Pages : Pledged(p)' => p = n /\ step = "call"
      BY <2>6, <3>1 DEF Pledged, Others
    <3>. QED BY <1>1, <2>1, <2>2, <2>5, <3>2 DEF TrueOf, outside, Page
  <2>9. Doomed => Doomed'
    <3>1. FreshPage.sub = "NOT_SUBMITTED"
      BY DEF FreshPage
    <3>2. ASSUME NEW p \in Pages, job.pages[p].sub = "UNKNOWN"
          PROVE  p # n /\ rec.pages[p].sub = "UNKNOWN"
      BY <1>1, <2>1, <2>2, <3>1, <3>2
    <3>3. \A v \in Workers, p \in Pages : Calling(v, p)' => p = n
      BY <1>3, <2>6 DEF Calling, Holds
    <3>. QED BY <2>1, <2>2, <2>5, <3>2, <3>3 DEF Doomed
  <2>10. DoubtOf(rec) /\ EndIsKept
    BY <2>1, <2>2 DEF DoubtOf, EndIsKept
  <2>11. worker'[w].page >= worker[w].page
    BY <1>1, <2>6 DEF Pages
  <2>. QED
    BY <1>1, <1>3, <2>1, <2>2, <2>5, <2>6, <2>7, <2>8, <2>9, <2>10, <2>11, Saves
       DEF outside, StatusesAt
<1>. QED BY <1>2, <1>3

LEMMA SkipPageStep ==
  ASSUME IInv, NEW w \in Workers, SkipPage(w) PROVE SoundStep
<1>. DEFINE n == NextPage(w)
            page == NotAccepted(worker[w].rec.pages[n])
            rec == [worker[w].rec EXCEPT !.pages[n] = page]
<1>1. worker[w].at = "page" /\ n \in Pages /\ UNCHANGED <<lease, outside, late, faults, restarts>>
  BY DEF SkipPage
<1>2. /\ worker[w] \in WorkerState /\ worker \in [Workers -> WorkerState]
      /\ worker[w].rec \in Record /\ worker[w].rec.pages \in [Pages -> Page]
  BY CopyType DEF IInv, TypeOK, Record
<1>3. page \in Page /\ page.sub = "NOT_SUBMITTED"
  <2>1. \A q \in Page : NotAccepted(q) \in Page /\ NotAccepted(q).sub = "NOT_SUBMITTED"
    BY NotAcceptedFields
  <2>. QED BY <1>1, <1>2, <2>1
<1>4. ~Holds(w) => UNCHANGED job /\ Leave(w)
  BY DEF SkipPage
<1>5. ASSUME Holds(w)
      PROVE  /\ job' = rec
             /\ worker' = [worker EXCEPT ![w].rec = job', ![w].page = n, ![w].at = "page"]
  <2>1. job' = rec /\ worker' = [worker EXCEPT ![w].rec = rec, ![w].page = n]
    BY <1>1, <1>5 DEF SkipPage, NextPage
  <2>. HIDE DEF rec
  <2>2. worker' = [worker EXCEPT ![w].rec = rec, ![w].page = n, ![w].at = "page"]
    BY <1>1, <1>2, <2>1 DEF WorkerState
  <2>. QED BY <2>1, <2>2
<1>. HIDE DEF page
<1>. QED BY <1>1, <1>3, <1>4, <1>5, TakePage

LEMMA MarkPageStep ==
  ASSUME IInv, NEW w \in Workers, MarkPage(w) PROVE SoundStep
<1>. DEFINE n == NextPage(w)
            page == [FreshPage EXCEPT !.sub = "UNKNOWN"]
<1>1. worker[w].at = "page" /\ n \in Pages /\ UNCHANGED <<lease, outside, late, faults, restarts>>
  BY DEF MarkPage
<1>2. page \in Page /\ page.sub = "UNKNOWN"
  BY DEF FreshPage, Page
<1>3. ~Holds(w) => UNCHANGED job /\ Leave(w)
  BY DEF MarkPage
<1>4. ASSUME Holds(w)
      PROVE  /\ job' = [worker[w].rec EXCEPT !.pages[n] = page]
             /\ worker' = [worker EXCEPT ![w].rec = job', ![w].page = n, ![w].at = "call"]
  BY <1>4 DEF MarkPage, NextPage
<1>. HIDE DEF page
<1>. QED BY <1>1, <1>2, <1>3, <1>4, TakePage

\* The request goes out, whether the claim still holds or not.
LEMMA SubmitStep ==
  ASSUME IInv, NEW w \in Workers, Submit(w) PROVE SoundStep
<1>. DEFINE n == worker[w].page
<1>. USE DEF IInv
<1>1. /\ worker[w].at = "call" /\ n \in Pages /\ sent[n] = 0 /\ gateway[n] = "none"
      /\ Submitter(w) /\ Pledged(n)
      /\ \A p \in Pages : p > n => sent[p] = 0
  BY DEF Submit, PagesInOrder, SentFirst, Submitter, Submitting, Pledged
<1>2. /\ sent' = [sent EXCEPT ![n] = 1] /\ gateway' = [gateway EXCEPT ![n] = "flying"]
      /\ UNCHANGED <<job, lease, store, late, faults, restarts>>
  BY <1>1 DEF Submit, TypeOK
<1>3. /\ Others(w) /\ worker' \in [Workers -> WorkerState]
      /\ worker'[w].at = "await" /\ worker'[w].rec = worker[w].rec /\ worker'[w].page = n
  <2>1. "await" \in Steps /\ worker[w] \in WorkerState
    BY DEF Steps, PlanningSteps, TypeOK
  <2>. QED BY <2>1 DEF Submit, Enter, TypeOK, WorkerState, Others
<1>4. TypeOK' /\ SubmittedOnce'
  BY <1>1, <1>2, <1>3 DEF TypeOK, SubmittedOnce
<1>5. /\ \A v \in Workers : Holds(v)' <=> Holds(v)
      /\ \A v \in Workers : Submitter(v)' <=> Submitter(v)
      /\ \A v \in Workers : Acting(v)' <=> Acting(v)
  BY <1>1, <1>2, <1>3 DEF Holds, Submitter, Submitting, Acting, Others
<1>6. OneSubmitter' /\ (\A v \in Workers : Submitter(v) => v = w)
  BY <1>1, <1>2, <1>5 DEF OneSubmitter
<1>7. PagesInOrder'
  <2>1. ASSUME NEW v \in Workers, v # w PROVE worker'[v] = worker[v] /\ worker[v].at \notin Submitting
    BY <1>3, <1>6, <2>1 DEF Others, Submitter
  <2>2. \A p \in Pages : p > n => sent'[p] = 0
    BY <1>1, <1>2 DEF Pages, TypeOK
  <2>. QED BY <1>1, <1>3, <2>1, <2>2 DEF PagesInOrder, Submitter, Submitting
<1>8. SentFirst'
  BY <1>1, <1>2 DEF SentFirst, TypeOK
<1>9. CopyIsCurrent'
  BY <1>1, <1>2, <1>3, <1>5 DEF CopyIsCurrent, Others
<1>10. StepFitsStatus'
  BY <1>1, <1>2, <1>3, <1>5 DEF StepFitsStatus, Others, StatusesAt
<1>11. PagesAreTrue'
  <2>1. \A p \in Pages : Pledged(p)' => Pledged(p)
    BY <1>3 DEF Pledged, Others
  <2>2. \A pages : TrueOf(pages) => \A p \in Pages : pages[p].sub = "NOT_SUBMITTED" =>
            gateway'[p] \in {"none", "refused"} /\ ~Pledged(p)'
    BY <1>1, <1>2, <2>1 DEF TrueOf, TypeOK
  <2>3. TrueOf(job.pages)'
    BY <1>2, <2>2 DEF PagesAreTrue, TrueOf
  <2>4. ASSUME NEW v \in Workers, Acting(v)', worker'[v].at \in {"progress", "expire"}
        PROVE  TrueOf(worker'[v].rec.pages) /\ worker'[v].rec.pages = worker[v].rec.pages
    BY <1>3, <1>5, <2>4 DEF PagesAreTrue, Others
  <2>. QED BY <2>2, <2>3, <2>4 DEF PagesAreTrue, TrueOf
<1>12. DoubtIsRecorded'
  BY <1>1, <1>2, <1>3, <1>5 DEF DoubtIsRecorded, InOrder, Others
<1>13. Doomed => Doomed'
  <2>1. \A v \in Workers, p \in Pages : Calling(v, p)' => Calling(v, p)
    BY <1>1, <1>3, <1>5 DEF Calling, Others
  <2>. QED BY <1>2, <2>1 DEF Doomed
<1>. QED
  BY <1>2, <1>4, <1>6, <1>7, <1>8, <1>9, <1>10, <1>11, <1>12, <1>13 DEF SoundStep, EndIsKept

LEMMA FinishSubmissionStep ==
  ASSUME IInv, NEW w \in Workers, FinishSubmission(w) PROVE SoundStep
<1>. DEFINE old == worker[w].rec
            rec == IF \E p \in Pages : old.pages[p].err
                   THEN IF Unresolved(old.pages) THEN StartDraining(old) ELSE Failed(old)
                   ELSE Generating(old)
<1>1. worker[w].at = "page" /\ SaveClaimed(w, rec, "release") /\ UNCHANGED outside
  BY DEF FinishSubmission
<1>2. /\ old \in Record /\ rec \in Record /\ rec.pages = old.pages
      /\ rec.status \in {"GENERATING", "FAILED"}
      /\ rec.status = "GENERATING" => rec.pending \/ \A p \in Pages : ~old.pages[p].err
  BY CopyType, RecordOps, RecordFields DEF IInv
<1>. HIDE DEF rec
<1>3. ASSUME Holds(w)
      PROVE  /\ old = job /\ job.status = "SUBMITTING_IMAGES" /\ TrueOf(job.pages)
             /\ \A p \in Pages : job.pages[p].sub = "UNKNOWN" => job.pages[p].err
  BY <1>1, <1>3, Known DEF Acting, StatusesAt, InOrder
<1>4. ASSUME Holds(w) PROVE DoubtOf(rec) /\ (Doomed => DoomedRec(rec))
  BY <1>2, <1>3, <1>4 DEF DoubtOf, Doomed, DoomedRec, NoUnknown
<1>. QED
  BY <1>1, <1>2, <1>3, <1>4, SaveOnly DEF InOrder

-----------------------------------------------------------------------------
\* What a recovery makes of a record: no doubt about a submission is forgotten.
SameSubmissions(rec, old) == \A p \in Pages : rec.pages[p].sub = old.pages[p].sub

LEMMA SkippedFields ==
  ASSUME NEW rec \in Record
  PROVE  LET pages == [p \in Pages |-> Skipped(rec.pages[p])]
             next == [rec EXCEPT !.pages = pages]
         IN /\ next \in Record /\ next.status = rec.status /\ next.pending = rec.pending
            /\ next.pages = pages /\ SameSubmissions(next, rec)
            /\ AllSubmitted(pages) => NoUnknown(pages)
            /\ ~FailureIn(pages) => NoUnknown(pages)
<1>. DEFINE pages == [p \in Pages |-> Skipped(rec.pages[p])]
            next == [rec EXCEPT !.pages = pages]
<1>1. pages \in [Pages -> Page] /\ rec.pages \in [Pages -> Page]
  BY PageOps DEF Record
<1>2. \A q \in Page : Skipped(q).sub = q.sub
  BY DEF Skipped, Page
<1>3. \A p \in Pages : pages[p].sub = rec.pages[p].sub
  BY <1>1, <1>2
<1>4. (AllSubmitted(pages) => NoUnknown(pages)) /\ (~FailureIn(pages) => NoUnknown(pages))
  BY DEF AllSubmitted, FailureIn, NoUnknown
<1>. HIDE DEF pages
<1>5. next \in Record /\ next.status = rec.status /\ next.pending = rec.pending /\ next.pages = pages
  BY <1>1 DEF Record
<1>6. SameSubmissions(next, rec)
  BY <1>3, <1>5 DEF SameSubmissions
<1>. QED BY <1>4, <1>5, <1>6 DEF pages

Recovers(rec, old) ==
  /\ rec \in Record /\ rec.status \in {"GENERATING", "FAILED"} /\ SameSubmissions(rec, old)
  /\ rec.status = "GENERATING" => rec.pending \/ NoUnknown(rec.pages)

LEMMA RecoveredSubmissionFields ==
  ASSUME NEW rec \in Record
  PROVE  LET new == RecoveredSubmission(rec) IN
         Recovers(new, rec) /\ (rec.pending \/ ~NoUnknown(rec.pages) => DoomedRec(new))
<1>. DEFINE pages == [p \in Pages |-> Skipped(rec.pages[p])]
            next == [rec EXCEPT !.pages = pages]
            new == RecoveredSubmission(rec)
            whole == [Generating(next) EXCEPT !.pending = FALSE, !.drain = FALSE]
<1>1. /\ next \in Record /\ next.pending = rec.pending /\ next.pages = pages
      /\ SameSubmissions(next, rec)
      /\ ~FailureIn(pages) => NoUnknown(pages)
  BY SkippedFields
<1>2. \/ ~ReconciledFailure(rec, pages) /\ AllSubmitted(pages) /\ new = whole
      \/ new = Failed(next) \/ new = StartDraining(next)
  BY DEF RecoveredSubmission
<1>. HIDE DEF pages, next
<1>3. Generating(next) \in Record /\ Generating(next).pages = pages
      /\ Generating(next).status = "GENERATING"
  BY <1>1, RecordOps, RecordFields
<1>4. /\ whole.pages = pages /\ whole.status = "GENERATING" /\ whole \in Record
  BY <1>3 DEF Record
<1>5. new \in Record
  BY RecordOps
<1>6. CASE ~ReconciledFailure(rec, pages) /\ AllSubmitted(pages) /\ new = whole
  <2>1. ~rec.pending /\ NoUnknown(pages)
    BY <1>1, <1>6 DEF ReconciledFailure
  <2>2. NoUnknown(rec.pages)
    BY <1>1, <2>1 DEF NoUnknown, SameSubmissions
  <2>. QED BY <1>1, <1>4, <1>5, <1>6, <2>1, <2>2 DEF Recovers, SameSubmissions, NoUnknown
<1>7. CASE new \in {Failed(next), StartDraining(next)}
  <2>1. /\ new.pages = next.pages /\ new.status \in {"GENERATING", "FAILED"}
        /\ new.status = "GENERATING" => new.pending
    BY <1>1, <1>7, RecordFields
  <2>. QED BY <1>1, <1>5, <2>1 DEF Recovers, DoomedRec, SameSubmissions
<1>. QED BY <1>2, <1>6, <1>7

LEMMA ResumedFields ==
  ASSUME NEW rec \in Record, rec.status \in {"SUBMITTING_IMAGES", "GENERATING"}, DoubtOf(rec)
  PROVE  LET new == Resumed(rec) IN Recovers(new, rec) /\ (DoomedRec(rec) => DoomedRec(new))
<1>. DEFINE pages == [p \in Pages |-> Skipped(rec.pages[p])]
            next == [rec EXCEPT !.pages = pages]
            new == Resumed(rec)
            whole == [Generating(next) EXCEPT !.drain = FALSE]
            failed == [Failed(next) EXCEPT !.pending = FALSE]
            due == [next EXCEPT !.due = TRUE]
<1>1. /\ next \in Record /\ next.pending = rec.pending /\ next.pages = pages
      /\ next.status = rec.status /\ SameSubmissions(next, rec)
      /\ AllSubmitted(pages) => NoUnknown(pages)
  BY SkippedFields
<1>2. \/ rec.status = "SUBMITTING_IMAGES" /\ ~rec.pending /\ AllSubmitted(pages) /\ new = whole
      \/ new = failed
      \/ rec.status = "GENERATING" /\ ~rec.pending /\ new = due
      \/ new = StartDraining(next)
  BY DEF Resumed
<1>. HIDE DEF pages, next
<1>3. /\ Generating(next) \in Record /\ Generating(next).pages = pages
      /\ Generating(next).status = "GENERATING"
      /\ Failed(next) \in Record /\ Failed(next).pages = pages /\ Failed(next).status = "FAILED"
      /\ StartDraining(next) \in Record /\ StartDraining(next).pages = pages
      /\ StartDraining(next).status = "GENERATING" /\ StartDraining(next).pending
  BY <1>1, RecordOps, RecordFields
<1>4. /\ whole.pages = pages /\ whole.status = "GENERATING" /\ whole \in Record
      /\ failed.pages = pages /\ failed.status = "FAILED" /\ failed \in Record
      /\ due.pages = pages /\ due.status = rec.status /\ due \in Record
  BY <1>1, <1>3 DEF Record
<1>5. \A r : r.pages = pages => SameSubmissions(r, rec)
  BY <1>1 DEF SameSubmissions
<1>. HIDE DEF whole, failed, due
<1>6. CASE rec.status = "SUBMITTING_IMAGES" /\ ~rec.pending /\ AllSubmitted(pages) /\ new = whole
  <2>1. NoUnknown(rec.pages)
    BY <1>1, <1>6 DEF NoUnknown, SameSubmissions
  <2>. QED BY <1>1, <1>4, <1>5, <1>6, <2>1 DEF Recovers, DoomedRec
<1>7. CASE new = failed
  BY <1>4, <1>5, <1>7 DEF Recovers, DoomedRec
<1>8. CASE rec.status = "GENERATING" /\ ~rec.pending /\ new = due
  <2>1. NoUnknown(pages)
    BY <1>1, <1>8 DEF DoubtOf, NoUnknown, SameSubmissions
  <2>. QED BY <1>4, <1>5, <1>8, <2>1 DEF Recovers, DoomedRec
<1>9. CASE new = StartDraining(next)
  BY <1>3, <1>5, <1>9 DEF Recovers, DoomedRec
<1>. QED BY <1>2, <1>6, <1>7, <1>8, <1>9 DEF whole, failed, due

-----------------------------------------------------------------------------
LEMMA FailInterruptedStep ==
  ASSUME IInv, NEW w \in Workers, FailInterrupted(w) PROVE SoundStep
<1>. DEFINE rec == Failed(worker[w].rec)
<1>1. worker[w].at = "interrupted" /\ SaveClaimed(w, rec, "release") /\ UNCHANGED outside
  BY DEF FailInterrupted
<1>2. rec \in Record /\ rec.status = "FAILED" /\ rec.pages = worker[w].rec.pages
  BY CopyType, RecordOps, RecordFields DEF IInv
<1>. HIDE DEF rec
<1>3. ASSUME Holds(w)
      PROVE  worker[w].rec = job /\ job.status = "PLANNING" /\ TrueOf(job.pages)
  BY <1>1, <1>3, Known DEF Acting, StatusesAt
<1>. QED
  BY <1>1, <1>2, <1>3, SaveOnly DEF DoubtOf, InOrder, DoomedRec

LEMMA RecoverSubmissionStep ==
  ASSUME IInv, NEW w \in Workers, RecoverSubmission(w) PROVE SoundStep
<1>. DEFINE rec == RecoveredSubmission(worker[w].rec)
<1>1. worker[w].at = "recover" /\ SaveClaimed(w, rec, "release") /\ UNCHANGED outside
  BY DEF RecoverSubmission
<1>2. /\ Recovers(rec, worker[w].rec)
      /\ worker[w].rec.pending \/ ~NoUnknown(worker[w].rec.pages) => DoomedRec(rec)
  BY CopyType, RecoveredSubmissionFields DEF IInv
<1>. HIDE DEF rec
<1>3. ASSUME Holds(w)
      PROVE  worker[w].rec = job /\ job.status = "SUBMITTING_IMAGES" /\ TrueOf(job.pages)
  BY <1>1, <1>3, Known DEF Acting, StatusesAt
<1>4. ASSUME Holds(w) PROVE TrueOf(rec.pages) /\ (Doomed => DoomedRec(rec))
  BY <1>2, <1>3, <1>4 DEF Recovers, SameSubmissions, TrueOf, Doomed, NoUnknown
<1>. QED
  BY <1>1, <1>2, <1>3, <1>4, SaveOnly DEF Recovers, DoubtOf, InOrder

\* A turn that just ends.
LEMMA LeaveStep ==
  ASSUME IInv, NEW w \in Workers, Leave(w), UNCHANGED <<job, lease, outside, late, restarts>>,
         faults' \in 0 .. MaxFaults
  PROVE  SoundStep
<1>1. [Idle EXCEPT !.at = "release"] \in WorkerState /\ [Idle EXCEPT !.at = "release"].at = "release"
  BY IdleType DEF WorkerState, Steps
<1>2. Others(w) /\ worker' \in [Workers -> WorkerState] /\ worker'[w].at = "release"
  BY <1>1 DEF IInv, Leave, TypeOK, Others
<1>3. store' \subseteq (Pages \cup Deck)
  BY DEF IInv, TypeOK, outside
<1>. QED BY <1>2, <1>3, Stops DEF outside

LEMMA BrokenStep ==
  ASSUME IInv, NEW w \in Workers, Broken(w) PROVE SoundStep
<1>1. worker[w].at = "broken" /\ UNCHANGED outside /\ job \in Record /\ TrueOf(job.pages)
  BY CopyType DEF Broken, IInv, PagesAreTrue
<1>2. CASE job.status = "SUBMITTING_IMAGES"
  <2>. DEFINE rec == RecoveredSubmission(job)
  <2>1. SaveClaimed(w, rec, "release")
    BY <1>2 DEF Broken
  <2>2. Recovers(rec, job) /\ (job.pending \/ ~NoUnknown(job.pages) => DoomedRec(rec))
    BY <1>1, RecoveredSubmissionFields
  <2>. HIDE DEF rec
  <2>3. TrueOf(rec.pages) /\ (Doomed => DoomedRec(rec))
    BY <1>1, <1>2, <2>2 DEF Recovers, SameSubmissions, TrueOf, Doomed, NoUnknown
  <2>. QED BY <1>1, <1>2, <2>1, <2>2, <2>3, SaveOnly DEF Recovers, DoubtOf, InOrder
<1>3. CASE job.status # "SUBMITTING_IMAGES" /\ job.status \in Active
  <2>. DEFINE rec == Failed(job)
  <2>1. SaveClaimed(w, rec, "release")
    BY <1>3 DEF Broken
  <2>2. rec \in Record /\ rec.status = "FAILED" /\ rec.pages = job.pages
    BY <1>1, RecordOps, RecordFields
  <2>. HIDE DEF rec
  <2>. QED BY <1>1, <1>3, <2>1, <2>2, SaveOnly DEF DoubtOf, InOrder, DoomedRec, Active
<1>4. CASE job.status \notin Active
  <2>1. Leave(w) /\ UNCHANGED <<job, lease, late, faults, restarts>>
    BY <1>4 DEF Broken, Active
  <2>. QED BY <1>1, <2>1, LeaveStep DEF IInv, TypeOK
<1>. QED BY <1>2, <1>3, <1>4

LEMMA SaveThrowsStep ==
  ASSUME IInv, NEW w \in Workers, SaveThrows(w) PROVE SoundStep
<1>1. faults' \in 0 .. MaxFaults /\ UNCHANGED <<job, lease, outside, late, restarts>>
  BY QuickDeckAssumption DEF SaveThrows, IInv, TypeOK
<1>2. CASE Leave(w)
  BY <1>1, <1>2, LeaveStep
<1>3. CASE worker' = [worker EXCEPT ![w] = [Idle EXCEPT !.at = "broken"]]
  <2>1. [Idle EXCEPT !.at = "broken"] \in WorkerState /\ [Idle EXCEPT !.at = "broken"].at = "broken"
    BY IdleType DEF WorkerState, Steps
  <2>2. Others(w) /\ worker' \in [Workers -> WorkerState] /\ worker'[w].at = "broken"
    BY <1>3, <2>1 DEF IInv, TypeOK, Others
  <2>3. store' \subseteq (Pages \cup Deck)
    BY <1>1 DEF IInv, TypeOK, outside
  <2>. QED BY <1>1, <2>2, <2>3, Stops DEF outside
<1>. QED BY <1>2, <1>3 DEF SaveThrows

-----------------------------------------------------------------------------
\* At the end of a poll: the copy has the status of the record, and says the truth.
LEMMA Polled ==
  ASSUME IInv, NEW w \in Workers, worker[w].at = "progress", Holds(w)
  PROVE  /\ worker[w].rec.status = job.status /\ worker[w].rec.pending = job.pending
         /\ job.status \in {"GENERATING", "PACKAGING"}
         /\ TrueOf(worker[w].rec.pages) /\ (Doomed => worker[w].rec.pending)
<1>1. Acting(w)
  BY DEF Acting
<1>2. /\ worker[w].rec.status = job.status /\ worker[w].rec.pending = job.pending
      /\ job.status \in {"GENERATING", "PACKAGING"}
  BY <1>1 DEF IInv, CopyIsCurrent, StepFitsStatus, StatusesAt
<1>. QED BY <1>1, <1>2 DEF IInv, PagesAreTrue, Doomed

LEMMA KeepPollingStep ==
  ASSUME IInv, NEW w \in Workers, KeepPolling(w) PROVE SoundStep
<1>. DEFINE old == worker[w].rec
            due == [old EXCEPT !.due = TRUE]
            rec == IF ReconciledFailure(old, old.pages) THEN StartDraining(old) ELSE due
<1>1. worker[w].at = "progress" /\ SaveClaimed(w, rec, "release") /\ UNCHANGED outside
  BY DEF KeepPolling
<1>2. /\ old \in Record /\ StartDraining(old) \in Record
      /\ StartDraining(old).pages = old.pages /\ StartDraining(old).status = "GENERATING"
      /\ StartDraining(old).pending
  BY CopyType, RecordOps, RecordFields DEF IInv
<1>5. /\ due \in Record
      /\ due.status = old.status /\ due.pages = old.pages /\ due.pending = old.pending
  BY <1>2 DEF Record
<1>. HIDE DEF due
<1>3. /\ rec \in Record /\ rec.pages = old.pages
      /\ \/ rec.status = "GENERATING" /\ rec.pending
         \/ /\ rec.status = old.status /\ rec.pending = old.pending
            /\ ~old.pending /\ NoUnknown(old.pages)
  BY <1>2, <1>5 DEF ReconciledFailure, FailureIn, NoUnknown
<1>. HIDE DEF rec
<1>4. ASSUME Holds(w)
      PROVE  /\ old.status = job.status /\ job.status \in {"GENERATING", "PACKAGING"}
             /\ TrueOf(old.pages) /\ (Doomed => old.pending)
  BY <1>1, <1>4, Polled
<1>. QED
  BY <1>1, <1>3, <1>4, SaveOnly DEF DoubtOf, InOrder, DoomedRec

LEMMA PollEndSteps ==
  ASSUME IInv, NEW w \in Workers, DrainTimesOut(w) \/ FailResolved(w) PROVE SoundStep
<1>. DEFINE old == worker[w].rec
            timed == [old EXCEPT !.pages = TimedOut(@)]
<1>1. PICK rec \in {Failed(timed), Failed(old)} :
        worker[w].at = "progress" /\ SaveClaimed(w, rec, "release") /\ UNCHANGED outside
  BY DEF DrainTimesOut, FailResolved
<1>2. old \in Record /\ timed \in Record /\ SameSubmissions(timed, old)
  <2>1. old \in Record /\ old.pages \in [Pages -> Page]
    BY CopyType DEF IInv, Record
  <2>2. TimedOut(old.pages) \in [Pages -> Page]
    BY <2>1 DEF TimedOut, Page
  <2>3. \A p \in Pages : TimedOut(old.pages)[p].sub = old.pages[p].sub
    BY <2>1 DEF TimedOut, Page
  <2>4. timed \in Record /\ timed.pages = TimedOut(old.pages)
    BY <2>1, <2>2 DEF Record
  <2>. QED BY <2>1, <2>3, <2>4 DEF SameSubmissions
<1>. HIDE DEF timed
<1>3. ASSUME NEW r \in Record, SameSubmissions(r, old)
      PROVE  Failed(r) \in Record /\ Failed(r).status = "FAILED" /\ SameSubmissions(Failed(r), old)
  <2>1. Failed(r) \in Record /\ Failed(r).status = "FAILED" /\ Failed(r).pages = r.pages
    BY RecordOps, RecordFields
  <2>. QED BY <1>3, <2>1 DEF SameSubmissions
<1>5. SameSubmissions(old, old)
  BY DEF SameSubmissions
<1>6. rec \in Record /\ rec.status = "FAILED" /\ SameSubmissions(rec, old)
  BY <1>1, <1>2, <1>3, <1>5
<1>4. ASSUME Holds(w)
      PROVE  job.status \in {"GENERATING", "PACKAGING"} /\ TrueOf(rec.pages)
  BY <1>1, <1>4, <1>6, Polled DEF SameSubmissions, TrueOf
<1>. QED
  BY <1>1, <1>4, <1>6, SaveOnly DEF DoubtOf, InOrder, DoomedRec

LEMMA StartPackagingStep ==
  ASSUME IInv, NEW w \in Workers, StartPackaging(w) PROVE SoundStep
<1>. DEFINE old == worker[w].rec
            rec == [old EXCEPT !.status = "PACKAGING", !.due = TRUE]
<1>1. /\ worker[w].at = "progress" /\ SaveClaimed(w, rec, "preview") /\ UNCHANGED outside
      /\ ~old.pending /\ NoUnknown(old.pages)
  BY DEF StartPackaging, ReconciledFailure, FailureIn, NoUnknown
<1>2. rec \in Record /\ rec.status = "PACKAGING" /\ rec.pages = old.pages /\ rec.pending = old.pending
  BY CopyType DEF IInv, Record
<1>. HIDE DEF rec
<1>3. ASSUME Holds(w)
      PROVE  /\ job.status \in {"GENERATING", "PACKAGING"} /\ TrueOf(old.pages)
             /\ Doomed => old.pending
  BY <1>1, <1>3, Polled
<1>. QED
  BY <1>1, <1>2, <1>3, SaveOnly DEF DoubtOf, InOrder, StatusesAt

LEMMA DeliverStep ==
  ASSUME IInv, NEW w \in Workers, Deliver(w) PROVE SoundStep
<1>. DEFINE old == worker[w].rec
            rec == [old EXCEPT !.status = "COMPLETED", !.due = FALSE, !.out = Deck]
<1>1. worker[w].at = "deliver" /\ SaveClaimed(w, rec, "release") /\ UNCHANGED outside
  BY DEF Deliver
<1>2. /\ rec \in Record /\ rec.status = "COMPLETED" /\ rec.pages = old.pages
      /\ rec.pending = old.pending
  BY CopyType DEF IInv, Record
<1>. HIDE DEF rec
<1>3. ASSUME Holds(w)
      PROVE  /\ old = job /\ job.status = "PACKAGING" /\ TrueOf(job.pages)
             /\ ~old.pending /\ NoUnknown(old.pages)
  BY <1>1, <1>3, Known DEF Acting, StatusesAt, DoubtOf
<1>. QED
  BY <1>1, <1>2, <1>3, SaveOnly DEF DoubtOf, InOrder, Doomed

LEMMA PackagingFailsStep ==
  ASSUME IInv, NEW w \in Workers, PackagingFails(w) PROVE SoundStep
<1>. DEFINE rec == Failed(worker[w].rec)
<1>1. /\ worker[w].at \in {"preview", "pptx"} /\ SaveClaimed(w, rec, "release")
      /\ UNCHANGED outside
  BY DEF PackagingFails
<1>2. rec \in Record /\ rec.status = "FAILED" /\ rec.pages = worker[w].rec.pages
  BY CopyType, RecordOps, RecordFields DEF IInv
<1>. HIDE DEF rec
<1>3. ASSUME Holds(w)
      PROVE  worker[w].rec = job /\ job.status = "PACKAGING" /\ TrueOf(job.pages)
  BY <1>1, <1>3, Known DEF Acting, StatusesAt
<1>. QED
  BY <1>1, <1>2, <1>3, SaveOnly DEF DoubtOf, InOrder, DoomedRec


-----------------------------------------------------------------------------
\* What a lookup or a poll says of a page is written off only if the gateway refused it.
LEMMA HeardFields ==
  ASSUME NEW page \in Page, NEW task, task # "refused"
  PROVE  /\ LookedUp(page, task).sub = "NOT_SUBMITTED" => page.sub = "NOT_SUBMITTED"
         /\ Inspected(page, task).sub = "NOT_SUBMITTED" => page.sub = "NOT_SUBMITTED"
         /\ task \in {"done", "failed"} =>
              (Settled(page, task).sub = "NOT_SUBMITTED" => page.sub = "NOT_SUBMITTED")
<1>1. FailedInspection(page).sub = "SUBMITTED"
  BY DEF FailedInspection, Page
<1>2. LookedUp(page, task).sub = "NOT_SUBMITTED" => page.sub = "NOT_SUBMITTED"
  BY DEF LookedUp, Page
<1>3. Inspected(page, task).sub = "NOT_SUBMITTED" => page.sub = "NOT_SUBMITTED"
  <2>1. CASE task = "done"
    BY <2>1 DEF Inspected, Page
  <2>2. CASE task = "failed"
    BY <1>1, <2>2 DEF Inspected
  <2>3. CASE task = "unknown"
    BY <2>3 DEF Inspected, Page
  <2>4. CASE task \notin {"done", "failed", "unknown"}
    BY <2>4 DEF Inspected
  <2>. QED BY <2>1, <2>2, <2>3, <2>4
<1>4. task \in {"done", "failed"} =>
        (Settled(page, task).sub = "NOT_SUBMITTED" => page.sub = "NOT_SUBMITTED")
  BY <1>1 DEF Settled, Page
<1>. QED BY <1>2, <1>3, <1>4

\* Pages learnt anew stay true: a page about to be submitted is not refused.
LEMMA Learnt ==
  ASSUME IInv, NEW old, TrueOf(old), NEW new,
         \A p \in Pages : new[p].sub = "NOT_SUBMITTED" => gateway[p] = "refused" \/ old[p].sub = "NOT_SUBMITTED"
  PROVE  TrueOf(new)
<1>1. \A p \in Pages : Pledged(p) => gateway[p] = "none"
  BY DEF IInv, Pledged, PagesInOrder, SentFirst
<1>. QED BY <1>1 DEF TrueOf

LEMMA InspectStep ==
  ASSUME IInv, NEW w \in Workers, Inspect(w) PROVE SoundStep
<1>. DEFINE old == worker[w].rec.pages
<1>0. /\ TypeOK /\ worker[w] \in WorkerState /\ worker[w].rec \in Record /\ old \in [Pages -> Page]
  BY CopyType DEF IInv, Record
<1>1. PICK heard \in SUBSET Pages, seen \in SUBSET Pages :
       LET known == [p \in Pages |-> IF p \in heard /\ NeedsLookup(old[p])
                                     THEN LookedUp(old[p], gateway[p]) ELSE old[p]]
           polled == {p \in seen : Pollable(known[p])}
           new == [p \in Pages |-> IF p \in polled THEN Inspected(known[p], gateway[p]) ELSE known[p]]
           stored == {p \in polled : gateway[p] = "done"}
       IN /\ store' = store \cup stored
          /\ \/ /\ worker' = [worker EXCEPT ![w].at = "progress", ![w].rec.pages = new]
                /\ UNCHANGED faults
             \/ /\ stored # {} /\ faults < MaxFaults
                /\ faults' = faults + 1
                /\ Enter(w, "broken")
  BY DEF Inspect
<1>. DEFINE known == [p \in Pages |-> IF p \in heard /\ NeedsLookup(old[p])
                                      THEN LookedUp(old[p], gateway[p]) ELSE old[p]]
            polled == {p \in seen : Pollable(known[p])}
            new == [p \in Pages |-> IF p \in polled THEN Inspected(known[p], gateway[p]) ELSE known[p]]
            stored == {p \in polled : gateway[p] = "done"}
<1>2. worker[w].at = "inspect" /\ UNCHANGED <<job, lease, gateway, sent, late, restarts>>
  BY DEF Inspect
<1>3. known \in [Pages -> Page]
  BY <1>0, PageOps
<1>4. new \in [Pages -> Page]
  <2>. HIDE DEF known, polled
  <2>. QED BY <1>3, PageOps
<1>5. \A p \in Pages : new[p].sub = "NOT_SUBMITTED" => gateway[p] = "refused" \/ old[p].sub = "NOT_SUBMITTED"
  <2>1. \A p \in Pages : known[p].sub = "NOT_SUBMITTED" => gateway[p] = "refused" \/ old[p].sub = "NOT_SUBMITTED"
    BY <1>0, HeardFields
  <2>. HIDE DEF known, polled
  <2>. QED BY <1>3, <2>1, HeardFields
<1>6. store' \subseteq (Pages \cup Deck) /\ faults' \in 0 .. MaxFaults
  <2>1. stored \subseteq Pages
    OBVIOUS
  <2>2. store' = store \cup stored /\ (faults' = faults \/ (faults < MaxFaults /\ faults' = faults + 1))
    BY <1>1
  <2>. HIDE DEF stored, new
  <2>. QED BY <1>0, <2>1, <2>2, QuickDeckAssumption DEF TypeOK
<1>. HIDE DEF new, stored
<1>7. CASE worker' = [worker EXCEPT ![w].at = "progress", ![w].rec.pages = new]
  <2>. DEFINE rec == [worker[w].rec EXCEPT !.pages = new]
              now == [[worker[w] EXCEPT !.at = "progress"] EXCEPT !.rec = rec]
  <2>1. rec \in Record /\ rec.status = worker[w].rec.status /\ rec.pages = new
        /\ rec.pending = worker[w].rec.pending
    BY <1>0, <1>4 DEF Record
  <2>2. worker' = [worker EXCEPT ![w] = now]
    BY <1>0, <1>7 DEF TypeOK, WorkerState
  <2>. HIDE DEF rec
  <2>3. "progress" \in Steps
    BY DEF Steps, PollingSteps
  <2>4. now \in WorkerState /\ now.at = "progress" /\ now.rec = rec
    BY <1>0, <2>1, <2>3 DEF WorkerState
  <2>. HIDE DEF now
  <2>5. /\ Others(w) /\ worker' \in [Workers -> WorkerState]
        /\ worker'[w].at = "progress" /\ worker'[w].rec = rec
    BY <1>0, <2>2, <2>4 DEF TypeOK, Others
  <2>6. ASSUME Acting(w)
        PROVE  /\ rec.status = job.status /\ rec.pending = job.pending /\ TrueOf(rec.pages)
    <3>1. worker[w].rec = job /\ TrueOf(old)
      BY <1>2, <2>6, Known
    <3>. QED BY <1>5, <2>1, <3>1, Learnt
  <2>7. StatusesAt("inspect") \subseteq StatusesAt("progress")
    BY DEF StatusesAt
  <2>. QED BY <1>2, <1>6, <2>5, <2>6, <2>7, Thinks
<1>8. CASE Enter(w, "broken")
  <2>1. "broken" \in Steps
    BY DEF Steps
  <2>2. Others(w) /\ worker' \in [Workers -> WorkerState] /\ worker'[w].at = "broken"
    BY <1>0, <1>8, <2>1 DEF Enter, TypeOK, WorkerState, Others
  <2>. QED BY <1>2, <1>6, <2>2, Stops
<1>. QED BY <1>1, <1>7, <1>8 DEF new, stored

-----------------------------------------------------------------------------
LEMMA PutSteps ==
  ASSUME IInv, NEW w \in Workers, PutPreview(w) \/ PutPptx(w) PROVE SoundStep
<1>1. PICK at \in {"pptx", "deliver"} :
        /\ worker[w].at \in {"preview", "pptx"} /\ Enter(w, at)
        /\ UNCHANGED <<job, lease, gateway, sent, late, faults, restarts>>
        /\ store' \subseteq store \cup Deck
  BY DEF PutPreview, PutPptx, Deck
<1>2. at \in Steps /\ TypeOK /\ worker[w] \in WorkerState
  BY CopyType DEF Steps, PollingSteps, IInv
<1>3. /\ Others(w) /\ worker' \in [Workers -> WorkerState]
      /\ worker'[w].at = at /\ worker'[w].rec = worker[w].rec
  BY <1>1, <1>2 DEF Enter, TypeOK, WorkerState, Others
<1>4. StatusesAt(worker[w].at) \subseteq StatusesAt(at)
  BY <1>1 DEF StatusesAt
<1>5. store' \subseteq (Pages \cup Deck) /\ faults' \in 0 .. MaxFaults
  BY <1>1, <1>2 DEF TypeOK
<1>. QED BY <1>1, <1>3, <1>4, <1>5, Thinks

\* What happens away from the workers: deletions, time, the gateway.
LEMMA Elsewhere ==
  ASSUME IInv, TypeOK', UNCHANGED <<job, worker, sent>>,
         \A w \in Workers : Holds(w)' => Holds(w),
         \A p \in Pages : gateway[p] \in {"none", "refused"} => gateway'[p] = gateway[p]
  PROVE  SoundStep
<1>. USE DEF IInv
<1>1. /\ \A v \in Workers : Submitter(v)' <=> Submitter(v)
      /\ \A v \in Workers : Acting(v)' => Acting(v)
      /\ \A p \in Pages : Pledged(p)' <=> Pledged(p)
      /\ \A v \in Workers, p \in Pages : Calling(v, p)' => Calling(v, p)
  BY DEF Submitter, Acting, Pledged, Calling
<1>2. SubmittedOnce' /\ OneSubmitter' /\ PagesInOrder' /\ SentFirst'
  BY <1>1 DEF SubmittedOnce, OneSubmitter, PagesInOrder, SentFirst
<1>3. CopyIsCurrent' /\ StepFitsStatus' /\ DoubtIsRecorded'
  BY <1>1 DEF CopyIsCurrent, StepFitsStatus, DoubtIsRecorded
<1>4. PagesAreTrue'
  BY <1>1 DEF PagesAreTrue, TrueOf
<1>5. Doomed => Doomed'
  BY <1>1 DEF Doomed
<1>. QED BY <1>2, <1>3, <1>4, <1>5 DEF SoundStep, EndIsKept

LEMMA ElsewhereSteps ==
  ASSUME IInv, \/ \E w \in Workers : Remove(w)
               \/ \E p \in Pages : GatewayStep(p)
               \/ ClaimRunsOut \/ Expires \/ DrainPasses \/ CleanupPasses
  PROVE  SoundStep
<1>0. TypeOK
  BY DEF IInv
<1>1. CASE \E w \in Workers : Remove(w)
  <2>1. UNCHANGED <<job, lease, worker, gateway, sent, late, faults, restarts>> /\ store' \subseteq store
    BY <1>1 DEF Remove
  <2>2. TypeOK'
    BY <1>0, <2>1 DEF TypeOK
  <2>. QED BY <2>1, <2>2, Elsewhere DEF Holds
<1>2. CASE \E p \in Pages : GatewayStep(p)
  <2>1. /\ UNCHANGED <<job, lease, worker, store, sent, late, faults, restarts>>
        /\ gateway' \in [Pages -> {"none", "flying", "pending", "unknown", "refused", "done", "failed"}]
        /\ \A p \in Pages : gateway[p] \in {"none", "refused"} => gateway'[p] = gateway[p]
    BY <1>0, <1>2 DEF GatewayStep, TypeOK
  <2>2. TypeOK'
    BY <1>0, <2>1 DEF TypeOK
  <2>. QED BY <2>1, <2>2, Elsewhere DEF Holds
<1>3. CASE ClaimRunsOut
  <2>1. /\ UNCHANGED <<job, worker, outside, late, restarts>>
        /\ lease' = [lease EXCEPT !.live = FALSE] /\ faults' \in 0 .. MaxFaults
    BY <1>0, <1>3, QuickDeckAssumption DEF ClaimRunsOut, TypeOK
  <2>2. lease' \in [holder: Workers \cup {"none"}, live: BOOLEAN] /\ ~lease'.live
    BY <1>0, <2>1 DEF TypeOK
  <2>3. TypeOK'
    BY <1>0, <2>1, <2>2 DEF TypeOK, outside
  <2>. QED BY <2>1, <2>2, <2>3, Elsewhere DEF Holds, outside
<1>4. CASE Expires \/ DrainPasses \/ CleanupPasses
  <2>1. /\ UNCHANGED <<job, lease, worker, outside, faults, restarts>>
        /\ late' \subseteq {"expiry", "drain", "cleanup"}
    BY <1>0, <1>4 DEF Expires, DrainPasses, CleanupPasses, TypeOK
  <2>2. TypeOK'
    BY <1>0, <2>1 DEF TypeOK, outside
  <2>. QED BY <2>1, <2>2, Elsewhere DEF Holds, outside
<1>. QED BY <1>1, <1>2, <1>3, <1>4

LEMMA ReleaseStep ==
  ASSUME IInv, NEW w \in Workers, ReleaseClaim(w) PROVE SoundStep
<1>1. /\ Others(w) /\ worker' \in [Workers -> WorkerState]
      /\ worker'[w].at = "idle" /\ worker'[w].page = 0
  BY IdleType DEF ReleaseClaim, IInv, TypeOK, Others, Idle
<1>2. /\ lease' = lease \/ lease' = [holder |-> "none", live |-> FALSE]
      /\ UNCHANGED <<job, outside, late, faults, restarts>>
  BY DEF ReleaseClaim
<1>3. store' \subseteq (Pages \cup Deck) /\ faults' \in 0 .. MaxFaults
  BY <1>2 DEF IInv, TypeOK, outside
<1>. QED BY <1>1, <1>2, <1>3, Stops DEF outside

\* A worker takes the claim, and with it the record as it stands.
LEMMA Claims ==
  ASSUME IInv, NEW w \in Workers, worker[w].at = "idle", Others(w),
         worker' \in [Workers -> WorkerState], lease' = [holder |-> w, live |-> TRUE],
         UNCHANGED <<job, outside, late, faults, restarts>>,
         worker'[w].rec = job, worker'[w].page = worker[w].page,
         worker'[w].at \in {"plan", "interrupted", "recover", "inspect", "survey"},
         job.status \in StatusesAt(worker'[w].at)
  PROVE  SoundStep
<1>. USE DEF IInv, Others
<1>1. /\ \A v \in Workers : Holds(v)' <=> v = w
      /\ \A v \in Workers : Acting(v)' => v = w
      /\ \A v \in Workers : Submitter(v)' <=> Submitter(v)
      /\ \A p \in Pages : Pledged(p)' <=> Pledged(p)
      /\ \A v \in Workers, p \in Pages : ~Calling(v, p)'
  BY DEF Holds, Submitter, Submitting, Acting, Pledged, Calling
<1>2. TypeOK' /\ SubmittedOnce'
  BY DEF TypeOK, SubmittedOnce, outside
<1>3. OneSubmitter' /\ SentFirst'
  BY <1>1 DEF OneSubmitter, SentFirst, outside
<1>4. PagesInOrder'
  BY <1>1 DEF PagesInOrder, Submitter, Submitting, outside
<1>5. CopyIsCurrent' /\ StepFitsStatus'
  BY <1>1 DEF CopyIsCurrent, StepFitsStatus, Acting
<1>6. PagesAreTrue'
  BY <1>1 DEF PagesAreTrue, TrueOf, outside
<1>7. DoubtIsRecorded'
  BY <1>1 DEF DoubtIsRecorded, InOrder
<1>8. Doomed => Doomed'
  BY <1>1 DEF Doomed
<1>. QED BY <1>2, <1>3, <1>4, <1>5, <1>6, <1>7, <1>8 DEF SoundStep, EndIsKept

LEMMA ClaimSteps ==
  ASSUME IInv, NEW w \in Workers, ClaimRunnable(w) \/ ClaimExpired(w) PROVE SoundStep
<1>0. worker \in [Workers -> WorkerState] /\ worker[w] \in WorkerState /\ job \in Record
  BY DEF IInv, TypeOK
<1>1. CASE ClaimRunnable(w)
  <2>. DEFINE step == FirstStep(job.status)
  <2>1. /\ worker[w].at = "idle" /\ job.status \in Active
        /\ lease' = [holder |-> w, live |-> TRUE]
        /\ worker' = [worker EXCEPT ![w].at = step, ![w].rec = job]
        /\ UNCHANGED <<job, outside, late, faults, restarts>>
    BY <1>1 DEF ClaimRunnable
  <2>2. step \in {"plan", "interrupted", "recover", "inspect"} /\ job.status \in StatusesAt(step)
    BY <2>1 DEF FirstStep, StatusesAt, Active
  <2>3. step \in Steps
    BY <2>2 DEF Steps, PlanningSteps, PollingSteps
  <2>. HIDE DEF step
  <2>4. /\ Others(w) /\ worker' \in [Workers -> WorkerState] /\ worker'[w].rec = job
        /\ worker'[w].at = step /\ worker'[w].page = worker[w].page
    BY <1>0, <2>1, <2>3 DEF WorkerState, Others
  <2>. QED BY <2>1, <2>2, <2>4, Claims
<1>2. CASE ClaimExpired(w)
  <2>. DEFINE open == ~(job.window /\ "cleanup" \in late)
  <2>1. /\ worker[w].at = "idle" /\ lease' = [holder |-> w, live |-> TRUE]
        /\ worker' = [worker EXCEPT ![w].at = "survey", ![w].rec = job, ![w].open = open]
        /\ UNCHANGED <<job, outside, late, faults, restarts>>
    BY <1>2 DEF ClaimExpired
  <2>2. "survey" \in Steps /\ job.status \in StatusesAt("survey") /\ open \in BOOLEAN
    BY <1>0 DEF Steps, ExpirySteps, StatusesAt, Statuses, Active, Record
  <2>. HIDE DEF open
  <2>3. /\ Others(w) /\ worker' \in [Workers -> WorkerState] /\ worker'[w].rec = job
        /\ worker'[w].at = "survey" /\ worker'[w].page = worker[w].page
    BY <1>0, <2>1, <2>2 DEF WorkerState, Others
  <2>. QED BY <2>1, <2>2, <2>3, Claims
<1>. QED BY <1>1, <1>2

-----------------------------------------------------------------------------
LEMMA DeckIsFinite == IsFiniteSet(Deck)
<1>1. IsFiniteSet({Preview})
  BY FS_Singleton
<1>2. Deck = {Preview} \cup {Pptx}
  BY DEF Deck
<1>. QED BY <1>1, <1>2, FS_AddElement

LEMMA SurveyStep ==
  ASSUME IInv, NEW w \in Workers, Survey(w) PROVE SoundStep
<1>. DEFINE rec == worker[w].rec
            open == worker[w].open
            unsure == {p \in Pages : Uncertain(rec.pages[p])}
<1>0. /\ TypeOK /\ worker[w] \in WorkerState /\ rec \in Record /\ rec.pages \in [Pages -> Page]
      /\ rec.audit \in BOOLEAN /\ rec.out \in SUBSET Deck /\ open \in BOOLEAN
  BY CopyType DEF IInv, Record, WorkerState
<1>1. PICK heard \in SUBSET Pages, unread \in SUBSET Deck :
       LET answered == {p \in unsure \cap heard : open /\ gateway[p] \in {"done", "refused", "failed"}}
           found == {p \in answered : gateway[p] = "done"}
           deck == (Deck \cap store) \ unread
           missing == unread # {} \/ unsure \ answered # {}
           new == [rec EXCEPT
             !.pages = [p \in Pages |-> IF p \in answered THEN Settled(@[p], gateway[p]) ELSE @[p]],
             !.out = @ \cup deck,
             !.audit = @ \/ (~open /\ missing)]
       IN /\ faults + Cardinality(unread) <= MaxFaults
          /\ faults' = faults + Cardinality(unread)
          /\ store' = store \cup found
          /\ worker' = [worker EXCEPT
               ![w].at = "expire", ![w].rec = new, ![w].missed = open /\ missing,
               ![w].todo = {p \in Pages : new.pages[p].art} \cup new.out]
  BY DEF Survey
<1>. DEFINE answered == {p \in unsure \cap heard : open /\ gateway[p] \in {"done", "refused", "failed"}}
            found == {p \in answered : gateway[p] = "done"}
            deck == (Deck \cap store) \ unread
            missing == unread # {} \/ unsure \ answered # {}
            pages == [p \in Pages |-> IF p \in answered THEN Settled(rec.pages[p], gateway[p]) ELSE rec.pages[p]]
            out == rec.out \cup deck
            audit == rec.audit \/ (~open /\ missing)
            new == [rec EXCEPT
             !.pages = [p \in Pages |-> IF p \in answered THEN Settled(@[p], gateway[p]) ELSE @[p]],
             !.out = @ \cup deck,
             !.audit = @ \/ (~open /\ missing)]
            todo == {p \in Pages : new.pages[p].art} \cup new.out
            missed == open /\ missing
            now == [[[[worker[w] EXCEPT !.at = "expire"] EXCEPT !.rec = new]
                                  EXCEPT !.missed = missed] EXCEPT !.todo = todo]
<1>2. worker[w].at = "survey" /\ UNCHANGED <<job, lease, gateway, sent, late, restarts>>
  BY DEF Survey
<1>3. /\ faults + Cardinality(unread) <= MaxFaults
      /\ faults' = faults + Cardinality(unread)
      /\ store' = store \cup found
      /\ worker' = [worker EXCEPT ![w] = now]
  <2>1. /\ faults + Cardinality(unread) <= MaxFaults
        /\ faults' = faults + Cardinality(unread)
        /\ store' = store \cup found
        /\ worker' = [worker EXCEPT ![w].at = "expire", ![w].rec = new,
                                    ![w].missed = missed, ![w].todo = todo]
    BY <1>1
  <2>. HIDE DEF new, missed, todo
  <2>2. worker' = [worker EXCEPT ![w] = now]
    BY <1>0, <2>1 DEF TypeOK, WorkerState
  <2>. QED BY <2>1, <2>2
<1>4. pages \in [Pages -> Page]
  <2>1. \A p \in answered : gateway[p] \in {"done", "refused", "failed"}
    OBVIOUS
  <2>. HIDE DEF answered
  <2>. QED BY <1>0, <2>1, PageOps
<1>5. \A p \in Pages : pages[p].sub = "NOT_SUBMITTED" => gateway[p] = "refused" \/ rec.pages[p].sub = "NOT_SUBMITTED"
  BY <1>0, HeardFields
<1>6. store' \subseteq (Pages \cup Deck) /\ faults' \in 0 .. MaxFaults
  <2>1. found \subseteq Pages
    OBVIOUS
  <2>2. Cardinality(unread) \in Nat
    <3>1. IsFiniteSet(Deck)
      BY DeckIsFinite
    <3>. QED BY <3>1, FS_Subset, FS_CardinalityType
  <2>3. /\ faults \in Nat /\ faults + Cardinality(unread) <= MaxFaults
        /\ faults' = faults + Cardinality(unread) /\ store' = store \cup found
    <3>. HIDE DEF now, found
    <3>. QED BY <1>0, <1>3 DEF TypeOK
  <2>. HIDE DEF found
  <2>. QED BY <1>0, <2>1, <2>2, <2>3, QuickDeckAssumption DEF TypeOK
<1>7. out \in SUBSET Deck /\ audit \in BOOLEAN /\ missed \in BOOLEAN
  BY <1>0
<1>. HIDE DEF pages, out, audit, missed
<1>8. new \in Record /\ new.pages = pages /\ new.out = out
  <2>1. new = [rec EXCEPT !.pages = pages, !.out = out, !.audit = audit]
    BY DEF pages, out, audit
  <2>. HIDE DEF new
  <2>. QED BY <1>0, <1>4, <1>7, <2>1 DEF Record
<1>. HIDE DEF new
<1>9. todo \subseteq (Pages \cup Deck)
  BY <1>7, <1>8
<1>. HIDE DEF todo
<1>10. now \in WorkerState /\ now.at = "expire" /\ now.rec = new
  <2>1. "expire" \in Steps
    BY DEF Steps, ExpirySteps
  <2>. QED BY <1>0, <1>7, <1>8, <1>9, <2>1 DEF WorkerState
<1>. HIDE DEF now
<1>11. /\ Others(w) /\ worker' \in [Workers -> WorkerState]
       /\ worker'[w].at = "expire" /\ worker'[w].rec = new
  BY <1>0, <1>3, <1>10 DEF TypeOK, Others
<1>12. ASSUME Acting(w) PROVE TrueOf(new.pages)
  <2>1. TrueOf(rec.pages)
    BY <1>2, <1>12, Known
  <2>. QED BY <1>5, <1>8, <2>1, Learnt
<1>13. StatusesAt("survey") \subseteq StatusesAt("expire")
  BY DEF StatusesAt
<1>. QED BY <1>2, <1>6, <1>11, <1>12, <1>13, Thinks

LEMMA SaveExpiredStep ==
  ASSUME IInv, NEW w \in Workers, SaveExpired(w) PROVE SoundStep
<1>. DEFINE cleanup == worker[w].missed \/ (worker[w].todo # {} /\ worker[w].open)
            rec == [worker[w].rec EXCEPT !.status = "EXPIRED", !.due = FALSE,
                                         !.cleanup = cleanup, !.window = cleanup]
<1>1. worker[w].at = "expire" /\ SaveClaimed(w, rec, "remove") /\ UNCHANGED outside
  BY DEF SaveExpired
<1>2. cleanup \in BOOLEAN
  BY CopyType DEF IInv, WorkerState
<1>. HIDE DEF cleanup
<1>3. rec \in Record /\ rec.status = "EXPIRED" /\ rec.pages = worker[w].rec.pages
  BY <1>2, CopyType DEF IInv, Record
<1>. HIDE DEF rec
<1>4. ASSUME Holds(w) PROVE TrueOf(rec.pages)
  BY <1>1, <1>3, <1>4 DEF IInv, PagesAreTrue, Acting
<1>. QED
  BY <1>1, <1>3, <1>4, SaveOnly DEF StatusesAt, DoubtOf, InOrder, DoomedRec

LEMMA RemovalDoneStep ==
  ASSUME IInv, NEW w \in Workers, RemovalDone(w) PROVE SoundStep
<1>. DEFINE left == worker[w].todo \cap store
<1>1. /\ worker[w].at = "remove" /\ faults + Cardinality(left) <= MaxFaults
      /\ faults' = faults + Cardinality(left)
      /\ worker' = [worker EXCEPT ![w].at = "settle", ![w].todo = left]
      /\ UNCHANGED <<job, lease, outside, late, restarts>>
  BY DEF RemovalDone
<1>2. TypeOK /\ worker[w] \in WorkerState /\ left \subseteq (Pages \cup Deck)
  BY CopyType DEF IInv, WorkerState
<1>3. Cardinality(left) \in Nat
  <2>1. IsFiniteSet(Pages)
    BY FS_Interval, QuickDeckAssumption DEF Pages
  <2>2. IsFiniteSet(Deck)
    BY DeckIsFinite
  <2>3. IsFiniteSet(Pages \cup Deck)
    BY <2>1, <2>2, FS_Union
  <2>. QED BY <1>2, <2>3, FS_Subset, FS_CardinalityType
<1>. HIDE DEF left
<1>4. store' \subseteq (Pages \cup Deck) /\ faults' \in 0 .. MaxFaults
  BY <1>1, <1>2, <1>3, QuickDeckAssumption DEF TypeOK, outside
<1>5. "settle" \in Steps
  BY DEF Steps, ExpirySteps
<1>6. /\ Others(w) /\ worker' \in [Workers -> WorkerState]
      /\ worker'[w].at = "settle" /\ worker'[w].rec = worker[w].rec
  BY <1>1, <1>2, <1>5 DEF TypeOK, WorkerState, Others
<1>7. StatusesAt("remove") \subseteq StatusesAt("settle")
  BY DEF StatusesAt
<1>. QED BY <1>1, <1>4, <1>6, <1>7, Thinks DEF outside

LEMMA SaveCleanupStep ==
  ASSUME IInv, NEW w \in Workers, SaveCleanup(w) PROVE SoundStep
<1>. DEFINE left == worker[w].todo
            old == worker[w].rec
            pending == worker[w].missed \/ left # {}
            again == pending /\ worker[w].open
            audit == old.audit \/ (pending /\ ~worker[w].open)
            pages == [p \in Pages |-> [old.pages[p] EXCEPT !.art = @ /\ p \in left]]
            out == old.out \cap left
            rec == [old EXCEPT !.pages = pages, !.out = @ \cap left, !.cleanup = again,
                               !.window = again, !.audit = @ \/ (pending /\ ~worker[w].open)]
<1>1. worker[w].at = "settle" /\ SaveClaimed(w, rec, "release") /\ UNCHANGED outside
  BY DEF SaveCleanup
<1>2. old \in Record /\ old.pages \in [Pages -> Page] /\ old.out \subseteq Deck
      /\ old.audit \in BOOLEAN /\ worker[w].open \in BOOLEAN /\ worker[w].missed \in BOOLEAN
  BY CopyType DEF IInv, Record, WorkerState
<1>3. again \in BOOLEAN /\ audit \in BOOLEAN /\ out \in SUBSET Deck
  BY <1>2
<1>4. pages \in [Pages -> Page] /\ \A p \in Pages : pages[p].sub = old.pages[p].sub
  <2>1. \A q \in Page, b \in BOOLEAN : /\ [q EXCEPT !.art = b] \in Page
                                        /\ [q EXCEPT !.art = b].sub = q.sub
    BY DEF Page
  <2>2. \A p \in Pages : (old.pages[p].art /\ p \in left) \in BOOLEAN
    OBVIOUS
  <2>. QED BY <1>2, <2>1, <2>2
<1>5. rec \in Record /\ rec.status = old.status /\ rec.pages = pages
  <2>. HIDE DEF again, pages
  <2>. QED BY <1>2, <1>3, <1>4 DEF Record
<1>. HIDE DEF pages
<1>. HIDE DEF rec
<1>6. ASSUME Holds(w)
      PROVE  old = job /\ job.status = "EXPIRED" /\ TrueOf(rec.pages)
  BY <1>1, <1>4, <1>5, <1>6, Known DEF Acting, StatusesAt, TrueOf
<1>. QED
  BY <1>1, <1>5, <1>6, SaveOnly DEF DoubtOf, InOrder, DoomedRec

-----------------------------------------------------------------------------
LEMMA RecoveredFields ==
  ASSUME NEW rec \in Record, DoubtOf(rec)
  PROVE  LET new == Recovered(rec) IN
         /\ new \in Record /\ SameSubmissions(new, rec) /\ DoubtOf(new)
         /\ DoomedRec(rec) => DoomedRec(new)
         /\ new.status = "QUEUED" => rec.status = "QUEUED"
         /\ rec.status \in {"COMPLETED", "FAILED", "EXPIRED"} => new = rec
<1>. DEFINE new == Recovered(rec)
            due == [rec EXCEPT !.due = TRUE]
            failed == [Failed(rec) EXCEPT !.pending = FALSE]
<1>1. new \in Record
  BY RecordOps
<1>2. CASE rec.status = "PACKAGING"
  <2>1. /\ due.status = "PACKAGING" /\ due.pages = rec.pages /\ due.pending = rec.pending
    BY <1>2 DEF Record
  <2>2. new = due
    BY <1>2 DEF Recovered
  <2>. HIDE DEF due
  <2>. QED BY <1>1, <1>2, <2>1, <2>2 DEF DoubtOf, DoomedRec, SameSubmissions
<1>3. CASE rec.status = "PLANNING"
  <2>1. failed.status = "FAILED" /\ failed.pages = rec.pages
    BY RecordOps, RecordFields DEF Record
  <2>2. new = failed
    BY <1>3 DEF Recovered
  <2>. HIDE DEF failed
  <2>. QED BY <1>1, <1>3, <2>1, <2>2 DEF DoubtOf, DoomedRec, SameSubmissions
<1>4. CASE rec.status \in {"SUBMITTING_IMAGES", "GENERATING"}
  <2>1. new = Resumed(rec)
    BY <1>4 DEF Recovered
  <2>2. Recovers(new, rec) /\ (DoomedRec(rec) => DoomedRec(new))
    BY <1>4, <2>1, ResumedFields
  <2>3. new.status \in {"GENERATING", "FAILED"} /\ DoubtOf(new)
    BY <2>2 DEF Recovers, DoubtOf
  <2>. HIDE DEF new
  <2>. QED BY <1>1, <1>4, <2>2, <2>3 DEF Recovers, new
<1>5. CASE rec.status \in {"QUEUED", "COMPLETED", "FAILED", "EXPIRED"}
  <2>1. new = rec
    BY <1>5 DEF Recovered
  <2>. QED BY <1>5, <2>1 DEF SameSubmissions
<1>. QED BY <1>2, <1>3, <1>4, <1>5 DEF Record

LEMMA RestartStep ==
  ASSUME IInv, Restart PROVE SoundStep
<1>. USE DEF IInv
<1>1. /\ restarts' \in 0 .. MaxRestarts /\ worker' = [w \in Workers |-> Idle]
      /\ lease' = [holder |-> "none", live |-> FALSE]
      /\ job' = Recovered(job) /\ UNCHANGED <<store, gateway, sent, late, faults>>
  BY QuickDeckAssumption DEF Restart, TypeOK, outside
<1>2. job \in Record /\ DoubtOf(job)
  BY CopyType DEF TypeOK, DoubtIsRecorded
<1>3. /\ job' \in Record /\ SameSubmissions(job', job) /\ DoubtOf(job')
      /\ DoomedRec(job) => DoomedRec(job')
      /\ job'.status = "QUEUED" => job.status = "QUEUED"
      /\ job.status \in {"COMPLETED", "FAILED", "EXPIRED"} => job' = job
  BY <1>1, <1>2, RecoveredFields
<1>4. TypeOK' /\ SubmittedOnce'
  <2>1. lease' \in [holder: Workers \cup {"none"}, live: BOOLEAN]
    BY <1>1
  <2>2. worker' \in [Workers -> WorkerState]
    BY <1>1, IdleType
  <2>. QED BY <1>1, <1>3, <2>1, <2>2 DEF TypeOK, SubmittedOnce
<1>5. \A w \in Workers : worker'[w].at = "idle" /\ worker'[w].page = 0
  BY <1>1 DEF Idle
<1>6. /\ \A w \in Workers : ~Submitter(w)' /\ ~Acting(w)'
      /\ \A p \in Pages : ~Pledged(p)'
      /\ \A w \in Workers, p \in Pages : ~Calling(w, p)'
  BY <1>5 DEF Submitter, Submitting, Acting, Pledged, Calling
<1>7. OneSubmitter' /\ SentFirst'
  BY <1>1, <1>3, <1>6 DEF OneSubmitter, SentFirst
<1>8. PagesInOrder'
  BY <1>5, <1>6 DEF PagesInOrder
<1>9. CopyIsCurrent' /\ StepFitsStatus' /\ DoubtIsRecorded'
  BY <1>3, <1>6 DEF CopyIsCurrent, StepFitsStatus, DoubtIsRecorded
<1>10. PagesAreTrue'
  BY <1>1, <1>3, <1>6 DEF PagesAreTrue, TrueOf, SameSubmissions
<1>11. Doomed => Doomed'
  BY <1>3, <1>6 DEF Doomed, DoomedRec, NoUnknown
<1>. QED
  BY <1>3, <1>4, <1>7, <1>8, <1>9, <1>10, <1>11 DEF SoundStep, EndIsKept

-----------------------------------------------------------------------------
LEMMA InitIInv == Init => IInv
<1> SUFFICES ASSUME Init PROVE IInv
  OBVIOUS
<1>1. TypeOK
  <2>1. lease \in [holder: Workers \cup {"none"}, live: BOOLEAN]
    BY DEF Init
  <2>. QED BY <2>1, IdleType, QuickDeckAssumption DEF Init, TypeOK
<1>2. SubmittedOnce
  BY DEF Init, SubmittedOnce
<1>3. /\ \A w \in Workers : ~Submitter(w) /\ ~Acting(w)
      /\ \A p \in Pages : ~Pledged(p)
  BY DEF Init, Idle, Submitter, Submitting, Acting, Pledged
<1>4. OneSubmitter /\ PagesInOrder /\ SentFirst
  BY <1>3 DEF Init, Idle, OneSubmitter, PagesInOrder, SentFirst
<1>5. job.pages = [p \in Pages |-> FreshPage] /\ job.status = "QUEUED"
  BY DEF Init, NewRecord
<1>6. CopyIsCurrent /\ StepFitsStatus /\ PagesAreTrue /\ DoubtIsRecorded
  BY <1>3, <1>5 DEF CopyIsCurrent, StepFitsStatus, PagesAreTrue, TrueOf, DoubtIsRecorded, DoubtOf, Init
<1>. QED BY <1>1, <1>2, <1>4, <1>6 DEF IInv

LEMMA NextStep ==
  ASSUME IInv, [Next]_vars PROVE SoundStep
<1>1. ASSUME NEW w \in Workers, PlanAndSubmit(w) PROVE SoundStep
  BY <1>1, SavePlanningStep, ModelFailsStep, ModelAnswersStep, SavePreflightStep, SkipPageStep,
     MarkPageStep, SubmitStep, AnswerSteps, FinishSubmissionStep DEF PlanAndSubmit
<1>2. ASSUME NEW w \in Workers, InspectAndPackage(w) PROVE SoundStep
  BY <1>2, InspectStep, KeepPollingStep, PollEndSteps, StartPackagingStep, PutSteps, DeliverStep,
     PackagingFailsStep DEF InspectAndPackage
<1>3. ASSUME NEW w \in Workers, Expire(w) PROVE SoundStep
  BY <1>3, SurveyStep, SaveExpiredStep, ElsewhereSteps, RemovalDoneStep, SaveCleanupStep DEF Expire
<1>4. ASSUME NEW w \in Workers, Work(w) \/ SaveThrows(w) PROVE SoundStep
  BY <1>1, <1>2, <1>3, <1>4, ClaimSteps, ReleaseStep, FailInterruptedStep, RecoverSubmissionStep,
     BrokenStep, SaveThrowsStep DEF Work
<1>5. CASE Next
  BY <1>4, <1>5, ElsewhereSteps, RestartStep DEF Next
<1>6. CASE UNCHANGED vars
  <2>1. TypeOK'
    BY <1>6 DEF IInv, TypeOK, vars
  <2>. QED BY <1>6, <2>1, Elsewhere DEF vars, Holds
<1>. QED BY <1>5, <1>6

LEMMA Invariance == Spec => []IInv
<1>1. IInv /\ [Next]_vars => IInv'
  BY NextStep DEF SoundStep
<1>. QED BY InitIInv, <1>1, PTL DEF Spec

\* Type correctness of the record, the claim, the workers' copies and the gateway.
THEOREM TypeCorrect == Spec => []TypeOK
<1>1. IInv => TypeOK
  BY DEF IInv
<1>. QED BY Invariance, <1>1, PTL

\* No image task is submitted twice, for any number of workers, pages, faults and
\* restarts. (planAndSubmit, recoverOperationIds)
THEOREM PaidOnce == Spec => []SubmittedOnce
<1>1. IInv => SubmittedOnce
  BY DEF IInv
<1>. QED BY Invariance, <1>1, PTL

\* A submission in doubt is recorded as such, or its job has failed.
LEMMA DoubtDooms == IInv /\ InDoubt => Doomed
<1> SUFFICES ASSUME IInv, InDoubt PROVE Doomed
  OBVIOUS
<1>1. PICK p \in Pages : job.pages[p].sub = "UNKNOWN"
  BY DEF InDoubt
<1>2. \A w \in Workers : ~Calling(w, p)
  BY DEF InDoubt, Calling
<1>3. FreshPage.sub = "NOT_SUBMITTED"
  BY DEF FreshPage
<1>4. DoubtOf(job) /\ job.status \in Statuses
  BY CopyType DEF IInv, DoubtIsRecorded, TypeOK, Record, Statuses, Active
<1>. QED BY <1>1, <1>2, <1>3, <1>4 DEF Doomed, DoubtOf, NoUnknown, Statuses, Active

\* What ended stays ended, what was ever in doubt never ends well, and what is
\* written off was never submitted. (saveClaimed, reconciledFailure)
THEOREM HonestEnds == Spec => EndsAreHonest
<1>1. IInv /\ [Next]_vars => (Doomed => Doomed')
  BY NextStep DEF SoundStep
<1>2. IInv /\ [Next]_vars =>
        [job.status \in {"COMPLETED", "FAILED", "EXPIRED"} => job' = job \/ job'.status = "EXPIRED"]_job
  BY NextStep DEF SoundStep, EndIsKept
<1>3. IInv => NotSubmittedIsTrue
  BY DEF IInv, PagesAreTrue, TrueOf, NotSubmittedIsTrue
<1>4. Doomed => job.status # "COMPLETED"
  BY DEF Doomed
<1>5. Spec => EndIsFinal
  BY Invariance, <1>2, PTL DEF Spec, EndIsFinal
<1>6. Spec => DoubtNeverCompletes
  BY Invariance, DoubtDooms, <1>1, <1>4, PTL DEF Spec, DoubtNeverCompletes
<1>. QED BY Invariance, <1>3, <1>5, <1>6, PTL DEF EndsAreHonest

-----------------------------------------------------------------------------
\* An image that is recorded is in the store.
ImagesIn(pages) == \A p \in Pages : pages[p].st = "COMPLETED" => p \in store
AllDone(pages) == \A p \in Pages : pages[p].st = "COMPLETED"
NoNewImage(new, old) == \A p \in Pages : new[p].st = "COMPLETED" => old[p].st = "COMPLETED"

\* Nothing is removed before the job has expired.
RemovedLate == \A w \in Workers : worker[w].at \in {"remove", "settle"} => job.status = "EXPIRED"
\* Only a whole deck is packaged, and what is delivered has been put away.
Whole(w) ==
  Acting(w) =>
    /\ worker[w].at = "progress" => ImagesIn(worker[w].rec.pages)
    /\ worker[w].at \in {"preview", "pptx", "deliver"} => AllDone(job.pages)
    /\ worker[w].at \in {"pptx", "deliver"} => Preview \in store
    /\ worker[w].at = "deliver" => Pptx \in store
KeptInv == /\ RemovedLate /\ DownloadReady
           /\ job.status # "EXPIRED" => ImagesIn(job.pages)
           /\ \A w \in Workers : Whole(w)

\* A save that neither delivers nor expires the job: no image is recorded but what
\* the worker has just seen stored.
PlainSave(w) ==
  /\ UNCHANGED <<lease, late, store>> /\ Others(w)
  /\ \/ job' = job /\ worker'[w].at = "release"
     \/ /\ Holds(w) /\ worker[w].at \notin {"idle", "release"}
        /\ job'.status \notin {"COMPLETED", "EXPIRED"}
        /\ \/ NoNewImage(job'.pages, job.pages)
           \/ worker[w].at = "progress" /\ NoNewImage(job'.pages, worker[w].rec.pages)
        /\ \/ worker'[w].at \in {"release", "model", "preflight", "page", "call"}
           \/ worker'[w].at = "preview" /\ AllDone(job'.pages)

-----------------------------------------------------------------------------
\* No operation but the inspection of a finished task makes a page COMPLETED.
LEMMA NoPageCompletes ==
  ASSUME NEW page \in Page, NEW task
  PROVE  /\ FreshPage.st # "COMPLETED" /\ NotAccepted(page).st # "COMPLETED"
         /\ Skipped(page).st = "COMPLETED" => page.st = "COMPLETED"
         /\ Answered(page, task).st = "COMPLETED" => page.st = "COMPLETED"
         /\ LookedUp(page, task).st = "COMPLETED" => page.st = "COMPLETED"
         /\ Inspected(page, task).st = "COMPLETED" => task = "done" \/ page.st = "COMPLETED"
<1>1. FreshPage.st # "COMPLETED" /\ NotAccepted(page).st # "COMPLETED"
  BY DEF FreshPage, NotAccepted, Page
<1>2. Skipped(page).st = "COMPLETED" => page.st = "COMPLETED"
  BY DEF Skipped, Page
<1>3. Answered(page, task).st = "COMPLETED" => page.st = "COMPLETED"
  BY <1>1 DEF Answered, Page
<1>4. LookedUp(page, task).st = "COMPLETED" => page.st = "COMPLETED"
  BY <1>1 DEF LookedUp, Page
<1>5. FailedInspection(page).st # "COMPLETED"
  BY DEF FailedInspection, Page
<1>6. Inspected(page, task).st = "COMPLETED" => task = "done" \/ page.st = "COMPLETED"
  <2>1. CASE task = "failed"
    BY <1>5, <2>1 DEF Inspected
  <2>2. CASE task = "refused"
    BY <1>1, <2>2 DEF Inspected
  <2>3. CASE task = "unknown"
    BY <2>3 DEF Inspected, Page
  <2>4. CASE task \notin {"done", "failed", "refused", "unknown"}
    BY <2>4 DEF Inspected
  <2>. QED BY <2>1, <2>2, <2>3, <2>4
<1>. QED BY <1>1, <1>2, <1>3, <1>4, <1>6

\* Nor does the recovery, in a tick or after a restart.
LEMMA RecoveryCompletesNoPage ==
  ASSUME NEW rec \in Record
  PROVE  /\ NoNewImage(RecoveredSubmission(rec).pages, rec.pages)
         /\ RecoveredSubmission(rec).status \in {"GENERATING", "FAILED"}
         /\ NoNewImage(Recovered(rec).pages, rec.pages)
         /\ Recovered(rec) = rec \/ Recovered(rec).status \in {"GENERATING", "FAILED", "PACKAGING"}
<1>. DEFINE pages == [p \in Pages |-> Skipped(rec.pages[p])]
            next == [rec EXCEPT !.pages = pages]
            whole == [Generating(next) EXCEPT !.pending = FALSE, !.drain = FALSE]
            resumed == [Generating(next) EXCEPT !.drain = FALSE]
            failed == [Failed(next) EXCEPT !.pending = FALSE]
            due == [next EXCEPT !.due = TRUE]
<1>1. next \in Record /\ next.pages = pages /\ next.status = rec.status
  BY SkippedFields
<1>2. NoNewImage(pages, rec.pages)
  BY NoPageCompletes DEF NoNewImage, Record
<1>3. \/ RecoveredSubmission(rec) = whole
      \/ RecoveredSubmission(rec) = Failed(next) \/ RecoveredSubmission(rec) = StartDraining(next)
  BY DEF RecoveredSubmission
<1>4. \/ Resumed(rec) \in {resumed, failed, StartDraining(next)}
      \/ Resumed(rec) = due /\ rec.status = "GENERATING"
  BY DEF Resumed
<1>. HIDE DEF pages, next
<1>5. /\ Generating(next) \in Record /\ Generating(next).pages = pages
      /\ Generating(next).status = "GENERATING"
      /\ Failed(next) \in Record /\ Failed(next).pages = pages /\ Failed(next).status = "FAILED"
      /\ StartDraining(next).pages = pages /\ StartDraining(next).status = "GENERATING"
  BY <1>1, RecordOps, RecordFields
<1>6. /\ whole.pages = pages /\ whole.status = "GENERATING"
      /\ resumed.pages = pages /\ resumed.status = "GENERATING"
      /\ failed.pages = pages /\ failed.status = "FAILED"
      /\ due.pages = pages /\ due.status = rec.status
  BY <1>1, <1>5 DEF Record
<1>. HIDE DEF whole, resumed, failed, due
<1>7. /\ RecoveredSubmission(rec).pages = pages
      /\ RecoveredSubmission(rec).status \in {"GENERATING", "FAILED"}
  BY <1>3, <1>5, <1>6
<1>8. Resumed(rec).pages = pages /\ Resumed(rec).status \in {"GENERATING", "FAILED"}
  BY <1>4, <1>5, <1>6
<1>9. [rec EXCEPT !.due = TRUE].pages = rec.pages /\ [rec EXCEPT !.due = TRUE].status = rec.status
  BY DEF Record
<1>10. [Failed(rec) EXCEPT !.pending = FALSE].pages = rec.pages
       /\ [Failed(rec) EXCEPT !.pending = FALSE].status = "FAILED"
  BY RecordOps, RecordFields DEF Record
<1>11. NoNewImage(rec.pages, rec.pages)
  BY DEF NoNewImage
<1>12. CASE rec.status = "PACKAGING"
  BY <1>2, <1>7, <1>9, <1>11, <1>12 DEF Recovered
<1>13. CASE rec.status = "PLANNING"
  BY <1>2, <1>7, <1>10, <1>11, <1>13 DEF Recovered
<1>14. CASE rec.status \in {"SUBMITTING_IMAGES", "GENERATING"}
  BY <1>2, <1>7, <1>8, <1>14 DEF Recovered
<1>15. CASE rec.status \notin {"PACKAGING", "PLANNING", "SUBMITTING_IMAGES", "GENERATING"}
  BY <1>2, <1>7, <1>11, <1>15 DEF Recovered
<1>. QED BY <1>12, <1>13, <1>14, <1>15

-----------------------------------------------------------------------------
\* saveClaimed, with what must be true of the record it saves if the claim holds.
LEMMA SavedPlainly ==
  ASSUME IInv, NEW w \in Workers, NEW rec \in Record,
         NEW step \in {"release", "model", "preflight", "page", "preview"},
         SaveClaimed(w, rec, step), UNCHANGED store,
         worker[w].at \notin {"idle", "release", "broken", "expire"},
         Holds(w) => /\ rec.status \notin {"COMPLETED", "EXPIRED"}
                     /\ NoNewImage(rec.pages, worker[w].rec.pages)
                     /\ step = "preview" => AllDone(rec.pages)
  PROVE  PlainSave(w)
<1>1. TypeOK /\ step \in Steps
  BY DEF IInv, Steps, PlanningSteps, PollingSteps
<1>2. /\ UNCHANGED <<lease, late, faults, restarts>> /\ Others(w)
      /\ \/ Holds(w) /\ job' = rec /\ worker'[w].at = step
         \/ ~Holds(w) /\ job' = job /\ worker'[w].at = "release"
  BY <1>1, SaveEffect
<1>3. Holds(w) => worker[w].at = "progress" \/ worker[w].rec = job
  BY Known DEF Acting
<1>. QED BY <1>2, <1>3 DEF PlainSave

\* The saves of planning and submission.
LEMMA PlanningIsPlain ==
  ASSUME IInv, NEW w \in Workers, PlanAndSubmit(w), ~Submit(w)
  PROVE  PlainSave(w)
<1>. DEFINE old == worker[w].rec
<1>1. /\ TypeOK /\ worker[w] \in WorkerState /\ old \in Record /\ old.pages \in [Pages -> Page]
      /\ worker[w].at \in {"call", "await"} => worker[w].page \in Pages
  BY CopyType DEF IInv, Record, PagesInOrder
<1>2. NoNewImage(old.pages, old.pages)
  BY DEF NoNewImage
<1>3. ASSUME Holds(w), worker[w].at \in {"page", "call", "await"}
      PROVE  old.status = "SUBMITTING_IMAGES" /\ old = job
  BY <1>3, Known DEF Acting, StatusesAt
<1>4. CASE SavePlanning(w)
  <2>1. /\ [old EXCEPT !.status = "PLANNING", !.due = TRUE] \in Record
        /\ [old EXCEPT !.status = "PLANNING", !.due = TRUE].status = "PLANNING"
        /\ [old EXCEPT !.status = "PLANNING", !.due = TRUE].pages = old.pages
    BY <1>1 DEF Record
  <2>. QED BY <1>2, <1>4, <2>1, SavedPlainly DEF SavePlanning, outside
<1>5. CASE ModelFails(w)
  <2>1. Failed(old) \in Record /\ Failed(old).status = "FAILED" /\ Failed(old).pages = old.pages
    BY <1>1, RecordOps, RecordFields
  <2>. QED BY <1>2, <1>5, <2>1, SavedPlainly DEF ModelFails, outside
<1>6. CASE ModelAnswers(w)
  <2>1. /\ [old EXCEPT !.status = "SUBMITTING_IMAGES", !.due = FALSE] \in Record
        /\ [old EXCEPT !.status = "SUBMITTING_IMAGES", !.due = FALSE].status = "SUBMITTING_IMAGES"
        /\ [old EXCEPT !.status = "SUBMITTING_IMAGES", !.due = FALSE].pages = old.pages
    BY <1>1 DEF Record
  <2>. QED BY <1>2, <1>6, <2>1, SavedPlainly DEF ModelAnswers, outside
<1>7. CASE SavePreflight(w)
  <2>1. /\ [old EXCEPT !.due = TRUE] \in Record /\ [old EXCEPT !.due = TRUE].status = old.status
        /\ [old EXCEPT !.due = TRUE].pages = old.pages
    BY <1>1 DEF Record
  <2>2. Holds(w) => old.status = "SUBMITTING_IMAGES"
    BY <1>7, Known DEF SavePreflight, Acting, StatusesAt
  <2>. QED BY <1>2, <1>7, <2>1, <2>2, SavedPlainly DEF SavePreflight, outside
<1>8. ASSUME NEW page \in Page, page.st # "COMPLETED", worker[w].at = "page", NextPage(w) \in Pages,
             UNCHANGED <<lease, late, store>>, ~Holds(w) => UNCHANGED job /\ Leave(w),
             NEW step \in {"page", "call"},
             Holds(w) => /\ job' = [old EXCEPT !.pages[NextPage(w)] = page]
                         /\ worker' = [worker EXCEPT ![w].rec = job', ![w].page = @ + 1, ![w].at = step]
      PROVE  PlainSave(w)
  <2>. DEFINE rec == [old EXCEPT !.pages[NextPage(w)] = page]
  <2>1. rec.status = old.status /\ NoNewImage(rec.pages, old.pages)
    BY <1>1, <1>8 DEF Record, NoNewImage
  <2>. HIDE DEF rec
  <2>2. CASE Holds(w)
    <3>1. /\ worker' = [worker EXCEPT ![w].rec = job', ![w].page = @ + 1, ![w].at = step]
          /\ job' = rec
      BY <1>8, <2>2 DEF rec
    <3>2. Others(w) /\ worker'[w].at = step
      BY <1>1, <3>1 DEF Others, TypeOK, WorkerState
    <3>. QED BY <1>3, <1>8, <2>1, <2>2, <3>1, <3>2 DEF PlainSave
  <2>3. CASE ~Holds(w)
    <3>1. [Idle EXCEPT !.at = "release"].at = "release"
      BY IdleType DEF WorkerState
    <3>2. Others(w) /\ worker'[w].at = "release"
      BY <1>1, <1>8, <2>3, <3>1 DEF Leave, Others, TypeOK
    <3>. QED BY <1>8, <2>3, <3>2 DEF PlainSave
  <2>. QED BY <2>2, <2>3
<1>9. CASE SkipPage(w)
  <2>. DEFINE page == NotAccepted(old.pages[NextPage(w)])
              rec == [old EXCEPT !.pages[NextPage(w)] = page]
  <2>1. /\ worker[w].at = "page" /\ NextPage(w) \in Pages /\ UNCHANGED <<lease, late, store>>
        /\ ~Holds(w) => UNCHANGED job /\ Leave(w)
    BY <1>9 DEF SkipPage, outside
  <2>2. page \in Page /\ page.st # "COMPLETED"
    BY <1>1, <2>1, NotAcceptedFields, NoPageCompletes
  <2>. HIDE DEF page
  <2>3. ASSUME Holds(w)
        PROVE  /\ job' = rec
               /\ worker' = [worker EXCEPT ![w].rec = job', ![w].page = @ + 1, ![w].at = "page"]
    <3>1. job' = rec /\ worker' = [worker EXCEPT ![w].rec = rec, ![w].page = @ + 1]
      BY <1>9, <2>3 DEF SkipPage, page
    <3>. HIDE DEF rec
    <3>2. worker' = [worker EXCEPT ![w].rec = rec, ![w].page = @ + 1, ![w].at = "page"]
      BY <1>1, <2>1, <3>1 DEF TypeOK, WorkerState
    <3>. QED BY <3>1, <3>2
  <2>. QED BY <1>8, <2>1, <2>2, <2>3
<1>10. CASE MarkPage(w)
  <2>. DEFINE page == [FreshPage EXCEPT !.sub = "UNKNOWN"]
  <2>1. page \in Page /\ page.st # "COMPLETED"
    BY DEF FreshPage, Page
  <2>. HIDE DEF page
  <2>2. /\ worker[w].at = "page" /\ NextPage(w) \in Pages /\ UNCHANGED <<lease, late, store>>
        /\ ~Holds(w) => UNCHANGED job /\ Leave(w)
        /\ Holds(w) =>
             /\ job' = [old EXCEPT !.pages[NextPage(w)] = page]
             /\ worker' = [worker EXCEPT ![w].rec = job', ![w].page = @ + 1, ![w].at = "call"]
    BY <1>10 DEF MarkPage, outside, page
  <2>. QED BY <1>8, <2>1, <2>2
<1>11. ASSUME NEW page \in Page, worker[w].at \in {"call", "await"}, UNCHANGED store,
              page.st = "COMPLETED" => ThePage(w).st = "COMPLETED",
              SaveClaimed(w, WithPage(w, page), "page")
       PROVE  PlainSave(w)
  <2>1. /\ WithPage(w, page) \in Record /\ WithPage(w, page).status = old.status
        /\ NoNewImage(WithPage(w, page).pages, old.pages)
    BY <1>1, <1>11 DEF WithPage, ThePage, Record, NoNewImage
  <2>. QED BY <1>3, <1>11, <2>1, SavedPlainly
<1>12. worker[w].at \in {"call", "await"} => ThePage(w) \in Page
  BY <1>1 DEF ThePage
<1>13. \A page \in Page : NotAccepted(page) \in Page /\ NotAccepted(page).st # "COMPLETED"
  BY NotAcceptedFields, NoPageCompletes
<1>14. CASE ModelNotEligible(w) \/ SubmitRejected(w)
  BY <1>11, <1>12, <1>13, <1>14 DEF ModelNotEligible, SubmitRejected, outside
<1>15. CASE SubmitAnswered(w)
  <2>. DEFINE page == Answered(ThePage(w), gateway[worker[w].page])
  <2>1. /\ worker[w].at = "await" /\ SaveClaimed(w, WithPage(w, page), "page") /\ UNCHANGED store
    BY <1>15 DEF SubmitAnswered, outside
  <2>2. page \in Page /\ (page.st = "COMPLETED" => ThePage(w).st = "COMPLETED")
    BY <1>12, <2>1, PageOps, NoPageCompletes
  <2>. HIDE DEF page
  <2>. QED BY <1>11, <2>1, <2>2
<1>16. CASE SubmitUnanswered(w)
  <2>. DEFINE page == [ThePage(w) EXCEPT !.err = TRUE]
  <2>1. /\ worker[w].at = "await" /\ SaveClaimed(w, WithPage(w, page), "page") /\ UNCHANGED store
    BY <1>16 DEF SubmitUnanswered, outside
  <2>2. page \in Page /\ page.st = ThePage(w).st
    BY <1>12, <2>1 DEF Page
  <2>. HIDE DEF page
  <2>. QED BY <1>11, <2>1, <2>2
<1>17. CASE FinishSubmission(w)
  <2>1. PICK rec \in {StartDraining(old), Failed(old), Generating(old)} :
          worker[w].at = "page" /\ SaveClaimed(w, rec, "release") /\ UNCHANGED store
    BY <1>17 DEF FinishSubmission, outside
  <2>2. rec \in Record /\ rec.status \in {"GENERATING", "FAILED"} /\ rec.pages = old.pages
    <3>1. /\ StartDraining(old) \in Record /\ StartDraining(old).status = "GENERATING"
          /\ StartDraining(old).pages = old.pages
          /\ Failed(old) \in Record /\ Failed(old).status = "FAILED" /\ Failed(old).pages = old.pages
          /\ Generating(old) \in Record /\ Generating(old).status = "GENERATING"
          /\ Generating(old).pages = old.pages
      BY <1>1, RecordOps, RecordFields
    <3>. QED BY <2>1, <3>1
  <2>. QED BY <1>2, <2>1, <2>2, SavedPlainly
<1>. QED
  BY <1>4, <1>5, <1>6, <1>7, <1>9, <1>10, <1>14, <1>15, <1>16, <1>17 DEF PlanAndSubmit

\* The saves of polling and packaging, but for the delivery.
LEMMA PollingIsPlain ==
  ASSUME IInv, NEW w \in Workers,
         \/ KeepPolling(w) \/ DrainTimesOut(w) \/ FailResolved(w) \/ StartPackaging(w)
         \/ PackagingFails(w) \/ FailInterrupted(w)
  PROVE  PlainSave(w)
<1>. DEFINE old == worker[w].rec
<1>1. TypeOK /\ old \in Record /\ old.pages \in [Pages -> Page]
  BY CopyType DEF IInv, Record
<1>2. NoNewImage(old.pages, old.pages)
  BY DEF NoNewImage
<1>3. /\ StartDraining(old) \in Record /\ StartDraining(old).status = "GENERATING"
      /\ StartDraining(old).pages = old.pages
      /\ Failed(old) \in Record /\ Failed(old).status = "FAILED" /\ Failed(old).pages = old.pages
  BY <1>1, RecordOps, RecordFields
<1>4. CASE FailResolved(w) \/ PackagingFails(w) \/ FailInterrupted(w)
  <2>1. /\ worker[w].at \in {"progress", "preview", "pptx", "interrupted"}
        /\ SaveClaimed(w, Failed(old), "release") /\ UNCHANGED store
    BY <1>4 DEF FailResolved, PackagingFails, FailInterrupted, outside
  <2>. QED BY <1>2, <1>3, <2>1, SavedPlainly
<1>5. CASE KeepPolling(w)
  <2>. DEFINE due == [old EXCEPT !.due = TRUE]
  <2>1. due \in Record /\ due.status = old.status /\ due.pages = old.pages
    BY <1>1 DEF Record
  <2>. HIDE DEF due
  <2>2. PICK rec \in {StartDraining(old), due} :
          worker[w].at = "progress" /\ SaveClaimed(w, rec, "release") /\ UNCHANGED store
    BY <1>5 DEF KeepPolling, outside, due
  <2>3. Holds(w) => old.status \in {"GENERATING", "PACKAGING"}
    BY <2>2, Polled
  <2>4. rec \in Record /\ rec.status \in {"GENERATING", "FAILED", old.status} /\ rec.pages = old.pages
    BY <1>3, <2>1, <2>2
  <2>. QED BY <1>2, <2>2, <2>3, <2>4, SavedPlainly
<1>6. CASE StartPackaging(w)
  <2>. DEFINE rec == [old EXCEPT !.status = "PACKAGING", !.due = TRUE]
  <2>1. /\ worker[w].at = "progress" /\ SaveClaimed(w, rec, "preview") /\ UNCHANGED store
        /\ ~Unresolved(old.pages) /\ ~FailureIn(old.pages)
    BY <1>6 DEF StartPackaging, outside, ReconciledFailure
  <2>2. rec \in Record /\ rec.status = "PACKAGING" /\ rec.pages = old.pages
    BY <1>1 DEF Record
  <2>. HIDE DEF rec
  <2>3. AllDone(old.pages)
    BY <2>1 DEF Unresolved, FailureIn, Terminal, AllDone
  <2>. QED BY <1>2, <2>1, <2>2, <2>3, SavedPlainly
<1>7. CASE DrainTimesOut(w)
  <2>. DEFINE timed == [old EXCEPT !.pages = TimedOut(@)]
  <2>1. worker[w].at = "progress" /\ SaveClaimed(w, Failed(timed), "release") /\ UNCHANGED store
    BY <1>7 DEF DrainTimesOut, outside
  <2>2. TimedOut(old.pages) \in [Pages -> Page]
    BY <1>1 DEF TimedOut, Page
  <2>3. NoNewImage(TimedOut(old.pages), old.pages)
    BY <1>1 DEF TimedOut, Page, NoNewImage
  <2>4. timed \in Record /\ timed.pages = TimedOut(old.pages)
    BY <1>1, <2>2 DEF Record
  <2>. HIDE DEF timed
  <2>5. Failed(timed) \in Record /\ Failed(timed).status = "FAILED" /\ Failed(timed).pages = timed.pages
    BY <2>4, RecordOps, RecordFields
  <2>. QED BY <2>1, <2>3, <2>4, <2>5, SavedPlainly
<1>. QED BY <1>4, <1>5, <1>6, <1>7

\* The saves of a recovery inside a tick.
LEMMA RecoveryIsPlain ==
  ASSUME IInv, NEW w \in Workers, RecoverSubmission(w) \/ Broken(w)
  PROVE  PlainSave(w)
<1>1. /\ TypeOK /\ worker[w].rec \in Record /\ job \in Record /\ "release" \in Steps
      /\ UNCHANGED store /\ worker[w].at \in {"recover", "broken"}
  BY CopyType DEF IInv, RecoverSubmission, Broken, outside, Steps
<1>2. ASSUME NEW rec \in Record, SaveClaimed(w, rec, "release"),
             rec.status \in {"GENERATING", "FAILED"}, Holds(w) => NoNewImage(rec.pages, job.pages)
      PROVE  PlainSave(w)
  <2>1. /\ UNCHANGED <<lease, late, faults, restarts>> /\ Others(w)
        /\ \/ Holds(w) /\ job' = rec /\ worker'[w].at = "release"
           \/ ~Holds(w) /\ job' = job /\ worker'[w].at = "release"
    BY <1>1, <1>2, SaveEffect
  <2>. QED BY <1>1, <1>2, <2>1 DEF PlainSave
<1>3. CASE RecoverSubmission(w)
  <2>1. SaveClaimed(w, RecoveredSubmission(worker[w].rec), "release")
    BY <1>3 DEF RecoverSubmission
  <2>2. Holds(w) => worker[w].rec = job
    BY <1>3, Known DEF RecoverSubmission, Acting
  <2>. QED BY <1>1, <1>2, <2>1, <2>2, RecordOps, RecoveryCompletesNoPage
<1>4. CASE Broken(w)
  <2>1. CASE job.status = "SUBMITTING_IMAGES"
    <3>1. SaveClaimed(w, RecoveredSubmission(job), "release")
      BY <1>4, <2>1 DEF Broken
    <3>. QED BY <1>1, <1>2, <3>1, RecordOps, RecoveryCompletesNoPage
  <2>2. CASE job.status # "SUBMITTING_IMAGES" /\ job.status \in Active
    <3>1. SaveClaimed(w, Failed(job), "release")
      BY <1>4, <2>2 DEF Broken
    <3>2. Failed(job) \in Record /\ Failed(job).status = "FAILED" /\ Failed(job).pages = job.pages
      BY <1>1, RecordOps, RecordFields
    <3>. QED BY <1>2, <3>1, <3>2 DEF NoNewImage
  <2>3. CASE job.status \notin Active
    <3>1. Leave(w) /\ UNCHANGED <<job, lease, late>>
      BY <1>4, <2>3 DEF Broken, Active
    <3>2. [Idle EXCEPT !.at = "release"].at = "release"
      BY IdleType DEF WorkerState
    <3>3. Others(w) /\ worker'[w].at = "release"
      BY <1>1, <3>1, <3>2 DEF Leave, Others, TypeOK
    <3>. QED BY <1>1, <3>1, <3>3 DEF PlainSave
  <2>. QED BY <2>1, <2>2, <2>3
<1>. QED BY <1>3, <1>4

-----------------------------------------------------------------------------
LEMMA PlainSaveKeeps ==
  ASSUME IInv, KeptInv, EndIsKept, NEW w \in Workers, PlainSave(w)
  PROVE  KeptInv'
<1>1. UNCHANGED <<lease, store>> /\ Others(w)
  BY DEF PlainSave
<1>2. CASE job' = job /\ worker'[w].at = "release"
  <2>1. \A v \in Workers : Acting(v)' => v # w /\ Acting(v) /\ worker'[v] = worker[v]
    BY <1>1, <1>2 DEF Acting, Holds, Others
  <2>2. RemovedLate'
    BY <1>1, <1>2 DEF KeptInv, RemovedLate, Others
  <2>3. \A v \in Workers : Whole(v)'
    BY <1>1, <1>2, <2>1 DEF KeptInv, Whole, ImagesIn, AllDone
  <2>. QED BY <1>1, <1>2, <2>2, <2>3 DEF KeptInv, DownloadReady, ImagesIn
<1>3. CASE ~(job' = job /\ worker'[w].at = "release")
  <2>1. /\ Holds(w) /\ worker[w].at \notin {"idle", "release"}
        /\ job'.status \notin {"COMPLETED", "EXPIRED"}
        /\ \/ NoNewImage(job'.pages, job.pages)
           \/ worker[w].at = "progress" /\ NoNewImage(job'.pages, worker[w].rec.pages)
        /\ \/ worker'[w].at \in {"release", "model", "preflight", "page", "call"}
           \/ worker'[w].at = "preview" /\ AllDone(job'.pages)
    BY <1>3 DEF PlainSave
  <2>2. job.status # "EXPIRED"
    BY <2>1 DEF EndIsKept
  <2>3. \A v \in Workers \ {w} : ~Acting(v)' /\ worker'[v] = worker[v]
    BY <1>1, <2>1 DEF Acting, Holds, Others
  <2>4. RemovedLate'
    BY <2>1, <2>2, <2>3 DEF KeptInv, RemovedLate
  <2>5. ImagesIn(job.pages)'
    <3>1. ImagesIn(job.pages)
      BY <2>2 DEF KeptInv
    <3>2. worker[w].at = "progress" => ImagesIn(worker[w].rec.pages)
      BY <2>1 DEF KeptInv, Whole, Acting
    <3>. QED BY <1>1, <2>1, <3>1, <3>2 DEF ImagesIn, NoNewImage
  <2>6. Whole(w)'
    BY <2>1 DEF Whole, AllDone
  <2>7. \A v \in Workers : Whole(v)'
    BY <2>3, <2>6 DEF Whole
  <2>. QED BY <2>1, <2>4, <2>5, <2>7 DEF KeptInv, DownloadReady
<1>. QED BY <1>2, <1>3

\* A step of a worker that saves nothing and removes nothing.
LEMMA TurnKeeps ==
  ASSUME KeptInv, NEW w \in Workers, Others(w), job' = job, store \subseteq store',
         \A v \in Workers \ {w} : Holds(v)' => Holds(v),
         worker'[w].at \in {"remove", "settle"} => worker[w].at \in {"remove", "settle"},
         worker'[w].at \in {"progress", "preview", "pptx", "deliver"} => Whole(w)'
  PROVE  KeptInv'
<1>1. \A v \in Workers \ {w} : worker'[v] = worker[v] /\ (Acting(v)' => Acting(v))
  BY DEF Others, Acting
<1>2. RemovedLate'
  BY <1>1 DEF KeptInv, RemovedLate
<1>3. \A v \in Workers : Whole(v)'
  BY <1>1 DEF KeptInv, Whole, ImagesIn, AllDone
<1>. QED BY <1>2, <1>3 DEF KeptInv, DownloadReady, ImagesIn

LEMMA BesideKeeps ==
  ASSUME KeptInv, UNCHANGED <<job, worker, store>>, \A v \in Workers : Holds(v)' => Holds(v)
  PROVE  KeptInv'
<1>1. \A v \in Workers : Acting(v)' => Acting(v)
  BY DEF Acting
<1>. QED BY <1>1 DEF KeptInv, RemovedLate, DownloadReady, Whole, ImagesIn, AllDone

LEMMA InspectKeeps ==
  ASSUME IInv, KeptInv, NEW w \in Workers, Inspect(w) PROVE KeptInv'
<1>. DEFINE old == worker[w].rec.pages
<1>0. /\ TypeOK /\ worker[w] \in WorkerState /\ worker[w].rec \in Record /\ old \in [Pages -> Page]
  BY CopyType DEF IInv, Record
<1>1. PICK heard \in SUBSET Pages, seen \in SUBSET Pages :
       LET known == [p \in Pages |-> IF p \in heard /\ NeedsLookup(old[p])
                                     THEN LookedUp(old[p], gateway[p]) ELSE old[p]]
           polled == {p \in seen : Pollable(known[p])}
           new == [p \in Pages |-> IF p \in polled THEN Inspected(known[p], gateway[p]) ELSE known[p]]
           stored == {p \in polled : gateway[p] = "done"}
       IN /\ store' = store \cup stored
          /\ \/ /\ worker' = [worker EXCEPT ![w].at = "progress", ![w].rec.pages = new]
                /\ UNCHANGED faults
             \/ /\ stored # {} /\ faults < MaxFaults
                /\ faults' = faults + 1
                /\ Enter(w, "broken")
  BY DEF Inspect
<1>. DEFINE known == [p \in Pages |-> IF p \in heard /\ NeedsLookup(old[p])
                                      THEN LookedUp(old[p], gateway[p]) ELSE old[p]]
            polled == {p \in seen : Pollable(known[p])}
            new == [p \in Pages |-> IF p \in polled THEN Inspected(known[p], gateway[p]) ELSE known[p]]
            stored == {p \in polled : gateway[p] = "done"}
<1>2. worker[w].at = "inspect" /\ UNCHANGED <<job, lease>> /\ store' = store \cup stored
  BY <1>1 DEF Inspect
<1>3. known \in [Pages -> Page]
  BY <1>0, PageOps
<1>4. \A p \in Pages : known[p].st = "COMPLETED" => old[p].st = "COMPLETED"
  BY <1>0, NoPageCompletes
<1>5. \A p \in Pages : new[p].st = "COMPLETED" => p \in stored \/ old[p].st = "COMPLETED"
  <2>1. \A p \in polled : gateway[p] = "done" => p \in stored
    OBVIOUS
  <2>. HIDE DEF known, polled, stored
  <2>. QED BY <1>3, <1>4, <2>1, NoPageCompletes
<1>6. new \in [Pages -> Page]
  <2>. HIDE DEF known, polled
  <2>. QED BY <1>3, PageOps
<1>. HIDE DEF new, stored
<1>7. CASE worker' = [worker EXCEPT ![w].at = "progress", ![w].rec.pages = new]
  <2>1. Others(w) /\ worker'[w].at = "progress" /\ worker'[w].rec.pages = new
    BY <1>0, <1>6, <1>7 DEF TypeOK, WorkerState, Record, Others
  <2>2. ASSUME Acting(w)' PROVE \A p \in Pages : old[p].st = "COMPLETED" => p \in store
    <3>1. Acting(w)
      BY <1>2, <2>2 DEF Acting, Holds
    <3>2. worker[w].rec = job /\ job.status # "EXPIRED"
      BY <1>2, <3>1, Known DEF StatusesAt
    <3>. QED BY <3>2 DEF KeptInv, ImagesIn
  <2>3. Whole(w)'
    BY <1>2, <1>5, <2>1, <2>2 DEF Whole, ImagesIn
  <2>. QED BY <1>2, <2>1, <2>3, TurnKeeps DEF Holds
<1>8. CASE Enter(w, "broken")
  <2>1. Others(w) /\ worker'[w].at = "broken"
    BY <1>0, <1>8 DEF Enter, TypeOK, WorkerState, Others
  <2>. QED BY <1>2, <2>1, TurnKeeps DEF Holds
<1>. QED BY <1>1, <1>7, <1>8 DEF new, stored

LEMMA PutKeeps ==
  ASSUME IInv, KeptInv, NEW w \in Workers, PutPreview(w) \/ PutPptx(w) PROVE KeptInv'
<1>0. worker \in [Workers -> WorkerState] /\ worker[w] \in WorkerState
  BY DEF IInv, TypeOK
<1>1. CASE PutPreview(w)
  <2>1. /\ worker[w].at = "preview" /\ store' = store \cup {Preview} /\ UNCHANGED <<job, lease>>
        /\ Others(w) /\ worker'[w].at = "pptx"
    BY <1>0, <1>1 DEF PutPreview, Enter, WorkerState, Others
  <2>2. Whole(w)'
    BY <2>1 DEF KeptInv, Whole, Acting, Holds, AllDone
  <2>. QED BY <2>1, <2>2, TurnKeeps DEF Holds
<1>2. CASE PutPptx(w)
  <2>1. /\ worker[w].at = "pptx" /\ store' = store \cup {Pptx} /\ UNCHANGED <<job, lease>>
        /\ Others(w) /\ worker'[w].at = "deliver"
    BY <1>0, <1>2 DEF PutPptx, Enter, WorkerState, Others
  <2>2. Whole(w)'
    BY <2>1 DEF KeptInv, Whole, Acting, Holds, AllDone
  <2>. QED BY <2>1, <2>2, TurnKeeps DEF Holds
<1>. QED BY <1>1, <1>2

\* Everything of the deck is in the store when it is delivered.
LEMMA DeliverKeeps ==
  ASSUME IInv, KeptInv, EndIsKept, NEW w \in Workers, Deliver(w) PROVE KeptInv'
<1>. DEFINE old == worker[w].rec
            rec == [old EXCEPT !.status = "COMPLETED", !.due = FALSE, !.out = Deck]
<1>1. /\ worker[w].at = "deliver" /\ SaveClaimed(w, rec, "release") /\ UNCHANGED store
      /\ TypeOK /\ "release" \in Steps
  BY DEF Deliver, outside, IInv, Steps
<1>2. rec \in Record /\ rec.status = "COMPLETED" /\ rec.pages = old.pages /\ rec.out = Deck
  BY CopyType DEF IInv, Record
<1>. HIDE DEF rec
<1>3. /\ UNCHANGED <<lease, late, faults, restarts>> /\ Others(w)
      /\ \/ Holds(w) /\ job' = rec /\ worker'[w].at = "release"
         \/ ~Holds(w) /\ job' = job /\ worker'[w].at = "release"
  BY <1>1, <1>2, SaveEffect
<1>4. CASE Holds(w)
  <2>1. Acting(w) /\ old = job /\ job.status = "PACKAGING" /\ job' = rec /\ worker'[w].at = "release"
    BY <1>1, <1>3, <1>4, Known DEF Acting, StatusesAt
  <2>2. AllDone(job.pages) /\ Deck \subseteq store /\ Pages \subseteq store
    BY <1>1, <2>1 DEF KeptInv, Whole, AllDone, ImagesIn, Deck
  <2>3. \A v \in Workers \ {w} : ~Acting(v)' /\ worker'[v] = worker[v]
    BY <1>3, <1>4 DEF Acting, Holds, Others
  <2>4. RemovedLate'
    BY <2>1, <2>3 DEF KeptInv, RemovedLate
  <2>5. \A v \in Workers : Whole(v)'
    BY <2>1, <2>3 DEF Whole, Acting
  <2>. QED BY <1>1, <1>2, <2>1, <2>2, <2>4, <2>5 DEF KeptInv, DownloadReady, AllDone, ImagesIn
<1>5. CASE ~Holds(w)
  <2>1. PlainSave(w)
    BY <1>1, <1>3, <1>5 DEF PlainSave
  <2>. QED BY <2>1, PlainSaveKeeps
<1>. QED BY <1>4, <1>5

\* What the two saves of an expiry record.
LEMMA ExpiredRecord ==
  ASSUME IInv, NEW w \in Workers, SaveExpired(w)
  PROVE  /\ worker[w].at = "expire" /\ UNCHANGED outside
         /\ \E rec \in Record :
              /\ SaveClaimed(w, rec, "remove") /\ rec.status = "EXPIRED"
              /\ rec.cleanup = (worker[w].missed \/ (worker[w].todo # {} /\ worker[w].open))
<1>. DEFINE cleanup == worker[w].missed \/ (worker[w].todo # {} /\ worker[w].open)
            rec == [worker[w].rec EXCEPT !.status = "EXPIRED", !.due = FALSE,
                                         !.cleanup = cleanup, !.window = cleanup]
<1>1. worker[w].at = "expire" /\ SaveClaimed(w, rec, "remove") /\ UNCHANGED outside
  BY DEF SaveExpired
<1>2. cleanup \in BOOLEAN
  BY CopyType DEF IInv, WorkerState
<1>. HIDE DEF cleanup
<1>3. rec \in Record /\ rec.status = "EXPIRED" /\ rec.cleanup = cleanup
  BY <1>2, CopyType DEF IInv, Record
<1>. HIDE DEF rec
<1>. QED BY <1>1, <1>3 DEF cleanup

LEMMA CleanupRecord ==
  ASSUME IInv, NEW w \in Workers, SaveCleanup(w)
  PROVE  /\ worker[w].at = "settle" /\ UNCHANGED outside
         /\ \E rec \in Record :
              /\ SaveClaimed(w, rec, "release") /\ rec.status = worker[w].rec.status
              /\ rec.cleanup = ((worker[w].missed \/ worker[w].todo # {}) /\ worker[w].open)
<1>. DEFINE left == worker[w].todo
            old == worker[w].rec
            pending == worker[w].missed \/ left # {}
            again == pending /\ worker[w].open
            audit == old.audit \/ (pending /\ ~worker[w].open)
            pages == [p \in Pages |-> [old.pages[p] EXCEPT !.art = @ /\ p \in left]]
            out == old.out \cap left
            rec == [old EXCEPT !.pages = pages, !.out = @ \cap left, !.cleanup = again,
                               !.window = again, !.audit = @ \/ (pending /\ ~worker[w].open)]
<1>1. worker[w].at = "settle" /\ SaveClaimed(w, rec, "release") /\ UNCHANGED outside
  BY DEF SaveCleanup
<1>2. old \in Record /\ old.pages \in [Pages -> Page] /\ old.out \subseteq Deck
      /\ old.audit \in BOOLEAN /\ worker[w].open \in BOOLEAN /\ worker[w].missed \in BOOLEAN
  BY CopyType DEF IInv, Record, WorkerState
<1>3. again \in BOOLEAN /\ audit \in BOOLEAN /\ out \in SUBSET Deck
  BY <1>2
<1>4. pages \in [Pages -> Page]
  <2>1. \A q \in Page, b \in BOOLEAN : [q EXCEPT !.art = b] \in Page
    BY DEF Page
  <2>2. \A p \in Pages : (old.pages[p].art /\ p \in left) \in BOOLEAN
    OBVIOUS
  <2>. QED BY <1>2, <2>1, <2>2
<1>5. rec \in Record /\ rec.status = old.status /\ rec.cleanup = again
  <2>. HIDE DEF again, pages
  <2>. QED BY <1>2, <1>3, <1>4 DEF Record
<1>. HIDE DEF rec
<1>. QED BY <1>1, <1>5

\* An expiry that saves: nothing is promised of the job any more.
LEMMA ExpirySaveKeeps ==
  ASSUME IInv, KeptInv, NEW w \in Workers, SaveExpired(w) \/ SaveCleanup(w) PROVE KeptInv'
<1>1. PICK rec \in Record, step \in {"remove", "release"} :
        /\ SaveClaimed(w, rec, step) /\ UNCHANGED store
        /\ Holds(w) => rec.status = "EXPIRED"
  <2>1. CASE SaveExpired(w)
    BY <2>1, ExpiredRecord DEF outside
  <2>2. CASE SaveCleanup(w)
    <3>1. Holds(w) => worker[w].rec.status = "EXPIRED"
      BY <2>2, Known DEF SaveCleanup, Acting, StatusesAt
    <3>. QED BY <2>2, <3>1, CleanupRecord DEF outside
  <2>. QED BY <2>1, <2>2
<1>2. TypeOK /\ step \in Steps
  BY DEF IInv, Steps, ExpirySteps
<1>3. /\ UNCHANGED <<lease, late, faults, restarts>> /\ Others(w)
      /\ \/ Holds(w) /\ job' = rec /\ worker'[w].at = step
         \/ ~Holds(w) /\ job' = job /\ worker'[w].at = "release"
  BY <1>1, <1>2, SaveEffect
<1>4. CASE Holds(w)
  <2>1. job'.status = "EXPIRED" /\ worker'[w].at \in {"remove", "release"}
    BY <1>1, <1>3, <1>4
  <2>2. \A v \in Workers \ {w} : ~Acting(v)'
    BY <1>3, <1>4 DEF Acting, Holds
  <2>3. \A v \in Workers : Whole(v)'
    BY <2>1, <2>2 DEF Whole
  <2>. QED BY <2>1, <2>3 DEF KeptInv, RemovedLate, DownloadReady
<1>5. CASE ~Holds(w)
  BY <1>1, <1>3, <1>5, TurnKeeps DEF Holds
<1>. QED BY <1>4, <1>5

\* What a survey leaves behind.
LEMMA Surveyed ==
  ASSUME IInv, NEW w \in Workers, Survey(w)
  PROVE  /\ worker[w].at = "survey" /\ UNCHANGED <<job, lease, late>> /\ Others(w)
         /\ worker'[w].at = "expire" /\ worker'[w].open = worker[w].open
         /\ store \subseteq store' /\ store' \subseteq store \cup Pages
         /\ worker[w].open /\ ~worker'[w].missed => Deck \cap store \subseteq worker'[w].todo
<1>0. /\ TypeOK /\ worker[w] \in WorkerState /\ worker[w].rec \in Record
      /\ worker[w].rec.pages \in [Pages -> Page] /\ worker[w].open \in BOOLEAN
      /\ worker[w].rec.out \in SUBSET Deck /\ worker[w].rec.audit \in BOOLEAN
  BY CopyType DEF IInv, Record, WorkerState
<1>1. PICK heard \in SUBSET Pages, unread \in SUBSET Deck :
       LET rec == worker[w].rec
           open == worker[w].open
           unsure == {p \in Pages : Uncertain(rec.pages[p])}
           answered == {p \in unsure \cap heard : open /\ gateway[p] \in {"done", "refused", "failed"}}
           found == {p \in answered : gateway[p] = "done"}
           deck == (Deck \cap store) \ unread
           missing == unread # {} \/ unsure \ answered # {}
           new == [rec EXCEPT
             !.pages = [p \in Pages |-> IF p \in answered THEN Settled(@[p], gateway[p]) ELSE @[p]],
             !.out = @ \cup deck,
             !.audit = @ \/ (~open /\ missing)]
       IN /\ faults + Cardinality(unread) <= MaxFaults
          /\ faults' = faults + Cardinality(unread)
          /\ store' = store \cup found
          /\ worker' = [worker EXCEPT
               ![w].at = "expire", ![w].rec = new, ![w].missed = open /\ missing,
               ![w].todo = {p \in Pages : new.pages[p].art} \cup new.out]
  BY DEF Survey
<1>. DEFINE rec == worker[w].rec
            open == worker[w].open
            unsure == {p \in Pages : Uncertain(rec.pages[p])}
            answered == {p \in unsure \cap heard : open /\ gateway[p] \in {"done", "refused", "failed"}}
            found == {p \in answered : gateway[p] = "done"}
            deck == (Deck \cap store) \ unread
            missing == unread # {} \/ unsure \ answered # {}
            new == [rec EXCEPT
             !.pages = [p \in Pages |-> IF p \in answered THEN Settled(@[p], gateway[p]) ELSE @[p]],
             !.out = @ \cup deck,
             !.audit = @ \/ (~open /\ missing)]
            todo == {p \in Pages : new.pages[p].art} \cup new.out
            missed == open /\ missing
<1>2. worker[w].at = "survey" /\ UNCHANGED <<job, lease, late>>
  BY DEF Survey
<1>3. found \subseteq Pages /\ (missed = FALSE /\ open => unread = {})
  OBVIOUS
<1>4. new.out = rec.out \cup deck
  <2>. HIDE DEF answered, missing
  <2>. QED BY <1>0 DEF Record
<1>5. Deck \cap store \subseteq todo \cup unread
  <2>. HIDE DEF new
  <2>. QED BY <1>4
<1>6. /\ store' = store \cup found
      /\ worker' = [worker EXCEPT ![w].at = "expire", ![w].rec = new,
                                  ![w].missed = missed, ![w].todo = todo]
  BY <1>1
<1>7. missed \in BOOLEAN
  OBVIOUS
<1>. HIDE DEF new, missed, todo, found
<1>8. /\ Others(w) /\ worker'[w].at = "expire" /\ worker'[w].open = worker[w].open
      /\ worker'[w].missed = missed /\ worker'[w].todo = todo
  BY <1>0, <1>6 DEF TypeOK, WorkerState, Others
<1>. QED BY <1>2, <1>3, <1>5, <1>6, <1>7, <1>8

\* The other steps of a worker.
LEMMA TurnsKeep ==
  ASSUME IInv, KeptInv, NEW w \in Workers,
         \/ ClaimRunnable(w) \/ ClaimExpired(w) \/ ReleaseClaim(w) \/ Submit(w)
         \/ Survey(w) \/ RemovalDone(w) \/ SaveThrows(w)
  PROVE  KeptInv'
<1>0. worker \in [Workers -> WorkerState] /\ worker[w] \in WorkerState
  BY DEF IInv, TypeOK
<1>1. CASE ClaimRunnable(w) \/ ClaimExpired(w)
  <2>1. /\ UNCHANGED <<job, store>> /\ Others(w) /\ lease' = [holder |-> w, live |-> TRUE]
        /\ worker'[w].at \in {"plan", "interrupted", "recover", "inspect", "survey"}
    BY <1>0, <1>1 DEF ClaimRunnable, ClaimExpired, FirstStep, outside, WorkerState, Others
  <2>. QED BY <2>1, TurnKeeps DEF Holds
<1>2. CASE ReleaseClaim(w)
  <2>1. /\ UNCHANGED <<job, store>> /\ Others(w) /\ worker'[w].at = "idle"
        /\ lease' = lease \/ lease' = [holder |-> "none", live |-> FALSE]
    BY <1>0, <1>2 DEF ReleaseClaim, outside, Idle, Others
  <2>. QED BY <2>1, TurnKeeps DEF Holds
<1>3. CASE Submit(w)
  <2>1. UNCHANGED <<job, store, lease>> /\ Others(w) /\ worker'[w].at = "await"
    BY <1>0, <1>3 DEF Submit, Enter, WorkerState, Others
  <2>. QED BY <2>1, TurnKeeps DEF Holds
<1>4. CASE Survey(w)
  <2>1. UNCHANGED <<job, lease>> /\ store \subseteq store' /\ Others(w) /\ worker'[w].at = "expire"
    BY <1>0, <1>4, Surveyed
  <2>. QED BY <2>1, TurnKeeps DEF Holds
<1>5. CASE RemovalDone(w)
  <2>1. /\ UNCHANGED <<job, store, lease>> /\ Others(w) /\ worker'[w].at = "settle"
        /\ worker[w].at = "remove"
    BY <1>0, <1>5 DEF RemovalDone, outside, WorkerState, Others
  <2>. QED BY <2>1, TurnKeeps DEF Holds
<1>6. CASE SaveThrows(w)
  <2>1. /\ [Idle EXCEPT !.at = "release"].at = "release"
        /\ [Idle EXCEPT !.at = "broken"].at = "broken"
    BY IdleType DEF WorkerState
  <2>2. UNCHANGED <<job, store, lease>> /\ Others(w) /\ worker'[w].at \in {"release", "broken"}
    BY <1>0, <1>6, <2>1 DEF SaveThrows, Leave, outside, Others
  <2>. QED BY <2>2, TurnKeeps DEF Holds
<1>. QED BY <1>1, <1>2, <1>3, <1>4, <1>5, <1>6

LEMMA RemoveKeeps ==
  ASSUME IInv, KeptInv, NEW w \in Workers, Remove(w) PROVE KeptInv'
<1>1. UNCHANGED <<job, lease, worker>> /\ job.status = "EXPIRED"
  BY DEF Remove, KeptInv, RemovedLate
<1>2. \A v \in Workers : Acting(v)' =>
        worker[v].at \notin {"progress", "preview", "pptx", "deliver"}
  BY <1>1, Known DEF Acting, Holds, StatusesAt
<1>. QED BY <1>1, <1>2 DEF KeptInv, RemovedLate, DownloadReady, Whole

LEMMA RestartKeeps ==
  ASSUME IInv, KeptInv, Restart PROVE KeptInv'
<1>1. /\ worker' = [w \in Workers |-> Idle] /\ job' = Recovered(job) /\ store' = store
  BY DEF Restart, outside
<1>2. \A w \in Workers : worker'[w].at = "idle"
  BY <1>1 DEF Idle
<1>3. job \in Record
  BY DEF IInv, TypeOK
<1>4. /\ NoNewImage(job'.pages, job.pages)
      /\ job' = job \/ job'.status \in {"GENERATING", "FAILED", "PACKAGING"}
      /\ job.status = "EXPIRED" => job' = job
  BY <1>1, <1>3, RecoveryCompletesNoPage DEF Recovered
<1>5. RemovedLate' /\ \A w \in Workers : Whole(w)'
  BY <1>2 DEF RemovedLate, Whole, Acting
<1>6. (job.status # "EXPIRED" => ImagesIn(job.pages))'
  BY <1>1, <1>4 DEF KeptInv, ImagesIn, NoNewImage
<1>7. DownloadReady'
  BY <1>1, <1>4 DEF KeptInv, DownloadReady
<1>. QED BY <1>5, <1>6, <1>7 DEF KeptInv

LEMMA KeptStep ==
  ASSUME IInv, KeptInv, [Next]_vars PROVE KeptInv'
<1>0. EndIsKept
  BY NextStep DEF SoundStep
<1>1. ASSUME NEW w \in Workers, PlanAndSubmit(w) PROVE KeptInv'
  BY <1>0, <1>1, PlanningIsPlain, PlainSaveKeeps, TurnsKeep
<1>2. ASSUME NEW w \in Workers, InspectAndPackage(w) PROVE KeptInv'
  BY <1>0, <1>2, PollingIsPlain, PlainSaveKeeps, InspectKeeps, PutKeeps, DeliverKeeps
     DEF InspectAndPackage
<1>3. ASSUME NEW w \in Workers, Expire(w) PROVE KeptInv'
  BY <1>3, TurnsKeep, ExpirySaveKeeps, RemoveKeeps DEF Expire
<1>4. ASSUME NEW w \in Workers, Work(w) \/ SaveThrows(w) PROVE KeptInv'
  BY <1>0, <1>1, <1>2, <1>3, <1>4, PollingIsPlain, RecoveryIsPlain, PlainSaveKeeps, TurnsKeep DEF Work
<1>5. CASE (\E p \in Pages : GatewayStep(p)) \/ ClaimRunsOut \/ Expires \/ DrainPasses \/ CleanupPasses
  <2>1. UNCHANGED <<job, worker, store>> /\ (lease' = lease \/ lease' = [lease EXCEPT !.live = FALSE])
    BY <1>5 DEF GatewayStep, ClaimRunsOut, Expires, DrainPasses, CleanupPasses, outside
  <2>2. lease \in [holder: Workers \cup {"none"}, live: BOOLEAN]
    BY DEF IInv, TypeOK
  <2>3. \A v \in Workers : Holds(v)' => Holds(v)
    BY <2>1, <2>2 DEF Holds
  <2>. QED BY <2>1, <2>3, BesideKeeps
<1>6. CASE UNCHANGED vars
  BY <1>6, BesideKeeps DEF vars, Holds
<1>7. CASE Next
  BY <1>4, <1>5, <1>7, RestartKeeps DEF Next
<1>. QED BY <1>6, <1>7

-----------------------------------------------------------------------------
\* Nobody works on a job that has expired but to clean it up.
OnlyCleaned ==
  job.status = "EXPIRED" => \A w \in Workers : worker[w].at \in {"idle", "release"} \cup ExpirySteps
\* Within the window a cleanup that knows everything has the deck on its list.
DeckIsListed ==
  \A w \in Workers :
    /\ worker[w].at \in ExpirySteps => worker[w].open \/ "cleanup" \in late
    /\ worker[w].at \in {"expire", "remove", "settle"} /\ worker[w].open /\ ~worker[w].missed =>
         Deck \cap store \subseteq worker[w].todo
GoneInv == OnlyCleaned /\ DeckIsListed /\ DeckIsGone

LEMMA PagesAreNoDeck == Deck \cap Pages = {}
BY QuickDeckAssumption DEF Deck, Preview, Pptx, Pages

\* A step after which the only worker is not cleaning up, and the job is as it was or
\* has not expired.
LEMMA AsideKeepsGone ==
  ASSUME GoneInv, NEW w, Workers = {w}, late' = late, worker'[w].at \notin ExpirySteps,
         \/ job'.status # "EXPIRED"
         \/ job' = job /\ store' = store /\ worker'[w].at \in {"idle", "release"}
  PROVE  GoneInv'
<1>1. OnlyCleaned' /\ DeckIsListed'
  BY DEF OnlyCleaned, DeckIsListed, ExpirySteps
<1>2. DeckIsGone'
  BY DEF GoneInv, DeckIsGone
<1>. QED BY <1>1, <1>2 DEF GoneInv

LEMMA PlainSaveKeepsGone ==
  ASSUME GoneInv, NEW w, Workers = {w}, PlainSave(w) PROVE GoneInv'
BY AsideKeepsGone DEF PlainSave, ExpirySteps

\* The saves of the delivery and of an expiry.
LEMMA EndSavesKeepGone ==
  ASSUME IInv, GoneInv, NEW w, Workers = {w}, Deliver(w) \/ SaveExpired(w) \/ SaveCleanup(w)
  PROVE  GoneInv'
<1>0. TypeOK /\ w \in Workers /\ {"release", "remove"} \subseteq Steps
  BY DEF IInv, Steps, ExpirySteps
<1>1. CASE Deliver(w)
  <2>. DEFINE rec == [worker[w].rec EXCEPT !.status = "COMPLETED", !.due = FALSE, !.out = Deck]
  <2>1. SaveClaimed(w, rec, "release") /\ UNCHANGED store
    BY <1>1 DEF Deliver, outside
  <2>2. rec \in Record /\ rec.status = "COMPLETED"
    BY <1>0, CopyType DEF Record
  <2>. HIDE DEF rec
  <2>3. late' = late /\ worker'[w].at = "release" /\ (job' = rec \/ job' = job)
    BY <1>0, <2>1, <2>2, SaveEffect
  <2>. QED BY <2>1, <2>2, <2>3, AsideKeepsGone DEF ExpirySteps
<1>2. CASE SaveExpired(w)
  <2>1. PICK rec \in Record :
          /\ SaveClaimed(w, rec, "remove") /\ rec.status = "EXPIRED"
          /\ rec.cleanup = (worker[w].missed \/ (worker[w].todo # {} /\ worker[w].open))
    BY <1>0, <1>2, ExpiredRecord
  <2>2. worker[w].at = "expire" /\ UNCHANGED store
    BY <1>2 DEF SaveExpired, outside
  <2>3. /\ late' = late
        /\ \/ Holds(w) /\ job' = rec /\ worker'[w].at = "remove"
           \/ ~Holds(w) /\ job' = job /\ worker'[w].at = "release"
    BY <1>0, <2>1, SaveEffect
  <2>4. CASE Holds(w)
    <3>1. worker' = [worker EXCEPT ![w].at = "remove", ![w].rec = rec]
      BY <2>1, <2>4 DEF SaveClaimed
    <3>2. /\ worker'[w].open = worker[w].open /\ worker'[w].missed = worker[w].missed
          /\ worker'[w].todo = worker[w].todo
      BY <1>0, <3>1 DEF TypeOK, WorkerState
    <3>3. /\ worker[w].open \/ "cleanup" \in late
          /\ worker[w].open /\ ~worker[w].missed => Deck \cap store \subseteq worker[w].todo
      BY <1>0, <2>2 DEF GoneInv, DeckIsListed, ExpirySteps
    <3>4. OnlyCleaned' /\ DeckIsListed'
      BY <2>2, <2>3, <2>4, <3>2, <3>3 DEF OnlyCleaned, DeckIsListed, ExpirySteps
    <3>5. DeckIsGone'
      BY <2>1, <2>2, <2>3, <2>4, <3>3 DEF DeckIsGone
    <3>. QED BY <3>4, <3>5 DEF GoneInv
  <2>5. CASE ~Holds(w)
    BY <2>2, <2>3, <2>5, AsideKeepsGone DEF ExpirySteps
  <2>. QED BY <2>4, <2>5
<1>3. CASE SaveCleanup(w)
  <2>1. PICK rec \in Record :
          /\ SaveClaimed(w, rec, "release") /\ rec.status = worker[w].rec.status
          /\ rec.cleanup = ((worker[w].missed \/ worker[w].todo # {}) /\ worker[w].open)
    BY <1>0, <1>3, CleanupRecord
  <2>2. worker[w].at = "settle" /\ UNCHANGED store
    BY <1>3 DEF SaveCleanup, outside
  <2>3. /\ late' = late /\ worker'[w].at = "release"
        /\ \/ Holds(w) /\ job' = rec
           \/ ~Holds(w) /\ job' = job
    BY <1>0, <2>1, SaveEffect
  <2>4. /\ worker[w].open \/ "cleanup" \in late
        /\ worker[w].open /\ ~worker[w].missed => Deck \cap store \subseteq worker[w].todo
    BY <1>0, <2>2 DEF GoneInv, DeckIsListed, ExpirySteps
  <2>5. OnlyCleaned' /\ DeckIsListed'
    BY <2>3 DEF OnlyCleaned, DeckIsListed, ExpirySteps
  <2>6. DeckIsGone'
    BY <2>1, <2>2, <2>3, <2>4 DEF GoneInv, DeckIsGone
  <2>. QED BY <2>5, <2>6 DEF GoneInv
<1>. QED BY <1>1, <1>2, <1>3

\* The steps of a cleanup between its saves.
LEMMA CleanupStepsKeepGone ==
  ASSUME IInv, GoneInv, NEW w, Workers = {w},
         ClaimExpired(w) \/ Survey(w) \/ Remove(w) \/ RemovalDone(w)
  PROVE  GoneInv'
<1>0. w \in Workers /\ worker \in [Workers -> WorkerState] /\ worker[w] \in WorkerState
  BY DEF IInv, TypeOK
<1>1. CASE ClaimExpired(w)
  <2>1. /\ UNCHANGED <<job, store, late>> /\ worker'[w].at = "survey"
        /\ worker'[w].open \/ "cleanup" \in late
    BY <1>0, <1>1 DEF ClaimExpired, outside, WorkerState
  <2>. QED BY <2>1 DEF GoneInv, OnlyCleaned, DeckIsListed, DeckIsGone, ExpirySteps
<1>2. CASE Survey(w)
  <2>1. /\ worker[w].at = "survey" /\ UNCHANGED <<job, late>>
        /\ worker'[w].at = "expire" /\ worker'[w].open = worker[w].open
        /\ store \subseteq store' /\ store' \subseteq store \cup Pages
        /\ worker[w].open /\ ~worker'[w].missed => Deck \cap store \subseteq worker'[w].todo
    BY <1>0, <1>2, Surveyed
  <2>2. Deck \cap store' = Deck \cap store
    BY <2>1, PagesAreNoDeck
  <2>. QED BY <1>0, <2>1, <2>2 DEF GoneInv, OnlyCleaned, DeckIsListed, DeckIsGone, ExpirySteps
<1>3. CASE Remove(w)
  <2>1. UNCHANGED <<job, worker, late>> /\ store' \subseteq store
    BY <1>3 DEF Remove
  <2>. QED BY <2>1 DEF GoneInv, OnlyCleaned, DeckIsListed, DeckIsGone
<1>4. CASE RemovalDone(w)
  <2>1. /\ UNCHANGED <<job, store, late>> /\ worker[w].at = "remove"
        /\ worker'[w].at = "settle" /\ worker'[w].open = worker[w].open
        /\ worker'[w].missed = worker[w].missed /\ worker'[w].todo = worker[w].todo \cap store
    BY <1>0, <1>4 DEF RemovalDone, outside, WorkerState
  <2>. QED BY <1>0, <2>1 DEF GoneInv, OnlyCleaned, DeckIsListed, DeckIsGone, ExpirySteps
<1>. QED BY <1>1, <1>2, <1>3, <1>4

LEMMA InspectGoesOn ==
  ASSUME IInv, NEW w \in Workers, Inspect(w)
  PROVE  worker'[w].at \in {"progress", "broken"}
<1>0. worker \in [Workers -> WorkerState] /\ worker[w] \in WorkerState
  BY DEF IInv, TypeOK
<1>1. \/ \E new : worker' = [worker EXCEPT ![w].at = "progress", ![w].rec.pages = new]
      \/ Enter(w, "broken")
  BY DEF Inspect
<1>2. ASSUME NEW new, worker' = [worker EXCEPT ![w].at = "progress", ![w].rec.pages = new]
      PROVE  worker'[w].at = "progress"
  BY <1>0, <1>2 DEF WorkerState
<1>3. Enter(w, "broken") => worker'[w].at = "broken"
  BY <1>0 DEF Enter, WorkerState
<1>. QED BY <1>1, <1>2, <1>3

\* What the worker does else, it does before the job expires or without touching the deck.
LEMMA TurnsKeepGone ==
  ASSUME IInv, GoneInv, NEW w, Workers = {w},
         \/ ClaimRunnable(w) \/ ReleaseClaim(w) \/ Submit(w) \/ Inspect(w)
         \/ PutPreview(w) \/ PutPptx(w) \/ SaveThrows(w)
  PROVE  GoneInv'
<1>0. w \in Workers /\ worker \in [Workers -> WorkerState] /\ worker[w] \in WorkerState
  BY DEF IInv, TypeOK
<1>1. CASE ClaimRunnable(w)
  <2>1. /\ job' = job /\ late' = late /\ job.status # "EXPIRED"
        /\ worker'[w].at \in {"plan", "interrupted", "recover", "inspect"}
    BY <1>0, <1>1 DEF ClaimRunnable, FirstStep, Active, WorkerState
  <2>. QED BY <2>1, AsideKeepsGone DEF ExpirySteps
<1>2. CASE ReleaseClaim(w)
  <2>1. UNCHANGED <<job, store, late>> /\ worker'[w].at = "idle"
    BY <1>0, <1>2 DEF ReleaseClaim, outside, Idle
  <2>. QED BY <2>1, AsideKeepsGone DEF ExpirySteps
<1>3. CASE Submit(w) \/ PutPreview(w) \/ PutPptx(w)
  <2>1. /\ job' = job /\ late' = late /\ worker[w].at \in {"call", "preview", "pptx"}
        /\ worker'[w].at \in {"await", "pptx", "deliver"}
    BY <1>0, <1>3 DEF Submit, PutPreview, PutPptx, Enter, WorkerState
  <2>2. job.status # "EXPIRED"
    BY <1>0, <2>1 DEF GoneInv, OnlyCleaned, ExpirySteps
  <2>. QED BY <2>1, <2>2, AsideKeepsGone DEF ExpirySteps
<1>4. CASE Inspect(w)
  <2>1. job' = job /\ late' = late /\ worker[w].at = "inspect"
    BY <1>4 DEF Inspect
  <2>2. worker'[w].at \in {"progress", "broken"}
    BY <1>0, <1>4, InspectGoesOn
  <2>3. job.status # "EXPIRED"
    BY <1>0, <2>1 DEF GoneInv, OnlyCleaned, ExpirySteps
  <2>. QED BY <2>1, <2>2, <2>3, AsideKeepsGone DEF ExpirySteps
<1>5. CASE SaveThrows(w)
  <2>1. /\ [Idle EXCEPT !.at = "release"].at = "release"
        /\ [Idle EXCEPT !.at = "broken"].at = "broken"
    BY IdleType DEF WorkerState
  <2>2. /\ UNCHANGED <<job, store, late>>
        /\ \/ worker'[w].at = "release"
           \/ worker'[w].at = "broken" /\ worker[w].at \notin {"idle", "release"} \cup ExpirySteps
    BY <1>0, <1>5, <2>1 DEF SaveThrows, Leave, outside
  <2>3. worker'[w].at = "release" \/ job.status # "EXPIRED"
    BY <1>0, <2>2 DEF GoneInv, OnlyCleaned
  <2>. QED BY <2>2, <2>3, AsideKeepsGone DEF ExpirySteps
<1>. QED BY <1>1, <1>2, <1>3, <1>4, <1>5

LEMMA RestartKeepsGone ==
  ASSUME IInv, GoneInv, Restart PROVE GoneInv'
<1>1. /\ worker' = [w \in Workers |-> Idle] /\ job' = Recovered(job) /\ UNCHANGED <<store, late>>
  BY DEF Restart, outside
<1>2. \A w \in Workers : worker'[w].at = "idle"
  BY <1>1 DEF Idle
<1>3. job' = job \/ job'.status # "EXPIRED"
  BY <1>1, RecoveryCompletesNoPage DEF IInv, TypeOK
<1>4. OnlyCleaned' /\ DeckIsListed'
  BY <1>2 DEF OnlyCleaned, DeckIsListed, ExpirySteps
<1>5. DeckIsGone'
  BY <1>1, <1>3 DEF GoneInv, DeckIsGone
<1>. QED BY <1>4, <1>5 DEF GoneInv

LEMMA GoneStep ==
  ASSUME IInv, GoneInv, NEW w, Workers = {w}, [Next]_vars PROVE GoneInv'
<1>0. w \in Workers
  OBVIOUS
<1>1. ASSUME PlanAndSubmit(w) PROVE GoneInv'
  BY <1>0, <1>1, PlanningIsPlain, PlainSaveKeepsGone, TurnsKeepGone
<1>2. ASSUME InspectAndPackage(w) PROVE GoneInv'
  BY <1>0, <1>2, PollingIsPlain, PlainSaveKeepsGone, TurnsKeepGone, EndSavesKeepGone
     DEF InspectAndPackage
<1>3. ASSUME Expire(w) PROVE GoneInv'
  BY <1>3, EndSavesKeepGone, CleanupStepsKeepGone DEF Expire
<1>4. ASSUME Work(w) \/ SaveThrows(w) PROVE GoneInv'
  BY <1>0, <1>1, <1>2, <1>3, <1>4, PollingIsPlain, RecoveryIsPlain, PlainSaveKeepsGone,
     TurnsKeepGone, CleanupStepsKeepGone DEF Work
<1>5. CASE \/ (\E p \in Pages : GatewayStep(p)) \/ ClaimRunsOut \/ Expires \/ DrainPasses \/ CleanupPasses
           \/ UNCHANGED vars
  <2>1. UNCHANGED <<job, worker, store>> /\ late \subseteq late'
    BY <1>5 DEF GatewayStep, ClaimRunsOut, Expires, DrainPasses, CleanupPasses, outside, vars
  <2>. QED BY <2>1 DEF GoneInv, OnlyCleaned, DeckIsListed, DeckIsGone
<1>6. CASE Next
  BY <1>4, <1>5, <1>6, RestartKeepsGone DEF Next
<1>. QED BY <1>5, <1>6

-----------------------------------------------------------------------------
\* While a job is COMPLETED its deck can be downloaded, for any number of workers: no
\* worker that lost its claim, and no expiry, removes any of it. (package, expire)
THEOREM DownloadsAreWhole == Spec => []DownloadReady
<1>1. Init => KeptInv
  BY DEF Init, Idle, NewRecord, FreshPage, KeptInv, RemovedLate, DownloadReady, ImagesIn, Whole, Acting
<1>2. IInv /\ KeptInv /\ [Next]_vars => KeptInv'
  BY KeptStep
<1>3. KeptInv => DownloadReady
  BY DEF KeptInv
<1>. QED BY Invariance, <1>1, <1>2, <1>3, PTL DEF Spec

\* With one worker the deck is whole while it is offered, and gone once its job counts
\* as cleaned up within its window. (package, expire)
THEOREM DeckStays ==
  ASSUME NEW w, Workers = {w}
  PROVE  Spec => []DeckIsKept
<1>1. Init => GoneInv
  BY DEF Init, Idle, NewRecord, GoneInv, OnlyCleaned, DeckIsListed, DeckIsGone, ExpirySteps
<1>2. IInv /\ GoneInv /\ [Next]_vars => GoneInv'
  BY GoneStep
<1>3. GoneInv /\ DownloadReady => DeckIsKept
  BY DEF GoneInv, DeckIsKept
<1>. QED BY Invariance, DownloadsAreWhole, <1>1, <1>2, <1>3, PTL DEF Spec
=============================================================================

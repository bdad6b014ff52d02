---------------------------- MODULE UsageV2_proofs -----------------------------
(*****************************************************************************)
(* Proofs about UsageV2 for every deck, every selection of faults, of user   *)
(* and of administrator actions, and every bound: the rows have their types, *)
(* the ledger at the host is the one UsageLedger promises (LedgerIsKept), a  *)
(* closed bill is full (BilledInFull), and what goes on to the reviews is    *)
(* reported (ReportedInFull).                                                *)
(*                                                                           *)
(* None of them is inductive.  A client reads a row, calls the host or the   *)
(* provider, and writes another row some steps later, with crashes and other *)
(* clients between; so the invariant IInv relates what is stored to where    *)
(* each client is.  In the order of the definitions:                         *)
(*   RowsTyped, RunFits     the schemas of the rows, and what a Run row      *)
(*                          says of its pause, its recovery and its bill;    *)
(*   Numbered               the events of the outbox are numbered 1..n;      *)
(*   LedgerFits             the ledger is the beginning of the outbox, and   *)
(*                          what is acknowledged is in it;                   *)
(*   PlacesFit              where each client may be; a page is driven       *)
(*                          only while the worker waits for it;              *)
(*   ClientFits, AdminFits  what a client has found is still stored;         *)
(*   PageFits               an operation that is not reported yet belongs    *)
(*                          to a page that the worker attends to, or that    *)
(*                          is still in doubt;                               *)
(*   CloseFits              whoever may say the last word on the bill has    *)
(*                          every operation in the ledger, and no other      *)
(*                          page can still get one.                          *)
(*                                                                           *)
(* ReportedInFull needs a second layer, DInv over IInv: when the pages are   *)
(* drawn, or their batch is final, all is reported or the Run is lost.  Calm *)
(* says of a step that it takes neither turn too early; each action is shown *)
(* to keep IInv and to be Calm (Safe).  Only a verdict of an administrator is*)
(* not: it closes the batch by what the pages say of their charges.  With one*)
(* page that page is reported; with more, one that failed and is to be drawn *)
(* again is passed over, and ReportedInFull fails (README.md, section 5).    *)
(* Hence the hypothesis OnlyTheWorkerFinalizes of the last theorem.          *)
(*****************************************************************************)
EXTENDS UsageV2, FiniteSetTheorems, WellFoundedInduction, TLAPS

Obs(p) == <<p, "OBSERVED">>
Res(p) == <<p, "RESOLVED">>
UsedEvents == {e \in Events : outbox[e].state # "NONE"}
Numbers == 1..Cardinality(UsedEvents)

\* The host has the event.
Carried(e) == outbox[e].seq <= Len(host.ledger)

Charges == {"UNKNOWN", "CHARGED", "NOT_CHARGED"}

\* The schema of each row; TypeOK with what it leaves out.
RunRow ==
  [status : Statuses, resume : PausableStates \cup {"NONE"}, pending : Codes \ {RejectedCode},
   failed : Codes, disposition : {"PENDING", "HARD_FAILURE"}, settled : BOOLEAN,
   recovery : Recoveries, finalization : {"NONE", "QUEUED", "FAILED", "COMPLETED"}]

PageRow ==
  [op : BOOLEAN,
   st : {"NONE", "RESERVED", "SUBMITTING", "WAITING"} \cup Succeeded \cup MediaFailure,
   permit : {"NONE", "GRANTED", "DENIED", "REJECTED"},
   cause : Technical \cup {"NONE", "CAP", "DENIED"}]

EventRow ==
  [state : {"NONE", "PENDING", "ACKNOWLEDGED", "REJECTED"}, seq : Nat, billing : Charges]

Entries == [seq : Nat, page : Pages, kind : {"OBSERVED", "RESOLVED"}]
Tasks == {"none", "running", "completed", "refused", "failed", "unknown"}

Ats ==
  {"idle", "prepare", "authorize", "submitting", "send", "accepted", "read", "lookup", "inspect",
   "mark", "add_observed", "add_resolved", "flushing", "resolve", "refinalize", "done", "waiting",
   "advance", "submitted", "settle", "reconcile", "check", "closing", "retry"}
JobRow ==
  [at : Ats, then : Ats \cup {"flush"}, kind : {"none", "send", "refresh", "verdict"}, news : Charges]

\* The actions of the administrator on a page, and all that the step of one may name.
PageActions == {"REINSPECT"} \cup Verdicts
Actions == {"NONE"} \cup AdminActions \cup Retries

RowsTyped ==
  /\ run \in RunRow /\ ~run.settled
  /\ pages \in [Pages -> PageRow] /\ batch \in {"NONE", "HELD", "FINAL"}
  /\ outbox \in [Events -> EventRow] /\ host \in [ledger : Seq(Entries), closed : BOOLEAN]
  /\ provider \in [Pages -> Tasks] /\ job \in [Clients -> JobRow]
  /\ flush \in [by : Clients \cup {Nobody}, upto : Nat]
  /\ admin \in [action : Actions, on : Pages \cup {Nobody}, begun : Nat]
  /\ faults \in Nat

\* A pause says what it stopped and a recovery what it suspends, and only the bill
\* of a Run that has ended is closed.
RunFits(r) ==
  /\ r.status = "PAUSED" <=> r.resume # "NONE"
  /\ r.status = "RECOVERING" => r.recovery.phase # "NONE"
  /\ r.finalization # "NONE" => r.status \in TerminalStates

\* The events are numbered without gap or repetition, and an operation is resolved
\* after it was observed with its charge open.
Numbered ==
  /\ \A e \in Events : outbox[e].state = "NONE" => outbox[e] = NoEvent
  /\ \A e \in UsedEvents : outbox[e].seq \in Numbers
  /\ \A e, f \in UsedEvents : outbox[e].seq = outbox[f].seq => e = f
  /\ \A n \in Numbers : \E e \in UsedEvents : outbox[e].seq = n
  /\ \A p \in Pages : Res(p) \in UsedEvents =>
        /\ Obs(p) \in UsedEvents /\ outbox[Obs(p)].billing = "UNKNOWN"
        /\ outbox[Obs(p)].seq < outbox[Res(p)].seq

Entry(e) == [seq |-> outbox[e].seq, page |-> e[1], kind |-> e[2]]

\* The ledger is the beginning of the outbox, as far as it is acknowledged at least,
\* and a flush never runs into a rejected event.
LedgerFits ==
  /\ \A i \in 1..Len(host.ledger) :
        \E e \in UsedEvents : outbox[e].seq = i /\ host.ledger[i] = Entry(e)
  /\ \A e \in Events : outbox[e].state = "ACKNOWLEDGED" => Carried(e)
  /\ flush.by # Nobody =>
        ~HasRejection /\ At(flush.by, "flushing") /\ flush.upto <= Cardinality(UsedEvents)

\* Where each client may be, and what it goes on to.
PageAts ==
  {"idle", "prepare", "authorize", "submitting", "send", "accepted", "read", "lookup",
   "inspect", "mark", "add_observed", "add_resolved", "flushing"}
AdminAts ==
  {"idle", "read", "lookup", "inspect", "mark", "add_observed", "add_resolved", "flushing",
   "resolve", "refinalize", "done"}

PagePlace(j) ==
  /\ j.at \in PageAts /\ j.kind # "verdict"
  /\ j.at = "flushing" => j.then \in {"done", "inspect", "mark"}

WorkerPlace(j) ==
  \/ j.at \in {"idle", "advance", "submitted", "settle", "reconcile", "check", "closing"}
  \/ j.at = "flushing" /\ j.then \in {"advance", "check", "closing"}
  \/ j.at = "waiting" /\ j.then \in {"flush", "reconcile", "submitted", "settle"}

AdminPlace(j, a) ==
  /\ IF a.action \in PageActions
       THEN /\ a.on \in Pages /\ j.at \in AdminAts
            /\ j.at = "flushing" => j.then \in {"inspect", "mark", "done"}
       ELSE \/ j.at \in {"idle", "retry", "check", "closing", "done"}
            \/ j.at = "flushing" /\ j.then \in {"done", "closing"}
  /\ j.kind = "verdict" => a.action \in Verdicts
  /\ j.at \in {"resolve", "refinalize"} => j.kind = "verdict"
  /\ j.at \in {"read", "lookup", "add_observed"} => a.action = "REINSPECT"

\* Where a page is while it is submitted.
SubmitAts == {"prepare", "authorize", "submitting", "send", "accepted"}

PlacesFit ==
  /\ \A p \in Pages :
        /\ PagePlace(job[p]) /\ (~Idle(p) => At(Worker, "waiting"))
        /\ job[p].at \in SubmitAts => job[Worker].then = "submitted"
  /\ WorkerPlace(job[Worker]) /\ AdminPlace(job[Admin], admin)

\* The clients at work on a page, and what each of them has found.
Acting == Pages \cup (IF admin.action \in PageActions THEN {Admin} ELSE {})

Knows(j) ==
  \/ j.at \in {"inspect", "mark", "add_resolved"}
  \/ j.at = "flushing" /\ j.then \in {"inspect", "mark"}

ClientFits(c) ==
  /\ At(c, "add_observed") => pages[Subject(c)].op
  /\ Knows(job[c]) => Obs(Subject(c)) \in UsedEvents
  /\ At(c, "add_resolved") => outbox[Obs(Subject(c))].billing = "UNKNOWN"

\* Where a page is whose operation is to be reported.
Named == {"WAITING", "BILLING_UNKNOWN"}

\* An action on a page has an operation, and a reinspection one that is reported or
\* is to be.
Lawful(a) ==
  a.action \in PageActions =>
    /\ pages[a.on].op
    /\ a.action = "REINSPECT" => Obs(a.on) \in UsedEvents \/ pages[a.on].st \in Named

AdminFits == Lawful(admin) /\ (At(Admin, "lookup") => Obs(admin.on) \in UsedEvents)

\* The worker has yet to read a page, or waits for its job.
Attended(at, worker) ==
  \/ worker.at \in {"idle", "submitted"}
  \/ /\ worker.at = "waiting"
     /\ at \in {"read", "add_observed"} \/ (at = "idle" /\ worker.then = "submitted")

\* A page, its image task, the place of its job, whether its operation was reported,
\* and the job of the worker.
PageOK(page, task, at, reported, worker) ==
  /\ reported \/ page.st \in Named \cup Succeeded => page.op
  /\ ~reported =>
       /\ page.st \notin Succeeded
       /\ page.st \in Named => Attended(at, worker)
       /\ task \notin {"none", "refused"} => page.st \in {"SUBMITTING", "SUBMISSION_UNKNOWN"} \cup Named
       /\ at \in {"authorize", "submitting"} => page.st \in {"RESERVED", "RESERVATION_UNKNOWN"}
       /\ at \in {"send", "accepted"} => page.st = "SUBMITTING"

PageFits(p) ==
  PageOK(pages[p], provider[p], job[p].at, Obs(p) \in UsedEvents, job[Worker])

\* The administrator closes the bill, or it is closed, or was refused: all that the
\* provider did is with the host, and the other pages stay as they are.
AdminCloses(j) == j.at \in {"check", "closing"} \/ (j.at = "flushing" /\ j.then = "closing")
LastWord == run.finalization \in {"FAILED", "COMPLETED"} \/ AdminCloses(job[Admin]) \/ host.closed

Untouched(p) ==
  Obs(p) \notin UsedEvents /\ Idle(p) /\ ~PendingMedia(pages[p]) /\ provider[p] \in {"none", "refused"}

CloseFits ==
  /\ AdminCloses(job[Admin]) \/ host.closed => run.finalization # "NONE"
  /\ At(Worker, "closing") =>
       /\ run.finalization # "NONE"
       /\ \A p \in Pages : Obs(p) \in UsedEvents => Carried(Obs(p))
  /\ At(Worker, "flushing") /\ job[Worker].then = "closing" =>
       /\ run.finalization # "NONE"
       /\ flush.by = Worker =>
            \A p \in Pages : Obs(p) \in UsedEvents => outbox[Obs(p)].seq <= flush.upto
  /\ LastWord => \A p \in Pages :
       Untouched(p) \/ (Obs(p) \in UsedEvents /\ Carried(Obs(p)))
  /\ host.closed => \A p \in Pages : Obs(p) \in UsedEvents => p \in Billed

IInv ==
  /\ RowsTyped /\ RunFits(run) /\ Numbered /\ LedgerFits /\ PlacesFit
  /\ \A c \in Acting : ClientFits(c)
  /\ AdminFits /\ (\A p \in Pages : PageFits(p)) /\ CloseFits

-----------------------------------------------------------------------------
(* What the operators of RunPolicy make of a row. *)

\* The pages of the Run were drawn once.
Past(r) ==
  \/ r.status \in {"PAGE_REVIEW", "DELIVERING", "COMPLETED"} \/ r.resume = "PAGE_REVIEW"
  \/ r.recovery.phase \in {"PAGE_REVIEW", "DELIVERING"} \/ r.failed = RejectedCode

\* The accounting of the batch may be closed without them.
Lost(r) == r.status \in {"CANCELLED", "FAILED"} \/ (r.status = "RECOVERING" /\ r.pending # "NONE")

\* A step of the Run that does not draw the pages and leaves the bill, which the end
\* of the Run may queue.
Follows(r, s) ==
  /\ s \in RunRow /\ RunFits(s)
  /\ Past(s) => Past(r)
  /\ Lost(r) => Lost(s) \/ Past(r)
Steady(r, s) ==
  Follows(r, s) /\ (s.finalization = r.finalization \/ (r.finalization = "NONE" /\ s.finalization = "QUEUED"))

-----------------------------------------------------------------------------
(* What a step leaves of the reports. *)

\* The host has all operations of the deck with their charges.
Reported == OutboxDelivered /\ Billed = Pages

\* The worker is about to settle the pages: those that it waits for have an operation,
\* and of the others none has failed.
AtSettle == At(Worker, "settle") \/ (At(Worker, "waiting") /\ job[Worker].then = "settle")
SettleFits ==
  AtSettle => \A p \in Pages :
    (~Idle(p) => pages[p].op) /\ (~pages[p].op => pages[p].st \in {"NONE", "RESERVED", "SUBMITTING"})

\* The pages are drawn, and their batch is closed, when all is reported or the Run lost.
Calm ==
  /\ Past(run') => Past(run) \/ Reported
  /\ Lost(run) => Lost(run') \/ Past(run)
  /\ batch' = "FINAL" => batch = "FINAL" \/ Lost(run) \/ Reported
  /\ SettleFits => SettleFits'
Safe == IInv' /\ Calm

LEMMA StandsStill == ASSUME NEW r \in RunRow, RunFits(r) PROVE Steady(r, r)
  BY DEF Steady, Follows

LEMMA Follow ==
  ASSUME NEW r, NEW s, NEW t, Steady(r, s), Steady(s, t)
  PROVE  Steady(r, t)
  BY DEF Steady, Follows

\* What is derived for a transaction and what is stored are the same row.
LEMMA SettledAside ==
  ASSUME NEW r \in RunRow, RunFits(r), NEW settled \in BOOLEAN
  PROVE  /\ Steady(r, [r EXCEPT !.settled = settled])
         /\ [r EXCEPT !.settled = settled].settled = settled
         /\ [r EXCEPT !.settled = settled].status = r.status
         /\ [r EXCEPT !.settled = settled].pending = r.pending
<1>. DEFINE s == [r EXCEPT !.settled = settled]
<1>1. /\ s \in RunRow /\ s.settled = settled /\ s.status = r.status /\ s.resume = r.resume
      /\ s.recovery = r.recovery /\ s.pending = r.pending /\ s.failed = r.failed
      /\ s.finalization = r.finalization
  BY DEF RunRow
<1>. HIDE DEF s
<1>2. Steady(r, s)
  BY <1>1 DEF Steady, Follows, RunFits, Past, Lost
<1>. QED BY <1>1, <1>2 DEF s

LEMMA SettlingIsSteady ==
  ASSUME NEW r \in RunRow, RunFits(r), NEW pg, NEW b
  PROVE  /\ Steady(r, Settling(r, pg, b)) /\ Settling(r, pg, b) \in RunRow
         /\ RunFits(Settling(r, pg, b))
         /\ Settling(r, pg, b).status = r.status /\ Settling(r, pg, b).pending = r.pending
<1>1. Accounted(pg, b) \in BOOLEAN
  BY DEF Accounted
<1>. QED BY <1>1, SettledAside DEF Settling, Steady, Follows

LEMMA StoredIsSteady ==
  ASSUME NEW r \in RunRow, RunFits(r)
  PROVE  Steady(r, Stored(r)) /\ ~Stored(r).settled
  BY SettledAside DEF Stored

\* The row where a transition leads.
LEMMA ToMoves ==
  ASSUME NEW r \in RunRow, NEW to \in Statuses \ {"PAUSED"}
  PROVE  /\ To(r, to) = [r EXCEPT !.status = to, !.resume = "NONE"]
         /\ To(r, to) \in RunRow
         /\ To(r, to).status = to /\ To(r, to).resume = "NONE"
         /\ To(r, to).pending = r.pending /\ To(r, to).failed = r.failed
         /\ To(r, to).recovery = r.recovery /\ To(r, to).finalization = r.finalization
         /\ To(r, to).settled = r.settled
  BY DEF To, RunRow

LEMMA CompleteIsSteady ==
  ASSUME NEW r \in RunRow, RunFits(r), CanCompleteFailure(r), NEW code \in Codes \ {RejectedCode}
  PROVE  Steady(r, CompleteFailure(r, code))
<1>. DEFINE recovery == [r.recovery EXCEPT !.active = @ /\ ~r.recovery.accounting]
            queued == Queue(r.finalization)
            s == [r EXCEPT !.status = "FAILED", !.resume = "NONE", !.pending = "NONE",
                           !.failed = code, !.disposition = "HARD_FAILURE",
                           !.finalization = queued, !.recovery = recovery]
<1>1. recovery \in Recoveries /\ recovery.phase = r.recovery.phase
  BY DEF RunRow, Recoveries
<1>2. r.status \notin TerminalStates
  BY DEF CanCompleteFailure, CanTransition, Transitions, TerminalStates, RunRow, Statuses
<1>3. r.finalization = "NONE" /\ queued = "QUEUED"
  BY <1>2 DEF RunFits, Queue
<1>4. CompleteFailure(r, code) = s
  BY DEF CompleteFailure, To, RunRow, Recoveries
<1>. HIDE DEF recovery, queued
<1>5. s \in RunRow
  <2>1. "FAILED" \in Statuses /\ "NONE" \in Codes \ {RejectedCode} /\ code \in Codes
    BY DEF Statuses, Codes, RejectedCode
  <2>. QED BY <1>1, <1>3, <2>1 DEF RunRow
<1>6. /\ s.status = "FAILED" /\ s.resume = "NONE" /\ s.failed = code
      /\ s.recovery = recovery /\ s.finalization = "QUEUED"
  BY <1>3 DEF RunRow
<1>. HIDE DEF s
<1>7. Follows(r, s)
  BY <1>1, <1>5, <1>6 DEF Follows, RunFits, Past, Lost, TerminalStates
<1>. QED BY <1>3, <1>4, <1>6, <1>7 DEF Steady

LEMMA FailIsSteady ==
  ASSUME NEW r \in RunRow, RunFits(r), CanFail(r),
         NEW code \in Codes \ {"NONE", RejectedCode}
  PROVE  Steady(r, Fail(r, code))
<1>1. CASE IgnoresFailure(r)
  BY <1>1, StandsStill DEF Fail
<1>2. CASE ~IgnoresFailure(r) /\ r.settled
  BY <1>2, CompleteIsSteady DEF Fail, CanFail
<1>3. CASE ~IgnoresFailure(r) /\ ~r.settled
  <2>1. r.status \in RecoverableStates /\ r.finalization = "NONE"
    BY <1>3 DEF CanFail, CanTransition, Transitions, Ending, RunRow, Statuses, IgnoresFailure,
       TerminalStates, RecoverableStates, RunFits
  <2>. DEFINE recovery == [phase |-> r.status, attempt |-> 1, active |-> TRUE, accounting |-> TRUE]
              s == [r EXCEPT !.status = "RECOVERING", !.resume = "NONE", !.pending = code,
                             !.recovery = recovery]
  <2>2. recovery \in Recoveries /\ recovery.phase = r.status
    BY <2>1, PolicyAssumption DEF Recoveries
  <2>. HIDE DEF recovery
  <2>3. Fail(r, code) = s
    BY <1>3 DEF Fail, To, recovery, RunRow
  <2>4. s \in RunRow
    BY <2>2 DEF RunRow, Statuses
  <2>5. /\ s.status = "RECOVERING" /\ s.resume = "NONE" /\ s.pending = code
        /\ s.recovery = recovery /\ s.failed = r.failed /\ s.finalization = "NONE"
    BY <2>1 DEF RunRow
  <2>. HIDE DEF s
  <2>6. Follows(r, s)
    BY <2>1, <2>2, <2>4, <2>5 DEF Follows, RunFits, Past, Lost, RecoverableStates
  <2>. QED BY <2>1, <2>3, <2>5, <2>6 DEF Steady
<1>. QED BY <1>1, <1>2, <1>3

LEMMA RecoveryIsSteady ==
  ASSUME NEW r \in RunRow, RunFits(r), Recoverable(r), NEW d
  PROVE  Steady(r, BeginRecovery(r, d))
<1>. DEFINE attempt == NextAttempt(r)
            retryable == d = "RETRYABLE" /\ attempt < MaxAttempts
            recovery == [phase |-> r.status, active |-> retryable, accounting |-> FALSE,
                         attempt |-> IF attempt > MaxAttempts THEN MaxAttempts ELSE attempt]
            code == IF attempt >= MaxAttempts THEN "TECHNICAL_RECOVERY_EXHAUSTED"
                                              ELSE "TECHNICAL_CONTRACT_INVALID"
            s == [r EXCEPT !.recovery = recovery]
            t == [r EXCEPT !.status = "RECOVERING", !.resume = "NONE", !.recovery = recovery]
<1>1. attempt \in Nat
  BY DEF NextAttempt, RunRow, Recoveries
<1>2. code \in Codes \ {"NONE", RejectedCode}
  BY DEF FailureCodes, Codes, RejectedCode
<1>3. r.status \in RecoverableStates /\ r.finalization = "NONE" /\ r.status # "RECOVERING"
  BY DEF Recoverable, RecoverableStates, RunFits, TerminalStates
<1>. HIDE DEF attempt
<1>4. recovery \in Recoveries /\ recovery.phase = r.status
  <2>1. (IF attempt > MaxAttempts THEN MaxAttempts ELSE attempt) \in 0..MaxAttempts
    BY <1>1, PolicyAssumption
  <2>2. retryable \in BOOLEAN
    OBVIOUS
  <2>. QED BY <1>3, <2>1, <2>2 DEF Recoveries
<1>5. BeginRecovery(r, d) = IF retryable THEN t ELSE Fail(s, code)
  BY DEF BeginRecovery, To, attempt, RunRow
<1>. HIDE DEF recovery, code, retryable
<1>6. /\ s \in RunRow /\ s.status = r.status /\ s.resume = r.resume /\ s.recovery = recovery
      /\ s.failed = r.failed /\ s.pending = r.pending /\ s.finalization = r.finalization
  BY <1>4 DEF RunRow
<1>7. CASE retryable
  <2>1. t \in RunRow
    BY <1>4 DEF RunRow, Statuses
  <2>2. /\ t.status = "RECOVERING" /\ t.resume = "NONE" /\ t.recovery = recovery
        /\ t.failed = r.failed /\ t.pending = r.pending /\ t.finalization = r.finalization
    BY DEF RunRow
  <2>. HIDE DEF t
  <2>3. Follows(r, t)
    BY <1>3, <1>4, <2>1, <2>2 DEF Follows, RunFits, Past, Lost, RecoverableStates
  <2>. QED BY <1>5, <1>7, <2>2, <2>3 DEF Steady
<1>8. CASE ~retryable
  <2>. HIDE DEF s
  <2>1. Steady(r, s)
    BY <1>3, <1>4, <1>6 DEF Steady, Follows, RunFits, Past, Lost, RecoverableStates
  <2>2. CanFail(s)
    BY <1>3, <1>6 DEF CanFail, CanCompleteFailure, CanTransition, Transitions, Ending, RecoverableStates
  <2>3. Steady(s, Fail(s, code))
    BY <1>2, <1>3, <1>6, <2>1, <2>2, FailIsSteady DEF Steady, Follows
  <2>. QED BY <1>5, <1>8, <2>1, <2>3, Follow
<1>. QED BY <1>7, <1>8

LEMMA TechnicalFailureIsSteady ==
  ASSUME RowsTyped, RunFits(run), NEW d, NEW pg, NEW b
  PROVE  Steady(run, TechnicalFailure(d, pg, b)) /\ ~TechnicalFailure(d, pg, b).settled
<1>. DEFINE r == Settling(run, pg, b)
            s == BeginRecovery(r, d)
<1>1. run \in RunRow
  BY DEF RowsTyped
<1>2. CASE ~Recoverable(run)
  BY <1>1, <1>2, StandsStill DEF TechnicalFailure, RowsTyped
<1>3. CASE Recoverable(run)
  <2>1. Steady(run, r) /\ r \in RunRow /\ RunFits(r) /\ Recoverable(r)
    BY <1>1, <1>3, SettlingIsSteady DEF Recoverable
  <2>2. TechnicalFailure(d, pg, b) = Stored(s)
    BY <1>3 DEF TechnicalFailure
  <2>. HIDE DEF r
  <2>3. Steady(r, s) /\ s \in RunRow /\ RunFits(s)
    BY <2>1, RecoveryIsSteady DEF Steady, Follows
  <2>. HIDE DEF s
  <2>4. Steady(s, Stored(s)) /\ ~Stored(s).settled
    BY <2>3, StoredIsSteady
  <2>. QED BY <2>1, <2>2, <2>3, <2>4, Follow
<1>. QED BY <1>2, <1>3

LEMMA ConcludeIsSteady ==
  ASSUME NEW r \in RunRow, RunFits(r), ~r.settled, NEW pg, NEW b
  PROVE  Steady(r, ConcludeFailure(r, pg, b)) /\ ~ConcludeFailure(r, pg, b).settled
<1>. DEFINE s == Settling(r, pg, b)
            t == Reconcile(s)
<1>1. Steady(r, s) /\ s \in RunRow /\ RunFits(s)
  BY SettlingIsSteady
<1>2. CASE ~CanReconcile(s)
  BY <1>2, StandsStill DEF ConcludeFailure
<1>3. CASE CanReconcile(s)
  <2>1. ConcludeFailure(r, pg, b) = Stored(t)
    BY <1>3 DEF ConcludeFailure
  <2>. HIDE DEF s
  <2>2. Steady(s, t)
    <3>1. CASE s.pending # "NONE" /\ s.settled
      <4>1. s.pending \in Codes \ {RejectedCode} /\ CanCompleteFailure(s)
        BY <1>1, <1>3, <3>1 DEF CanReconcile, RunRow
      <4>. QED BY <1>1, <3>1, <4>1, CompleteIsSteady DEF Reconcile
    <3>2. CASE ~(s.pending # "NONE" /\ s.settled)
      BY <1>1, <3>2, StandsStill DEF Reconcile
    <3>. QED BY <3>1, <3>2
  <2>3. t \in RunRow /\ RunFits(t)
    BY <2>2 DEF Steady, Follows
  <2>. HIDE DEF t
  <2>4. Steady(t, Stored(t)) /\ ~Stored(t).settled
    BY <2>3, StoredIsSteady
  <2>. QED BY <1>1, <2>1, <2>2, <2>4, Follow
<1>. QED BY <1>2, <1>3

LEMMA FailWithIsSteady ==
  ASSUME RowsTyped, RunFits(run), NEW pg, NEW b,
         NEW code \in Codes \ {"NONE", RejectedCode}
  PROVE  Steady(run, FailWith(code, pg, b)) /\ ~FailWith(code, pg, b).settled
<1>. DEFINE r == Settling(run, pg, b)
            s == Fail(r, code)
<1>1. run \in RunRow
  BY DEF RowsTyped
<1>2. Steady(run, r) /\ r \in RunRow /\ RunFits(r)
  BY <1>1, SettlingIsSteady
<1>3. CASE ~CanFail(r)
  BY <1>1, <1>3, StandsStill DEF FailWith, RowsTyped
<1>4. CASE CanFail(r)
  <2>1. FailWith(code, pg, b) = Stored(s)
    BY <1>4 DEF FailWith
  <2>. HIDE DEF r
  <2>2. Steady(r, s) /\ s \in RunRow /\ RunFits(s)
    BY <1>2, <1>4, FailIsSteady DEF Steady, Follows
  <2>. HIDE DEF s
  <2>3. Steady(s, Stored(s)) /\ ~Stored(s).settled
    BY <2>2, StoredIsSteady
  <2>. QED BY <1>2, <2>1, <2>2, <2>3, Follow
<1>. QED BY <1>3, <1>4

\* A transition from a Run that has not ended to one that has not, or to its end.
LEMMA TransitionIsSteady ==
  ASSUME NEW r \in RunRow, RunFits(r), r.status \notin TerminalStates,
         NEW to \in Statuses \ {"PAUSED", "RECOVERING", "COMPLETED", "FAILED"},
         to \in {"PAGE_REVIEW", "DELIVERING"} => Past(r), Lost(r) => to = "CANCELLED"
  PROVE  Steady(r, To(r, to)) /\ To(r, to).settled = r.settled
<1>1. r.finalization = "NONE"
  BY DEF RunFits
<1>. DEFINE s == To(r, to)
<1>2. /\ s \in RunRow /\ s.status = to /\ s.resume = "NONE" /\ s.pending = r.pending
      /\ s.failed = r.failed /\ s.recovery = r.recovery /\ s.finalization = "NONE"
      /\ s.settled = r.settled
  BY <1>1, ToMoves
<1>. HIDE DEF s
<1>3. Steady(r, s)
  BY <1>1, <1>2 DEF Steady, Follows, RunFits, Past, Lost, TerminalStates
<1>. QED BY <1>2, <1>3 DEF s

LEMMA PauseIsSteady ==
  ASSUME NEW r \in RunRow, RunFits(r), r.status \in PausableStates
  PROVE  Steady(r, To(r, "PAUSED")) /\ To(r, "PAUSED").settled = r.settled
<1>. DEFINE s == [r EXCEPT !.status = "PAUSED", !.resume = r.status]
<1>1. s \in RunRow /\ To(r, "PAUSED") = s
  BY DEF To, RunRow, Statuses
<1>2. /\ s.status = "PAUSED" /\ s.resume = r.status /\ s.recovery = r.recovery
      /\ s.failed = r.failed /\ s.pending = r.pending /\ s.finalization = r.finalization
      /\ s.settled = r.settled
  BY DEF RunRow
<1>. HIDE DEF s
<1>. QED
  BY <1>1, <1>2 DEF Steady, Follows, RunFits, Past, Lost, PausableStates, TerminalStates

\* A Run ends with its bill queued.
LEMMA EndIsSteady ==
  ASSUME NEW r \in RunRow, RunFits(r), r.status \notin TerminalStates,
         NEW to \in {"COMPLETED", "CANCELLED"},
         to = "COMPLETED" => Past(r)
  PROVE  Steady(r, Ended(r, to)) /\ Ended(r, to).settled = r.settled
<1>. DEFINE s == To(r, to)
            t == [s EXCEPT !.finalization = "QUEUED"]
<1>1. r.finalization = "NONE"
  BY DEF RunFits
<1>2. /\ s \in RunRow /\ s.status = to /\ s.resume = "NONE" /\ s.pending = r.pending
      /\ s.failed = r.failed /\ s.recovery = r.recovery /\ s.finalization = "NONE"
      /\ s.settled = r.settled
  <2>1. to \in Statuses \ {"PAUSED"}
    BY DEF Statuses
  <2>. QED BY <1>1, <2>1, ToMoves
<1>3. Ended(r, to) = t
  BY <1>2 DEF Ended, Queue
<1>. HIDE DEF s
<1>4. /\ t \in RunRow /\ t.status = to /\ t.resume = "NONE" /\ t.pending = r.pending
      /\ t.failed = r.failed /\ t.recovery = r.recovery /\ t.finalization = "QUEUED"
      /\ t.settled = r.settled
  BY <1>2 DEF RunRow
<1>. HIDE DEF t
<1>5. Lost(r) => Lost(t) \/ Past(r)
  BY <1>4 DEF Lost, TerminalStates, Past
<1>6. Past(t) => Past(r)
  BY <1>4 DEF Past
<1>. QED BY <1>1, <1>3, <1>4, <1>5, <1>6 DEF Steady, Follows, RunFits, TerminalStates
-----------------------------------------------------------------------------
(* The clients, and the numbers of the events. *)

LEMMA Distinct ==
  /\ Worker # Admin /\ Worker # Nobody /\ Admin # Nobody
  /\ \A p \in Pages : p # Worker /\ p # Admin /\ p # Nobody
  /\ Worker \in Clients /\ Admin \in Clients /\ Nobody \notin Clients /\ Pages \subseteq Clients
  BY ClientAssumption DEF Worker, Admin, Nobody, Clients

LEMMA EventsOfPages ==
  /\ \A p \in Pages : Obs(p) \in Events /\ Res(p) \in Events /\ Obs(p) # Res(p)
  /\ \A e \in Events : e[1] \in Pages /\ (e = Obs(e[1]) \/ e = Res(e[1]))
  /\ \A p, q : Obs(p) # Res(q) /\ (Obs(p) = Obs(q) => p = q) /\ (Res(p) = Res(q) => p = q)
  /\ \A p : Obs(p)[1] = p /\ Obs(p)[2] = "OBSERVED" /\ Res(p)[1] = p /\ Res(p)[2] = "RESOLVED"
  BY DEF Events, Obs, Res

LEMMA EventsCounted ==
  /\ IsFiniteSet(Events) /\ Cardinality(Events) \in Nat
  /\ \A S \in SUBSET Events :
       IsFiniteSet(S) /\ Cardinality(S) \in Nat /\ Cardinality(S) <= Cardinality(Events)
<1>1. IsFiniteSet({"OBSERVED", "RESOLVED"})
  <2>1. IsFiniteSet({} \cup {"OBSERVED"})
    BY FS_EmptySet, FS_AddElement
  <2>2. IsFiniteSet(({} \cup {"OBSERVED"}) \cup {"RESOLVED"})
    BY <2>1, FS_AddElement
  <2>. QED BY <2>2
<1>2. IsFiniteSet(Events)
  BY <1>1, UsageAssumption, FS_Product DEF Events
<1>. QED BY <1>2, FS_CardinalityType, FS_Subset

\* A client at work on a page.
LEMMA ActingOnPage ==
  ASSUME IInv, NEW c \in Acting
  PROVE  /\ c \in Clients /\ Subject(c) \in Pages /\ c # Worker /\ c # Nobody
         /\ c \in Pages => Subject(c) = c /\ c # Admin
         /\ c \notin Pages => c = Admin /\ Subject(c) = admin.on /\ admin.action \in PageActions
                              /\ pages[admin.on].op
  BY Distinct DEF Acting, IInv, PlacesFit, AdminPlace, AdminFits, Lawful, Subject

-----------------------------------------------------------------------------
(* The step of one client on its page. *)

\* The row of the page and the image task are written, and the Run, which goes on.
\* An operation that is to be reported stays so, and before it is reported only the
\* job of the page writes the row.
PageWrite(c, p, row, task) ==
  /\ c \in Acting /\ ~Idle(c) /\ ~At(c, "flushing") /\ p = Subject(c)
  /\ \/ Obs(p) \in UsedEvents \/ (row = pages[p] /\ task = provider[p])
     \/ c = p /\ pages[p].st \notin Named
  /\ row \in PageRow /\ pages' = [pages EXCEPT ![p] = row] /\ (pages[p].op => row.op)
  /\ task \in Tasks /\ provider' = [provider EXCEPT ![p] = task]
  /\ Steady(run, run') /\ ~run'.settled /\ batch' = batch /\ faults' \in Nat
  /\ UNCHANGED <<outbox, host, flush, admin>>

\* The client goes where it may, with what it has found.
Placed(c, p, j, row) ==
  /\ j \in JobRow /\ job' = [job EXCEPT ![c] = j]
  /\ IF c = Admin THEN AdminPlace(j, admin) ELSE PagePlace(j)
  /\ j.at \in SubmitAts => job[c].at \in SubmitAts
  /\ j.at = "add_observed" => row.op
  /\ Knows(j) => Obs(p) \in UsedEvents
  /\ j.at = "add_resolved" => outbox[Obs(p)].billing = "UNKNOWN"
  /\ c = Admin /\ j.at = "lookup" => Obs(p) \in UsedEvents

\* The page fits as the client leaves it.
Lands(c, p, at, row, task) ==
  PageOK(row, task, IF c = p THEN at ELSE job[p].at, Obs(p) \in UsedEvents, job[Worker])

LEMMA QuietIsCalm ==
  ASSUME Steady(run, run'), UNCHANGED <<pages, batch>>, AtSettle' => AtSettle,
         \A q \in Pages : Idle(q) => Idle(q)'
  PROVE  Calm
  BY DEF Calm, Steady, Follows, SettleFits

LEMMA PageStep ==
  ASSUME IInv, NEW c, NEW p, NEW row, NEW task, PageWrite(c, p, row, task),
         NEW j, Placed(c, p, j, row), Lands(c, p, j.at, row, task)
  PROVE  Safe
<1>. USE DEF PageWrite, Placed
<1>0. /\ c \in Clients /\ c # Worker /\ c # Nobody /\ p \in Pages
      /\ c \in Pages => p = c /\ c # Admin
      /\ c \notin Pages => c = Admin /\ p = admin.on /\ admin.action \in PageActions /\ pages[p].op
  BY ActingOnPage
<1>1. /\ job' \in [Clients -> JobRow] /\ pages' \in [Pages -> PageRow]
      /\ provider' \in [Pages -> Tasks]
      /\ job'[c] = j /\ pages'[p] = row /\ provider'[p] = task
      /\ \A d \in Clients : d # c => job'[d] = job[d]
      /\ \A q \in Pages : q # p => pages'[q] = pages[q] /\ provider'[q] = provider[q]
  BY <1>0 DEF IInv, RowsTyped
<1>2. UsedEvents' = UsedEvents /\ Acting' = Acting /\ HasRejection' = HasRejection
      /\ (\A e : Carried(e)' = Carried(e)) /\ Billed' = Billed
      /\ (\A d : Subject(d)' = Subject(d))
  BY DEF UsedEvents, Acting, HasRejection, Carried, Billed, Received, Subject
<1>3. RowsTyped' /\ RunFits(run')
  BY <1>1 DEF IInv, RowsTyped, Steady, Follows
<1>4. Numbered'
  BY <1>2 DEF IInv, Numbered, Numbers
<1>5. LedgerFits'
  <2>1. flush.by # Nobody => flush.by # c /\ flush.by \in Clients /\ At(flush.by, "flushing")'
    BY <1>1 DEF IInv, LedgerFits, At, RowsTyped
  <2>. QED BY <1>2, <2>1 DEF IInv, LedgerFits, Entry
<1>6. PlacesFit'
  <2>1. job'[Worker] = job[Worker] /\ (c # Admin => job'[Admin] = job[Admin])
    BY <1>0, <1>1, Distinct
  <2>2. ASSUME NEW q \in Pages
        PROVE  /\ PagePlace(job'[q]) /\ (job'[q].at # "idle" => At(Worker, "waiting"))
               /\ job'[q].at \in SubmitAts => job[Worker].then = "submitted"
    BY <1>0, <1>1, <2>2, Distinct DEF IInv, PlacesFit, At, Idle
  <2>3. AdminPlace(job'[Admin], admin)
    BY <1>1, <2>1 DEF IInv, PlacesFit
  <2>. QED BY <2>1, <2>2, <2>3 DEF IInv, PlacesFit, At, Idle
<1>7. \A d \in Acting' : ClientFits(d)'
  <2>1. SUFFICES ASSUME NEW d \in Acting PROVE ClientFits(d)'
    BY <1>2
  <2>2. d \in Clients /\ Subject(d) \in Pages
    BY ActingOnPage
  <2>3. pages[Subject(d)].op => pages'[Subject(d)].op
    BY <1>1, <2>2
  <2>4. CASE d = c
    BY <1>1, <1>2, <2>4 DEF ClientFits, At
  <2>5. CASE d # c
    BY <1>1, <1>2, <2>2, <2>3, <2>5 DEF IInv, ClientFits, At
  <2>. QED BY <2>4, <2>5
<1>8. AdminFits'
  <2>1. Lawful(admin)'
    <3>1. SUFFICES ASSUME admin.action \in PageActions
          PROVE  /\ pages'[admin.on].op
                 /\ admin.action = "REINSPECT" => Obs(admin.on) \in UsedEvents \/ pages'[admin.on].st \in Named
      BY <1>2 DEF Lawful
    <3>2. /\ admin.on \in Pages /\ pages[admin.on].op
          /\ admin.action = "REINSPECT" => Obs(admin.on) \in UsedEvents \/ pages[admin.on].st \in Named
      BY <3>1 DEF IInv, AdminFits, Lawful, PlacesFit, AdminPlace
    <3>. QED BY <1>1, <3>2
  <2>2. At(Admin, "lookup")' => Obs(admin.on) \in UsedEvents
    BY <1>0, <1>1, Distinct DEF IInv, AdminFits, At
  <2>. QED BY <1>2, <2>1, <2>2 DEF AdminFits
<1>9. \A q \in Pages : PageFits(q)'
  <2>1. SUFFICES ASSUME NEW q \in Pages PROVE PageFits(q)'
    OBVIOUS
  <2>2. job'[Worker] = job[Worker]
    BY <1>0, <1>1, Distinct
  <2>3. CASE q = p
    <3>1. (IF c = p THEN j.at ELSE job[p].at) = job'[p].at
      BY <1>0, <1>1, Distinct
    <3>. QED BY <1>1, <1>2, <2>2, <2>3, <3>1 DEF PageFits, Lands
  <2>4. CASE q # p
    <3>1. job'[q] = job[q]
      BY <1>0, <1>1, <2>4, Distinct
    <3>. QED BY <1>1, <1>2, <2>2, <2>4, <3>1 DEF PageFits, IInv
  <2>. QED BY <2>3, <2>4
<1>10. CloseFits'
  <2>1. job'[Worker] = job[Worker] /\ (c # Admin => job'[Admin] = job[Admin])
    BY <1>0, <1>1, Distinct
  <2>2. c = Admin => ~AdminCloses(job'[Admin])
    BY <1>0, <1>1, Distinct DEF AdminPlace, AdminCloses, AdminAts
  <2>3. LastWord' => LastWord
    BY <2>1, <2>2 DEF LastWord, Steady
  <2>4. ASSUME LastWord, NEW q \in Pages
        PROVE  (Untouched(q) \/ (Obs(q) \in UsedEvents /\ Carried(Obs(q))))'
    <3>1. Untouched(q) \/ (Obs(q) \in UsedEvents /\ Carried(Obs(q)))
      BY <2>4 DEF IInv, CloseFits
    <3>2. CASE q = p
      <4>1. CASE Obs(p) \in UsedEvents
        BY <1>2, <3>1, <3>2, <4>1 DEF Untouched
      <4>2. CASE Obs(p) \notin UsedEvents
        <5>1. Untouched(p) /\ c # p
          BY <3>1, <3>2, <4>2 DEF Untouched
        <5>2. job'[p] = job[p]
          BY <1>0, <1>1, <5>1, Distinct
        <5>. QED BY <1>1, <1>2, <3>2, <4>2, <5>1, <5>2 DEF Untouched, Idle, At
      <4>. QED BY <4>1, <4>2
    <3>3. CASE q # p
      <4>1. job'[q] = job[q]
        BY <1>0, <1>1, <3>3, Distinct
      <4>. QED BY <1>1, <1>2, <3>1, <3>3, <4>1 DEF Untouched, At, Idle
    <3>. QED BY <3>2, <3>3
  <2>5. host.closed => \A q \in Pages : Obs(q) \in UsedEvents => q \in Billed
    BY DEF IInv, CloseFits
  <2>6. run.finalization # "NONE" => run'.finalization # "NONE"
    BY DEF Steady
  <2>. QED BY <1>2, <2>1, <2>2, <2>3, <2>4, <2>5, <2>6 DEF IInv, CloseFits, At
<1>11. Calm
  <2>1. job'[Worker] = job[Worker]
    BY <1>0, <1>1, Distinct
  <2>3. ASSUME SettleFits, AtSettle', NEW q \in Pages
        PROVE  (~Idle(q) => pages[q].op)' /\ (~pages[q].op => pages[q].st \in {"NONE", "RESERVED", "SUBMITTING"})'
    <3>1. AtSettle
      BY <2>1, <2>3 DEF AtSettle, At
    <3>2. CASE q = p
      <4>1. pages[p].op
        BY <1>0, <2>3, <3>1 DEF SettleFits
      <4>. QED BY <1>1, <3>2, <4>1
    <3>3. CASE q # p
      <4>1. job'[q] = job[q]
        BY <1>0, <1>1, <3>3, Distinct
      <4>. QED BY <1>1, <2>3, <3>1, <3>3, <4>1 DEF SettleFits, Idle, At
    <3>. QED BY <3>2, <3>3
  <2>. QED BY <2>3 DEF Calm, Steady, Follows, SettleFits
<1>. QED BY <1>3, <1>4, <1>5, <1>6, <1>7, <1>8, <1>9, <1>10, <1>11 DEF IInv, Safe

-----------------------------------------------------------------------------
(* Where a step leaves its client. *)

LEMMA GotoMoves ==
  ASSUME IInv, NEW c \in Acting, NEW at \in Ats \ {"done"}
  PROVE  /\ [job[c] EXCEPT !.at = at] \in JobRow
         /\ Goto(c, at) = [job EXCEPT ![c] = [job[c] EXCEPT !.at = at]]
         /\ [job[c] EXCEPT !.at = at].at = at
         /\ [job[c] EXCEPT !.at = at].kind = job[c].kind
<1>1. job[c] \in JobRow
  BY ActingOnPage DEF IInv, RowsTyped
<1>2. Goto(c, at) = [job EXCEPT ![c] = [job[c] EXCEPT !.at = at]]
  BY ActingOnPage DEF Goto, IInv, RowsTyped
<1>. QED BY <1>1, <1>2 DEF JobRow

LEMMA GotoDone ==
  ASSUME IInv, NEW c \in Acting
  PROVE  \E j \in JobRow :
           /\ Goto(c, "done") = [job EXCEPT ![c] = j] /\ ~Knows(j)
           /\ j.at \in {"idle", "done"} /\ (c # Admin => j.at = "idle")
           /\ IF c = Admin THEN AdminPlace(j, admin) ELSE PagePlace(j)
<1>. DEFINE j == IF c = Admin THEN [job[c] EXCEPT !.at = "done"] ELSE Resting
<1>1. c = Admin => admin.action \in PageActions
  BY ActingOnPage
<1>2. job[c] \in JobRow /\ c \in Clients /\ job \in [Clients -> JobRow]
  BY ActingOnPage DEF IInv, RowsTyped
<1>3. Goto(c, "done") = [job EXCEPT ![c] = j]
  BY <1>1, <1>2 DEF Goto, PageActions, Verdicts
<1>4. j \in JobRow
  <2>1. Resting \in JobRow
    BY DEF JobRow, Ats, Resting, Charges
  <2>2. [job[c] EXCEPT !.at = "done"] \in JobRow
    BY <1>2 DEF JobRow, Ats
  <2>. QED BY <2>1, <2>2
<1>5. /\ j.at \in {"idle", "done"} /\ (c # Admin => j = Resting)
      /\ c = Admin => j.at = "done" /\ j.kind = job[Admin].kind
  BY <1>2 DEF JobRow, Resting
<1>6. ~Knows(j)
  BY <1>5 DEF Knows
<1>7. IF c = Admin THEN AdminPlace(j, admin) ELSE PagePlace(j)
  BY <1>1, <1>5 DEF IInv, PlacesFit, AdminPlace, PagePlace, PageAts, AdminAts, Resting
<1>8. c # Admin => j.at = "idle"
  BY <1>5 DEF Resting
<1>. QED BY <1>3, <1>4, <1>5, <1>6, <1>7, <1>8

\* What is recorded of the operation of a page by the time its client does more than
\* read it.
BusyAts ==
  {"prepare", "authorize", "submitting", "send", "accepted", "lookup", "inspect", "mark",
   "add_resolved"}

LEMMA BusyReported ==
  ASSUME IInv, NEW c \in Acting, job[c].at \in BusyAts
  PROVE  /\ Obs(Subject(c)) \in UsedEvents => pages[Subject(c)].op
         /\ Obs(Subject(c)) \in UsedEvents \/ (c = Subject(c) /\ pages[c].st \notin Named)
         /\ ~Idle(c) /\ ~At(c, "flushing")
<1>0. Subject(c) \in Pages /\ PageFits(Subject(c))
  BY ActingOnPage DEF IInv
<1>1. CASE c \in Pages
  <2>1. At(Worker, "waiting") /\ Subject(c) = c
    BY <1>1, ActingOnPage DEF IInv, PlacesFit, At, Idle, BusyAts
  <2>. QED BY <1>0, <2>1 DEF PageFits, PageOK, Attended, At, BusyAts, Idle
<1>2. CASE c \notin Pages
  <2>1. /\ c = Admin /\ Subject(c) = admin.on /\ admin.action \in PageActions
        /\ AdminFits /\ ClientFits(c)
    BY <1>2, ActingOnPage DEF IInv
  <2>2. job[Admin].at \notin {"prepare", "authorize", "submitting", "send", "accepted"}
    BY <2>1 DEF IInv, PlacesFit, AdminPlace, AdminAts
  <2>. QED BY <1>0, <2>1, <2>2 DEF AdminFits, ClientFits, Knows, At, BusyAts, Idle, PageFits, PageOK
<1>. QED BY <1>1, <1>2

LEMMA Unwritten ==
  ASSUME IInv, NEW p \in Pages
  PROVE  /\ pages = [pages EXCEPT ![p] = pages[p]] /\ pages[p] \in PageRow
         /\ provider = [provider EXCEPT ![p] = provider[p]] /\ provider[p] \in Tasks
  BY DEF IInv, RowsTyped

LEMMA PageFitsItself ==
  ASSUME IInv, NEW c \in Acting
  PROVE  /\ PageOK(pages[Subject(c)], provider[Subject(c)], job[Subject(c)].at,
                   Obs(Subject(c)) \in UsedEvents, job[Worker])
         /\ c \in Pages /\ ~Idle(c) => At(Worker, "waiting")
  BY ActingOnPage DEF IInv, PageFits, PlacesFit

\* The client is done with the page, which fits as it is left.
LEMMA DoneStep ==
  ASSUME IInv, NEW c, NEW p, NEW row, NEW task, PageWrite(c, p, row, task),
         job' = Goto(c, "done"), Lands(c, p, "idle", row, task)
  PROVE  Safe
<1>0. c \in Acting /\ p = Subject(c)
  BY DEF PageWrite
<1>1. PICK j \in JobRow :
        /\ Goto(c, "done") = [job EXCEPT ![c] = j] /\ ~Knows(j)
        /\ j.at \in {"idle", "done"} /\ (c # Admin => j.at = "idle")
        /\ IF c = Admin THEN AdminPlace(j, admin) ELSE PagePlace(j)
  BY <1>0, GotoDone
<1>2. Placed(c, p, j, row)
  BY <1>1 DEF Placed, SubmitAts
<1>3. c = p => j.at = "idle"
  BY <1>0, <1>1, ActingOnPage, Distinct
<1>4. Lands(c, p, j.at, row, task)
  BY <1>3 DEF Lands
<1>. QED BY <1>2, <1>4, PageStep

Causes == Technical \cup {"NONE", "CAP", "DENIED"}
PageStates == {"NONE", "RESERVED", "SUBMITTING", "WAITING"} \cup Succeeded \cup MediaFailure

\* A page that is not reported is not left where it would be reported.
LEMMA LeftOK ==
  ASSUME IInv, NEW c \in Acting, job[c].at \in BusyAts, NEW p, p = Subject(c),
         NEW row, NEW task, pages[p].op => row.op,
         Obs(p) \notin UsedEvents =>
           /\ row.st \notin Named \cup Succeeded
           /\ task \in {"none", "refused"} \/ row.st \in {"SUBMITTING", "SUBMISSION_UNKNOWN"}
  PROVE  Lands(c, p, "idle", row, task)
  BY BusyReported DEF PageOK, Lands

\* What is written when a client is done with a page.
LEMMA Written ==
  ASSUME IInv, NEW c \in Acting, job[c].at \in BusyAts, NEW p, p = Subject(c),
         NEW row \in PageRow, pages' = [pages EXCEPT ![p] = row], pages[p].op => row.op,
         NEW task \in Tasks, provider' = [provider EXCEPT ![p] = task],
         Steady(run, run'), ~run'.settled, job' = Goto(c, "done"),
         batch' = batch, faults' \in Nat, UNCHANGED <<outbox, host, flush, admin>>,
         Obs(p) \notin UsedEvents =>
           /\ row.st \notin Named \cup Succeeded
           /\ task \in {"none", "refused"} \/ row.st \in {"SUBMITTING", "SUBMISSION_UNKNOWN"}
  PROVE  Safe
<1>1. PageWrite(c, p, row, task)
  BY BusyReported DEF PageWrite
<1>2. Lands(c, p, "idle", row, task)
  BY LeftOK
<1>. QED BY <1>1, <1>2, DoneStep

LEMMA MarkStep ==
  ASSUME IInv, NEW c \in Acting, job[c].at \in BusyAts, NEW p, p = Subject(c),
         NEW st \in PageStates, NEW cause \in Causes, Mark(p, st, cause),
         job' = Goto(c, "done"),
         NEW task \in Tasks, provider' = [provider EXCEPT ![p] = task],
         batch' = batch, faults' \in Nat, UNCHANGED <<outbox, host, flush, admin>>,
         Obs(p) \notin UsedEvents =>
           /\ st \notin Named \cup Succeeded
           /\ task \in {"none", "refused"} \/ st \in {"SUBMITTING", "SUBMISSION_UNKNOWN"}
  PROVE  Safe
<1>. DEFINE row == [pages[p] EXCEPT !.st = st, !.cause = cause]
<1>1. p \in Pages /\ pages \in [Pages -> PageRow] /\ pages[p] \in PageRow
  BY ActingOnPage DEF IInv, RowsTyped
<1>2. row \in PageRow /\ row.st = st /\ row.op = pages[p].op
  BY <1>1 DEF PageRow, PageStates, Causes
<1>3. pages' = [pages EXCEPT ![p] = row]
  BY <1>1 DEF Mark
<1>. HIDE DEF row
<1>4. Steady(run, run') /\ ~run'.settled
  BY TechnicalFailureIsSteady, StandsStill DEF Mark, IInv, RowsTyped
<1>. QED BY <1>2, <1>3, <1>4, Written

\* The client goes on to another place.
LEMMA MoveStep ==
  ASSUME IInv, NEW c, NEW p, NEW row, NEW task, PageWrite(c, p, row, task),
         NEW at \in Ats \ {"done", "flushing", "add_resolved"}, job' = Goto(c, at),
         IF c = Admin THEN at \in AdminAts \ {"resolve", "refinalize"} ELSE at \in PageAts,
         at \in SubmitAts => job[c].at \in SubmitAts,
         c = Admin /\ at \in {"read", "lookup", "add_observed"} => admin.action = "REINSPECT",
         at = "add_observed" => row.op,
         at \in {"inspect", "mark"} => Obs(p) \in UsedEvents,
         c = Admin /\ at = "lookup" => Obs(p) \in UsedEvents,
         Lands(c, p, at, row, task)
  PROVE  Safe
<1>0. c \in Acting
  BY DEF PageWrite
<1>. DEFINE j == [job[c] EXCEPT !.at = at]
<1>1. j \in JobRow /\ job' = [job EXCEPT ![c] = j] /\ j.at = at /\ j.kind = job[c].kind
  BY <1>0, GotoMoves
<1>. HIDE DEF j
<1>2. IF c = Admin THEN AdminPlace(j, admin) ELSE PagePlace(j)
  BY <1>0, <1>1, ActingOnPage DEF IInv, PlacesFit, AdminPlace, PagePlace
<1>3. Knows(j) => Obs(p) \in UsedEvents
  BY <1>1 DEF Knows
<1>4. Placed(c, p, j, row)
  BY <1>1, <1>2, <1>3 DEF Placed
<1>5. Lands(c, p, j.at, row, task)
  BY <1>1
<1>. QED BY <1>4, <1>5, PageStep

\* A step that leaves the Run and the page task alone.
LEMMA Standing ==
  ASSUME IInv, UNCHANGED <<run, faults>>
  PROVE  Steady(run, run') /\ ~run'.settled /\ faults' \in Nat
  BY StandsStill DEF IInv, RowsTyped

\* The client looks for the observation of an operation the page carries, and flushes or adds it.
LEMMA FindStep ==
  ASSUME IInv, NEW c, NEW p, NEW row, NEW task, PageWrite(c, p, row, task),
         job' = FindObserved(c), row.op,
         c = Admin => admin.action = "REINSPECT",
         Obs(p) \notin UsedEvents => row.st \in Named /\ (c = p => At(Worker, "waiting"))
  PROVE  Safe
<1>0. /\ c \in Acting /\ p = Subject(c) /\ c \in Clients /\ p \in Pages /\ Obs(p) \in Events
      /\ job[c] \in JobRow /\ job \in [Clients -> JobRow] /\ PageFits(p)
      /\ c # p => c = Admin /\ (Obs(p) \notin UsedEvents => row = pages[p] /\ task = provider[p])
  BY ActingOnPage, EventsOfPages DEF IInv, RowsTyped, PageWrite
<1>1. ASSUME NEW at, Obs(p) \in UsedEvents \/ at = "add_observed"
      PROVE  Lands(c, p, at, row, task)
  <2>1. CASE Obs(p) \in UsedEvents
    BY <2>1 DEF PageOK, Lands
  <2>2. CASE Obs(p) \notin UsedEvents /\ c = p
    BY <1>1, <2>2 DEF PageOK, Lands, Attended, Named, Succeeded, At
  <2>3. CASE Obs(p) \notin UsedEvents /\ c # p
    BY <1>0, <2>3 DEF PageOK, Lands, PageFits
  <2>. QED BY <2>1, <2>2, <2>3
<1>2. CASE Obs(p) \notin UsedEvents
  <2>1. job' = Goto(c, "add_observed")
    BY <1>0, <1>2 DEF FindObserved, UsedEvents, Obs
  <2>2. Lands(c, p, "add_observed", row, task)
    BY <1>1
  <2>3. "add_observed" \in Ats \ {"done", "flushing", "add_resolved"}
        /\ "add_observed" \in PageAts \cap (AdminAts \ {"resolve", "refinalize"})
        /\ "add_observed" \notin SubmitAts
    BY DEF Ats, PageAts, AdminAts, SubmitAts
  <2>. QED BY <2>1, <2>2, <2>3, MoveStep
<1>3. CASE Obs(p) \in UsedEvents
  <2>. DEFINE then == AfterObserved(c)
              j == [job[c] EXCEPT !.at = "flushing", !.then = then]
  <2>1. then \in {"done", "inspect"}
    BY DEF AfterObserved
  <2>2. job' = [job EXCEPT ![c] = j]
    BY <1>0, <1>3 DEF FindObserved, UsedEvents, Obs, ThenFlush
  <2>. HIDE DEF then
  <2>3. j \in JobRow /\ j.at = "flushing" /\ j.then = then /\ j.kind = job[c].kind
    BY <1>0, <2>1 DEF JobRow, Ats
  <2>. HIDE DEF j
  <2>4. IF c = Admin THEN AdminPlace(j, admin) ELSE PagePlace(j)
    BY <1>0, <2>1, <2>3, ActingOnPage
       DEF IInv, PlacesFit, AdminPlace, PagePlace, AdminAts, PageAts
  <2>5. Placed(c, p, j, row)
    BY <1>3, <2>2, <2>3, <2>4 DEF Placed, SubmitAts
  <2>6. Lands(c, p, j.at, row, task)
    BY <1>1, <1>3
  <2>. QED BY <2>5, <2>6, PageStep
<1>. QED BY <1>2, <1>3

\* The client looks for the resolution of an operation.
LEMMA ResolvingStep ==
  ASSUME IInv, NEW c \in Acting, job[c].at \in {"inspect", "resolve"},
         NEW client \in JobRow, client.kind = job[c].kind, job' = Resolving(c, client),
         UNCHANGED <<run, pages, provider, batch, faults, outbox, host, flush, admin>>
  PROVE  Safe
<1>. DEFINE p == Subject(c)
            j == IF outbox[Obs(p)].state = "NONE" THEN Resting
                 ELSE IF outbox[Obs(p)].billing = "UNKNOWN" /\ client.news # "UNKNOWN"
                           /\ outbox[Res(p)].state = "NONE"
                      THEN [client EXCEPT !.at = "add_resolved"]
                 ELSE [client EXCEPT !.at = "flushing", !.then = "mark"]
<1>0. /\ c \in Clients /\ p \in Pages /\ Obs(p) \in Events
      /\ (c # p => c = Admin) /\ (c = Admin => c # p)
      /\ c = p => At(c, "inspect")
      /\ c = Admin => admin.action \in PageActions
  <2>1. Subject(c) \in Pages /\ (c \in Pages => job[c].at # "resolve")
    BY ActingOnPage DEF IInv, PlacesFit, PagePlace, PageAts
  <2>. QED BY <2>1, ActingOnPage, EventsOfPages, Distinct DEF At
<1>1. ~Idle(c) /\ ~At(c, "flushing")
  BY DEF Idle, At
<1>2. PageWrite(c, p, pages[p], provider[p])
  BY <1>0, <1>1, Unwritten, Standing DEF PageWrite
<1>3. job' = [job EXCEPT ![c] = j]
  BY DEF Resolving, Obs, Res
<1>4. /\ j \in JobRow
      /\ \/ j = Resting /\ Obs(p) \notin UsedEvents
         \/ /\ Obs(p) \in UsedEvents /\ j.kind = job[c].kind
            /\ \/ j.at = "add_resolved" /\ outbox[Obs(p)].billing = "UNKNOWN"
               \/ j.at = "flushing" /\ j.then = "mark"
  <2>1. Obs(p) \in UsedEvents <=> outbox[Obs(p)].state # "NONE"
    BY <1>0 DEF UsedEvents
  <2>2. /\ Resting \in JobRow /\ [client EXCEPT !.at = "add_resolved"] \in JobRow
        /\ [client EXCEPT !.at = "flushing", !.then = "mark"] \in JobRow
    <3>1. Resting \in JobRow
      BY DEF JobRow, Ats, Resting, Charges
    <3>2. {"add_resolved", "flushing", "mark"} \subseteq Ats
      BY DEF Ats
    <3>. QED BY <3>1, <3>2 DEF JobRow
  <2>3. /\ [client EXCEPT !.at = "add_resolved"].at = "add_resolved"
        /\ [client EXCEPT !.at = "add_resolved"].kind = job[c].kind
        /\ [client EXCEPT !.at = "flushing", !.then = "mark"].at = "flushing"
        /\ [client EXCEPT !.at = "flushing", !.then = "mark"].then = "mark"
        /\ [client EXCEPT !.at = "flushing", !.then = "mark"].kind = job[c].kind
    BY DEF JobRow
  <2>. QED BY <2>1, <2>2, <2>3
<1>5. Obs(p) \notin UsedEvents => c = Admin
  BY <1>0 DEF IInv, ClientFits, Knows, At
<1>. HIDE DEF j
<1>6. IF c = Admin THEN AdminPlace(j, admin) ELSE PagePlace(j)
  BY <1>0, <1>4, <1>5
     DEF IInv, PlacesFit, AdminPlace, PagePlace, AdminAts, PageAts, Resting
<1>7. Lands(c, p, j.at, pages[p], provider[p])
  <2>1. PageOK(pages[p], provider[p], job[p].at, Obs(p) \in UsedEvents, job[Worker])
    BY PageFitsItself
  <2>. QED BY <1>0, <1>5, <2>1 DEF PageOK, Lands
<1>8. Placed(c, p, j, pages[p])
  BY <1>3, <1>4, <1>6 DEF Placed, Knows, Resting, SubmitAts
<1>. HIDE DEF p
<1>. QED BY <1>2, <1>7, <1>8, PageStep

-----------------------------------------------------------------------------
(* The steps of a page. *)

LEMMA BusyPage ==
  ASSUME IInv, NEW p \in Pages, job[p].at \in BusyAts
  PROVE  /\ p \in Acting /\ Subject(p) = p /\ p # Admin /\ p \in Clients
         /\ ~Idle(p) /\ ~At(p, "flushing") /\ At(Worker, "waiting")
         /\ job \in [Clients -> JobRow] /\ pages \in [Pages -> PageRow] /\ provider \in [Pages -> Tasks]
         /\ job[p] \in JobRow /\ pages[p] \in PageRow /\ provider[p] \in Tasks
         /\ PageFits(p) /\ (Obs(p) \in UsedEvents => pages[p].op)
         /\ Obs(p) \in UsedEvents \/ pages[p].st \notin Named
         /\ job[p].at \in SubmitAts => job[Worker].then = "submitted"
<1>1. p \in Acting
  BY DEF Acting
<1>2. p # Admin /\ p \in Clients /\ Subject(p) = p
  BY <1>1, ActingOnPage
<1>3. /\ ~Idle(p) /\ ~At(p, "flushing") /\ (Obs(p) \in UsedEvents => pages[p].op)
      /\ Obs(p) \in UsedEvents \/ pages[p].st \notin Named
  BY <1>1, <1>2, BusyReported
<1>. QED BY <1>1, <1>2, <1>3 DEF IInv, RowsTyped, PlacesFit

\* Where a page may be left before its operation is reported.
LEMMA BusyLands ==
  ASSUME IInv, NEW p \in Pages, job[p].at \in BusyAts, NEW row, NEW task, NEW at,
         pages[p].op => row.op,
         Obs(p) \notin UsedEvents =>
           /\ row.st \notin Named \cup Succeeded
           /\ task \notin {"none", "refused"} => row.st \in {"SUBMITTING", "SUBMISSION_UNKNOWN"}
           /\ at \in {"authorize", "submitting"} => row.st \in {"RESERVED", "RESERVATION_UNKNOWN"}
           /\ at \in {"send", "accepted"} => row.st = "SUBMITTING"
  PROVE  Lands(p, p, at, row, task)
  BY BusyPage DEF Lands, PageOK

\* A page step that leaves the Run and the image task alone.
LEMMA BusyWrite ==
  ASSUME IInv, NEW p \in Pages, job[p].at \in BusyAts, NEW row \in PageRow,
         pages' = [pages EXCEPT ![p] = row], pages[p].op => row.op,
         UNCHANGED <<run, provider, faults, batch, outbox, host, flush, admin>>
  PROVE  PageWrite(p, p, row, provider[p])
<1>1. /\ p \in Acting /\ ~Idle(p) /\ ~At(p, "flushing") /\ p = Subject(p)
      /\ Obs(p) \in UsedEvents \/ pages[p].st \notin Named
  BY BusyPage
<1>2. provider' = [provider EXCEPT ![p] = provider[p]] /\ provider[p] \in Tasks
  BY Unwritten
<1>3. Steady(run, run') /\ ~run'.settled /\ faults' \in Nat
  BY Standing
<1>. QED BY <1>1, <1>2, <1>3 DEF PageWrite

LEMMA PrepareSafe ==
  ASSUME IInv, NEW p \in Pages, Prepare(p)
  PROVE  Safe
<1>1. job[p].at \in BusyAts /\ At(p, "prepare")
  BY DEF Prepare, At, BusyAts
<1>2. /\ p \in Acting /\ p # Admin /\ p \in Clients /\ pages[p] \in PageRow /\ job[p] \in JobRow
      /\ pages \in [Pages -> PageRow] /\ job \in [Clients -> JobRow] /\ PageFits(p)
      /\ Obs(p) \in UsedEvents \/ pages[p].st \notin Named
  BY <1>1, BusyPage
<1>3. UNCHANGED <<run, provider, faults, batch, outbox, host, flush, admin>>
  BY DEF Prepare, KeepUsage
<1>4. Obs(p) \notin UsedEvents =>
        /\ pages[p].st \notin Named \cup Succeeded
        /\ provider[p] \notin {"none", "refused"} => pages[p].st \in {"SUBMITTING", "SUBMISSION_UNKNOWN"}
  BY <1>2 DEF PageFits, PageOK
<1>5. ASSUME NEW at, at \in {"authorize", "idle", "read"},
             at = "authorize" => pages[p].st \in {"RESERVED", "RESERVATION_UNKNOWN"}
      PROVE  Lands(p, p, at, pages[p], provider[p])
  BY <1>1, <1>4, <1>5, BusyLands
<1>6. pages' = pages => PageWrite(p, p, pages[p], provider[p])
  BY <1>1, <1>2, <1>3, BusyWrite, Unwritten
<1>7. /\ "authorize" \in Ats \ {"done", "flushing", "add_resolved"} /\ "authorize" \in PageAts
      /\ job[p].at \in SubmitAts
  BY <1>1 DEF Ats, PageAts, SubmitAts, At
<1>8. CASE pages[p].st = "NONE" \/ Retriable(pages[p])
  <2>. DEFINE row == [pages[p] EXCEPT !.st = "RESERVED"]
  <2>1. row \in PageRow /\ row.op = pages[p].op /\ row.st = "RESERVED"
    BY <1>2 DEF PageRow
  <2>2. pages' = [pages EXCEPT ![p] = row] /\ job' = Goto(p, "authorize")
    BY <1>2, <1>8 DEF Prepare
  <2>. HIDE DEF row
  <2>3. PageWrite(p, p, row, provider[p])
    BY <1>1, <1>3, <2>1, <2>2, BusyWrite
  <2>4. Obs(p) \notin UsedEvents => provider[p] \in {"none", "refused"}
    BY <1>4, <1>8, <2>1 DEF Retriable
  <2>5. Lands(p, p, "authorize", row, provider[p])
    BY <1>1, <2>1, <2>4, BusyLands DEF Named, Succeeded
  <2>. QED BY <1>2, <1>7, <2>2, <2>3, <2>5, MoveStep
<1>9. CASE ~(pages[p].st = "NONE" \/ Retriable(pages[p]))
  <2>1. pages' = pages
    BY <1>9 DEF Prepare
  <2>2. CASE pages[p].st \in {"RESERVED", "RESERVATION_UNKNOWN"}
    <3>1. job' = Goto(p, "authorize")
      BY <1>9, <2>2 DEF Prepare
    <3>2. Lands(p, p, "authorize", pages[p], provider[p])
      BY <1>5, <2>2
    <3>. QED BY <1>2, <1>6, <1>7, <2>1, <3>1, <3>2, MoveStep
  <2>3. CASE pages[p].st \in {"SUBMITTING", "SUBMISSION_UNKNOWN"}
    <3>. DEFINE j == [job[p] EXCEPT !.at = "read", !.kind = "refresh"]
    <3>1. job' = [job EXCEPT ![p] = j]
      BY <1>2, <1>9, <2>3 DEF Prepare
    <3>2. j \in JobRow /\ j.at = "read" /\ j.kind = "refresh"
      BY <1>2 DEF JobRow, Ats
    <3>. HIDE DEF j
    <3>3. Placed(p, p, j, pages[p])
      BY <1>2, <3>1, <3>2 DEF Placed, Knows, PagePlace, PageAts, SubmitAts
    <3>4. Lands(p, p, j.at, pages[p], provider[p])
      BY <1>5, <3>2
    <3>. QED BY <1>6, <2>1, <3>3, <3>4, PageStep
  <2>4. CASE pages[p].st \notin {"RESERVED", "RESERVATION_UNKNOWN", "SUBMITTING", "SUBMISSION_UNKNOWN"}
    <3>1. job' = Goto(p, "done")
      BY <1>9, <2>4 DEF Prepare
    <3>2. Lands(p, p, "idle", pages[p], provider[p])
      BY <1>5
    <3>. QED BY <1>6, <2>1, <3>1, <3>2, DoneStep
  <2>. QED BY <2>2, <2>3, <2>4
<1>. QED BY <1>8, <1>9

LEMMA Faults ==
  ASSUME IInv, NEW kind, Fault(kind) \/ UNCHANGED faults
  PROVE  faults' \in Nat
  BY DEF Fault, IInv, RowsTyped

LEMMA MarkedStates ==
  /\ Unsuccessful \in {"FAILED", "FAILED_NOT_CHARGED"} /\ Unsuccessful \in PageStates
  /\ {"RESERVATION_UNKNOWN", "SUBMISSION_UNKNOWN", "BILLING_UNKNOWN"} \subseteq PageStates
  /\ {"RETRYABLE", "NON_RETRYABLE", "CAP", "DENIED"} \subseteq Causes
  /\ Named \cup Succeeded = {"WAITING", "BILLING_UNKNOWN", "COMPLETED", "COMPLETED_AFTER_CANCEL"}
  BY DEF Unsuccessful, PageStates, MediaFailure, Released, Causes, Technical, Succeeded, Named

\* A refusal of the host, and a cap that was reached.
LEMMA RefusedSafe ==
  ASSUME IInv, NEW p \in Pages, At(p, "authorize"), NEW permit \in {"DENIED", "REJECTED"},
         NEW cause \in {"DENIED", "NON_RETRYABLE"}, Refused(p, permit, cause),
         faults' \in Nat, UNCHANGED provider, KeepUsage
  PROVE  Safe
<1>. DEFINE why == KeepTechnical(p, cause)
            row == [pages[p] EXCEPT !.permit = permit, !.st = Unsuccessful, !.cause = why]
<1>1. job[p].at \in BusyAts
  BY DEF At, BusyAts
<1>2. /\ p \in Acting /\ p = Subject(p) /\ pages[p] \in PageRow /\ pages \in [Pages -> PageRow]
      /\ PageFits(p) /\ provider[p] \in Tasks /\ provider \in [Pages -> Tasks]
  BY <1>1, BusyPage
<1>3. why \in Causes
  BY MarkedStates DEF KeepTechnical, Causes
<1>4. run' = IF why \in Technical THEN TechnicalFailure(why, pages', batch) ELSE run
  BY <1>2 DEF Refused, PageRow
<1>. HIDE DEF why
<1>5. row \in PageRow /\ row.op = pages[p].op /\ row.st = Unsuccessful
  BY <1>2, <1>3, MarkedStates DEF PageRow, PageStates, Causes
<1>6. pages' = [pages EXCEPT ![p] = row] /\ job' = Goto(p, "done")
  BY <1>2 DEF Refused, why
<1>. HIDE DEF row
<1>7. Steady(run, run') /\ ~run'.settled
  BY <1>4, TechnicalFailureIsSteady, StandsStill DEF IInv, RowsTyped
<1>8. Obs(p) \notin UsedEvents =>
        row.st \notin Named \cup Succeeded /\ provider[p] \in {"none", "refused"}
  BY <1>2, <1>5, MarkedStates DEF PageFits, PageOK, At, Named
<1>9. batch' = batch /\ UNCHANGED <<outbox, host, flush, admin>>
      /\ provider' = [provider EXCEPT ![p] = provider[p]]
  BY <1>2, Unwritten DEF KeepUsage
<1>. QED BY <1>1, <1>2, <1>5, <1>6, <1>7, <1>8, <1>9, Written

LEMMA CapSafe ==
  ASSUME IInv, NEW p \in Pages, At(p, "authorize"), CapReached(p),
         faults' \in Nat, UNCHANGED provider, KeepUsage
  PROVE  Safe
<1>. DEFINE why == KeepTechnical(p, "CAP")
            row == [pages[p] EXCEPT !.st = Unsuccessful, !.cause = why]
<1>1. job[p].at \in BusyAts
  BY DEF At, BusyAts
<1>2. /\ p \in Acting /\ p = Subject(p) /\ pages[p] \in PageRow /\ pages \in [Pages -> PageRow]
      /\ PageFits(p) /\ provider[p] \in Tasks /\ provider \in [Pages -> Tasks]
  BY <1>1, BusyPage
<1>3. why \in Causes
  BY MarkedStates DEF KeepTechnical, Causes
<1>. HIDE DEF why
<1>5. row \in PageRow /\ row.op = pages[p].op /\ row.st = Unsuccessful
  BY <1>2, <1>3, MarkedStates DEF PageRow, PageStates, Causes
<1>6. pages' = [pages EXCEPT ![p] = row] /\ job' = Goto(p, "done")
  BY <1>2 DEF CapReached, why
<1>. HIDE DEF row
<1>7. Steady(run, run') /\ ~run'.settled
  BY PauseIsSteady, StandsStill DEF IInv, RowsTyped, CapReached, PausableStates
<1>8. Obs(p) \notin UsedEvents =>
        row.st \notin Named \cup Succeeded /\ provider[p] \in {"none", "refused"}
  BY <1>2, <1>5, MarkedStates DEF PageFits, PageOK, At, Named
<1>9. batch' = batch /\ UNCHANGED <<outbox, host, flush, admin>>
      /\ provider' = [provider EXCEPT ![p] = provider[p]]
  BY <1>2, Unwritten DEF KeepUsage
<1>. QED BY <1>1, <1>2, <1>5, <1>6, <1>7, <1>8, <1>9, Written

LEMMA AuthorizeSafe ==
  ASSUME IInv, NEW p \in Pages, Authorize(p)
  PROVE  Safe
<1>1. job[p].at \in BusyAts /\ At(p, "authorize")
  BY DEF Authorize, At, BusyAts
<1>2. /\ p \in Acting /\ p = Subject(p) /\ p # Admin /\ pages[p] \in PageRow
      /\ pages \in [Pages -> PageRow] /\ PageFits(p)
  BY <1>1, BusyPage
<1>3. UNCHANGED provider /\ KeepUsage
  BY DEF Authorize
<1>4. Obs(p) \notin UsedEvents =>
        /\ pages[p].st \in {"RESERVED", "RESERVATION_UNKNOWN"} /\ provider[p] \in {"none", "refused"}
  BY <1>1, <1>2 DEF PageFits, PageOK, At, Named
<1>5. CASE Permitted(p) /\ UNCHANGED faults
  <2>. DEFINE row == [pages[p] EXCEPT !.permit = "GRANTED"]
  <2>1. row \in PageRow /\ row.op = pages[p].op /\ row.st = pages[p].st
    BY <1>2 DEF PageRow
  <2>2. pages' = [pages EXCEPT ![p] = row] /\ job' = Goto(p, "submitting") /\ UNCHANGED run
    BY <1>2, <1>5 DEF Permitted
  <2>. HIDE DEF row
  <2>3. PageWrite(p, p, row, provider[p])
    BY <1>1, <1>3, <1>5, <2>1, <2>2, BusyWrite DEF KeepUsage
  <2>4. Lands(p, p, "submitting", row, provider[p])
    BY <1>1, <1>4, <2>1, MarkedStates, BusyLands
  <2>5. /\ "submitting" \in Ats \ {"done", "flushing", "add_resolved"} /\ "submitting" \in PageAts
        /\ job[p].at \in SubmitAts
    BY <1>1 DEF Ats, PageAts, SubmitAts, At
  <2>. QED BY <1>2, <2>2, <2>3, <2>4, <2>5, MoveStep
<1>6. CASE \E permit \in {"DENIED", "REJECTED"}, cause \in {"DENIED", "NON_RETRYABLE"} :
             Refused(p, permit, cause)
  <2>1. faults' \in Nat
    BY Faults DEF Authorize
  <2>. QED BY <1>1, <1>3, <1>6, <2>1, RefusedSafe
<1>7. CASE CapReached(p) /\ Fault("CAP")
  BY <1>1, <1>3, <1>7, Faults, CapSafe
<1>8. CASE MarkUnknown(p, "RESERVATION_UNKNOWN") /\ job' = Goto(p, "done") /\ Fault("LOST")
  <2>1. faults' \in Nat /\ Mark(p, "RESERVATION_UNKNOWN", "RETRYABLE")
    BY <1>8, Faults DEF MarkUnknown
  <2>2. provider' = [provider EXCEPT ![p] = provider[p]] /\ provider[p] \in Tasks
    BY <1>3, Unwritten
  <2>3. batch' = batch /\ UNCHANGED <<outbox, host, flush, admin>>
    BY <1>3 DEF KeepUsage
  <2>. QED BY <1>1, <1>2, <1>4, <1>8, <2>1, <2>2, <2>3, MarkedStates, MarkStep
<1>. QED BY <1>5, <1>6, <1>7, <1>8 DEF Authorize

LEMMA MarkSubmittingSafe ==
  ASSUME IInv, NEW p \in Pages, MarkSubmitting(p)
  PROVE  Safe
<1>1. job[p].at \in BusyAts /\ At(p, "submitting")
  BY DEF MarkSubmitting, At, BusyAts
<1>2. /\ p \in Acting /\ p = Subject(p) /\ p # Admin /\ pages[p] \in PageRow
      /\ pages \in [Pages -> PageRow] /\ PageFits(p)
  BY <1>1, BusyPage
<1>. DEFINE st == IF pages[p].st \in {"WAITING", "COMPLETED"} THEN pages[p].st ELSE "SUBMITTING"
            row == [pages[p] EXCEPT !.st = st]
<1>3. row \in PageRow /\ row.op = pages[p].op /\ row.st = st
  BY <1>2 DEF PageRow
<1>4. pages' = [pages EXCEPT ![p] = row] /\ job' = Goto(p, "send")
  BY <1>2 DEF MarkSubmitting
<1>5. Obs(p) \notin UsedEvents => st = "SUBMITTING"
  BY <1>1, <1>2, <1>3, MarkedStates DEF PageFits, PageOK, At
<1>. HIDE DEF row, st
<1>6. PageWrite(p, p, row, provider[p])
  BY <1>1, <1>3, <1>4, BusyWrite DEF MarkSubmitting, KeepUsage
<1>7. Lands(p, p, "send", row, provider[p])
  BY <1>1, <1>3, <1>5, MarkedStates, BusyLands
<1>8. /\ "send" \in Ats \ {"done", "flushing", "add_resolved"} /\ "send" \in PageAts
      /\ job[p].at \in SubmitAts
  BY <1>1 DEF Ats, PageAts, SubmitAts, At
<1>. QED BY <1>2, <1>4, <1>6, <1>7, <1>8, MoveStep

LEMMA SendAcceptedSafe ==
  ASSUME IInv, NEW p \in Pages, SendAccepted(p)
  PROVE  Safe
<1>. DEFINE news == IF provider[p] = "completed" THEN "CHARGED" ELSE "UNKNOWN"
            task == IF provider[p] \in {"none", "refused"} THEN "running" ELSE provider[p]
            j == [job[p] EXCEPT !.at = "accepted", !.news = news]
<1>1. job[p].at \in BusyAts /\ At(p, "send")
  BY DEF SendAccepted, At, BusyAts
<1>2. /\ p \in Acting /\ p = Subject(p) /\ p # Admin /\ pages[p] \in PageRow /\ job[p] \in JobRow
      /\ provider \in [Pages -> Tasks] /\ job \in [Clients -> JobRow] /\ PageFits(p)
      /\ ~Idle(p) /\ ~At(p, "flushing") /\ p \in Clients
      /\ Obs(p) \in UsedEvents \/ pages[p].st \notin Named
  BY <1>1, BusyPage
<1>3. task \in Tasks /\ provider' = [provider EXCEPT ![p] = task]
  BY <1>2 DEF SendAccepted, Accepted, Tasks
<1>4. job' = [job EXCEPT ![p] = j]
  BY <1>2 DEF SendAccepted
<1>5. news \in Charges
  BY DEF Charges
<1>. HIDE DEF news, task
<1>6. j \in JobRow /\ j.at = "accepted" /\ j.kind = job[p].kind
  BY <1>2, <1>5 DEF JobRow, Ats
<1>. HIDE DEF j
<1>7. PagePlace(j)
  BY <1>6 DEF IInv, PlacesFit, PagePlace, PageAts
<1>8. Placed(p, p, j, pages[p])
  BY <1>1, <1>2, <1>4, <1>6, <1>7 DEF Placed, Knows, SubmitAts, At
<1>9. PageWrite(p, p, pages[p], task)
  BY <1>2, <1>3, Unwritten, Standing DEF PageWrite, SendAccepted, KeepUsage
<1>10. Obs(p) \notin UsedEvents => pages[p].st = "SUBMITTING"
  BY <1>1, <1>2 DEF PageFits, PageOK, At
<1>11. Lands(p, p, j.at, pages[p], task)
  BY <1>1, <1>6, <1>10, MarkedStates, BusyLands
<1>. QED BY <1>8, <1>9, <1>11, PageStep

LEMMA SendRefusedSafe ==
  ASSUME IInv, NEW p \in Pages, SendRefused(p)
  PROVE  Safe
<1>1. job[p].at \in BusyAts
  BY DEF SendRefused, At, BusyAts
<1>2. p \in Acting /\ p = Subject(p)
  BY <1>1, BusyPage
<1>3. /\ Mark(p, Unsuccessful, "RETRYABLE") /\ job' = Goto(p, "done") /\ faults' \in Nat
      /\ batch' = batch /\ UNCHANGED <<outbox, host, flush, admin>>
      /\ UNCHANGED provider /\ provider[p] \in {"none", "refused"}
  BY Faults DEF SendRefused, KeepUsage
<1>4. provider' = [provider EXCEPT ![p] = provider[p]] /\ provider[p] \in Tasks
  BY <1>3, Unwritten
<1>5. Unsuccessful \notin Named \cup Succeeded
  BY MarkedStates
<1>. DEFINE st == Unsuccessful
<1>6. st \in PageStates
  BY MarkedStates
<1>. HIDE DEF st
<1>7. Mark(p, st, "RETRYABLE") /\ "RETRYABLE" \in Causes
  BY <1>3, MarkedStates DEF st
<1>8. st \notin Named \cup Succeeded
  BY <1>5 DEF st
<1>. QED BY <1>1, <1>2, <1>3, <1>4, <1>6, <1>7, <1>8, MarkStep

\* The worker waits for the submission, and reads the page in its next tick.
LEMMA SendDoubtedSafe ==
  ASSUME IInv, NEW p \in Pages, SendDoubted(p)
  PROVE  Safe
<1>1. job[p].at \in BusyAts /\ job[p].at \in SubmitAts
  BY DEF SendDoubted, At, BusyAts, SubmitAts
<1>2. /\ p \in Acting /\ p = Subject(p) /\ pages[p] \in PageRow /\ pages \in [Pages -> PageRow]
      /\ ~Idle(p) /\ ~At(p, "flushing") /\ At(Worker, "waiting") /\ job[Worker].then = "submitted"
      /\ Obs(p) \in UsedEvents \/ pages[p].st \notin Named
  BY <1>1, BusyPage
<1>3. PICK end \in {"unknown", "failed"} :
        /\ provider' = [provider EXCEPT ![p] = end]
        /\ pages' = [pages EXCEPT ![p].op = TRUE, ![p].cause = "RETRYABLE",
             ![p].st = IF end = "unknown" THEN "SUBMISSION_UNKNOWN" ELSE "BILLING_UNKNOWN"]
  BY DEF SendDoubted
<1>. DEFINE st == IF end = "unknown" THEN "SUBMISSION_UNKNOWN" ELSE "BILLING_UNKNOWN"
            row == [pages[p] EXCEPT !.op = TRUE, !.cause = "RETRYABLE", !.st = st]
<1>4. pages' = [pages EXCEPT ![p] = row]
  BY <1>2, <1>3
<1>5. row \in PageRow /\ row.op /\ row.st \in {"SUBMISSION_UNKNOWN", "BILLING_UNKNOWN"}
  BY <1>2 DEF PageRow, MediaFailure, Technical
<1>. HIDE DEF row
<1>6. Steady(run, run') /\ ~run'.settled
  BY TechnicalFailureIsSteady DEF IInv, RowsTyped, SendDoubted
<1>7. end \in Tasks /\ faults' \in Nat
  BY DEF Tasks, SendDoubted, IInv, RowsTyped
<1>8. PageWrite(p, p, row, end)
  BY <1>2, <1>3, <1>4, <1>5, <1>6, <1>7 DEF PageWrite, SendDoubted, KeepUsage
<1>9. Lands(p, p, "idle", row, end)
  BY <1>2, <1>5 DEF Lands, PageOK, Attended, Named, Succeeded, At
<1>. QED BY <1>8, <1>9, DoneStep DEF SendDoubted

\* A step that leaves the charge of the operation unknown.
LEMMA SendLostSafe ==
  ASSUME IInv, NEW p \in Pages, SendLost(p)
  PROVE  Safe
<1>. DEFINE accepted == IF provider[p] \in {"none", "refused"} THEN "running" ELSE provider[p]
<1>1. job[p].at \in BusyAts
  BY DEF SendLost, At, BusyAts
<1>2. p \in Acting /\ p = Subject(p) /\ provider \in [Pages -> Tasks] /\ provider[p] \in Tasks
  BY <1>1, BusyPage
<1>3. PICK task \in Tasks : provider' = [provider EXCEPT ![p] = task]
  <2>1. accepted \in Tasks /\ (Accepted(p) => provider' = [provider EXCEPT ![p] = accepted])
    BY <1>2 DEF Accepted, Tasks
  <2>2. provider' = provider => provider' = [provider EXCEPT ![p] = provider[p]]
    BY Unwritten
  <2>. QED BY <1>2, <2>1, <2>2 DEF SendLost
<1>4. /\ Mark(p, "SUBMISSION_UNKNOWN", "RETRYABLE") /\ job' = Goto(p, "done") /\ faults' \in Nat
      /\ batch' = batch /\ UNCHANGED <<outbox, host, flush, admin>>
  BY Faults DEF SendLost, MarkUnknown, KeepUsage
<1>. QED BY <1>1, <1>2, <1>3, <1>4, MarkedStates, MarkStep

LEMMA MarkWaitingSafe ==
  ASSUME IInv, NEW p \in Pages, MarkWaiting(p)
  PROVE  Safe
<1>. DEFINE row == [pages[p] EXCEPT !.st = "WAITING", !.op = TRUE]
<1>1. job[p].at \in BusyAts
  BY DEF MarkWaiting, At, BusyAts
<1>2. pages[p] \in PageRow /\ pages \in [Pages -> PageRow] /\ At(Worker, "waiting")
  BY <1>1, BusyPage
<1>3. row \in PageRow /\ row.op /\ row.st = "WAITING" /\ pages' = [pages EXCEPT ![p] = row]
  BY <1>2 DEF PageRow, MarkWaiting, Waiting
<1>. HIDE DEF row
<1>4. PageWrite(p, p, row, provider[p]) /\ job' = FindObserved(p)
  BY <1>1, <1>3, BusyWrite DEF MarkWaiting, KeepUsage
<1>. QED BY <1>2, <1>3, <1>4, Distinct, FindStep DEF Named

-----------------------------------------------------------------------------
(* The refreshing of a page, by its own client or by the administrator. *)

RefreshAts == {"read", "lookup", "inspect", "mark", "add_observed", "add_resolved"}

LEMMA RefreshActs ==
  ASSUME IInv, NEW c \in Pages \cup {Admin}, job[c].at \in RefreshAts
  PROVE  /\ c \in Acting /\ Subject(c) \in Pages /\ c \in Clients /\ c # Worker /\ c # Nobody
         /\ c \in Pages => Subject(c) = c /\ c # Admin /\ At(Worker, "waiting")
         /\ c \notin Pages => c = Admin /\ Subject(c) = admin.on /\ admin.action \in PageActions
                              /\ pages[Subject(c)].op
         /\ c = Subject(c) => At(Worker, "waiting")
         /\ ~Idle(c) /\ ~At(c, "flushing")
         /\ job[c] \in JobRow /\ pages[Subject(c)] \in PageRow /\ provider[Subject(c)] \in Tasks
         /\ pages \in [Pages -> PageRow] /\ provider \in [Pages -> Tasks] /\ job \in [Clients -> JobRow]
         /\ PageFits(Subject(c)) /\ ClientFits(c)
<1>1. c \in Acting
  <2>1. CASE c \in Pages
    BY <2>1 DEF Acting
  <2>2. CASE c = Admin
    BY <2>2 DEF Acting, IInv, PlacesFit, AdminPlace, RefreshAts
  <2>. QED BY <2>1, <2>2
<1>2. ~Idle(c) /\ ~At(c, "flushing")
  BY DEF Idle, At, RefreshAts
<1>3. c \in Pages => At(Worker, "waiting")
  BY <1>2 DEF IInv, PlacesFit
<1>. QED BY <1>1, <1>2, <1>3, ActingOnPage DEF IInv, RowsTyped

\* A refresh that leaves the Run, the page and the task alone.
LEMMA RefreshWrite ==
  ASSUME IInv, NEW c \in Pages \cup {Admin}, job[c].at \in RefreshAts, NEW p, p = Subject(c),
         NEW row \in PageRow, pages' = [pages EXCEPT ![p] = row], pages[p].op => row.op,
         job[c].at \in BusyAts \/ row = pages[p],
         UNCHANGED <<run, provider, faults, batch, outbox, host, flush, admin>>
  PROVE  PageWrite(c, p, row, provider[p])
<1>1. c \in Acting /\ ~Idle(c) /\ ~At(c, "flushing") /\ p \in Pages
  BY RefreshActs
<1>2. provider' = [provider EXCEPT ![p] = provider[p]] /\ provider[p] \in Tasks
  BY <1>1, Unwritten
<1>3. Steady(run, run') /\ ~run'.settled /\ faults' \in Nat
  BY Standing
<1>4. Obs(p) \in UsedEvents \/ row = pages[p] \/ (c = p /\ pages[p].st \notin Named)
  BY <1>1, BusyReported
<1>. QED BY <1>1, <1>2, <1>3, <1>4 DEF PageWrite

LEMMA ReadSafe ==
  ASSUME IInv, NEW c \in Pages \cup {Admin}, Read(c)
  PROVE  Safe
<1>. DEFINE p == Subject(c)
<1>1. job[c].at \in RefreshAts /\ At(c, "read")
  BY DEF Read, At, RefreshAts
<1>2. /\ c \in Acting /\ p \in Pages /\ pages[p] \in PageRow /\ PageFits(p)
      /\ c # p => c = Admin /\ pages[p].op
      /\ c = Admin => c # p
      /\ c = p => At(Worker, "waiting")
  BY <1>1, RefreshActs, Distinct
<1>11. c = Admin => /\ admin.action = "REINSPECT"
                    /\ Obs(p) \in UsedEvents \/ pages[p].st \in Named
  BY <1>1, <1>2, RefreshActs DEF IInv, PlacesFit, AdminPlace, AdminFits, Lawful, At
<1>3. pages' = pages /\ UNCHANGED <<run, provider, faults, batch, outbox, host, flush, admin>>
  BY DEF Read, KeepUsage
<1>4. pages' = [pages EXCEPT ![p] = pages[p]]
  BY <1>2, <1>3, Unwritten
<1>. HIDE DEF p
<1>5. p = Subject(c)
  BY DEF p
<1>6. PageWrite(c, p, pages[p], provider[p])
  BY <1>1, <1>2, <1>3, <1>4, <1>5, RefreshWrite
<1>7. /\ pages[p].st \in Named => pages[p].op
      /\ "SUBMISSION_UNKNOWN" \notin Named /\ "SUBMITTING" \notin Named
      /\ c # p => c = Admin
  BY <1>2 DEF PageFits, PageOK, Named
<1>8. CASE pages[p].st \in {"WAITING", "BILLING_UNKNOWN"} /\ pages[p].op
  <2>1. job' = FindObserved(c)
    BY <1>5, <1>8 DEF Read
  <2>. QED BY <1>2, <1>6, <1>8, <1>11, <2>1, FindStep DEF Named
<1>9. CASE \/ pages[p].st = "SUBMISSION_UNKNOWN"
           \/ pages[p].st = "SUBMITTING" /\ ~pages[p].op
  <2>1. job' = Goto(c, "lookup")
    BY <1>5, <1>9 DEF Read
  <2>2. Lands(c, p, "lookup", pages[p], provider[p])
    BY <1>2, <1>7, <1>9, <1>11 DEF Lands, PageFits, PageOK
  <2>3. "lookup" \in Ats \ {"done", "flushing", "add_resolved"}
        /\ "lookup" \in PageAts \cap (AdminAts \ {"resolve", "refinalize"})
        /\ "lookup" \notin SubmitAts
    BY DEF Ats, PageAts, AdminAts, SubmitAts
  <2>4. c = Admin => Obs(p) \in UsedEvents
    BY <1>7, <1>9, <1>11
  <2>. QED BY <1>6, <1>11, <2>1, <2>2, <2>3, <2>4, MoveStep
<1>10. CASE /\ ~(pages[p].st \in {"WAITING", "BILLING_UNKNOWN"} /\ pages[p].op)
            /\ ~(\/ pages[p].st = "SUBMISSION_UNKNOWN"
                 \/ pages[p].st = "SUBMITTING" /\ ~pages[p].op)
  <2>1. job' = Goto(c, "done")
    BY <1>5, <1>10 DEF Read
  <2>2. Lands(c, p, "idle", pages[p], provider[p])
    BY <1>2, <1>7, <1>10 DEF Lands, PageFits, PageOK, Named
  <2>. QED BY <1>6, <2>1, <2>2, DoneStep
<1>. QED BY <1>8, <1>9, <1>10

LEMMA LookupSafe ==
  ASSUME IInv, NEW c \in Pages \cup {Admin}, Lookup(c)
  PROVE  Safe
<1>. DEFINE p == Subject(c)
            row == [pages[p] EXCEPT !.st = "WAITING", !.op = TRUE]
<1>1. job[c].at \in RefreshAts /\ At(c, "lookup") /\ job[c].at \in BusyAts
  BY DEF Lookup, At, RefreshAts, BusyAts
<1>2. /\ c \in Acting /\ p \in Pages /\ pages[p] \in PageRow /\ PageFits(p)
      /\ pages \in [Pages -> PageRow]
      /\ c # p => c = Admin /\ pages[p].op /\ p = admin.on /\ admin.action \in PageActions
      /\ c = Admin => c # p
      /\ c = p => At(Worker, "waiting")
  BY <1>1, RefreshActs, Distinct
<1>3. UNCHANGED <<provider, faults, batch, outbox, host, flush, admin>> /\ faults' \in Nat
  BY DEF Lookup, KeepUsage, IInv, RowsTyped
<1>4. provider' = [provider EXCEPT ![p] = provider[p]] /\ provider[p] \in Tasks
  BY <1>2, <1>3, Unwritten
<1>5. p = Subject(c)
  OBVIOUS
<1>6. CASE provider[p] \in {"running", "completed", "failed"}
  <2>1. pages' = [pages EXCEPT ![p] = row] /\ job' = Goto(c, "read") /\ run' = run
    BY <1>2, <1>6 DEF Lookup, Waiting
  <2>2. row \in PageRow /\ row.op /\ row.st = "WAITING"
    BY <1>2 DEF PageRow
  <2>. HIDE DEF p, row
  <2>3. PageWrite(c, p, row, provider[p])
    BY <1>1, <1>3, <1>5, <2>1, <2>2, RefreshWrite
  <2>4. c # p => Obs(p) \in UsedEvents
    BY <1>1, <1>2 DEF IInv, AdminFits
  <2>5. Lands(c, p, "read", row, provider[p])
    BY <1>2, <2>2, <2>4 DEF Lands, PageOK, At, Attended, Named, Succeeded
  <2>6. "read" \in Ats \ {"done", "flushing", "add_resolved"}
        /\ "read" \in PageAts \cap (AdminAts \ {"resolve", "refinalize"})
        /\ "read" \notin SubmitAts
    BY DEF Ats, PageAts, AdminAts, SubmitAts
  <2>7. c = Admin => admin.action = "REINSPECT"
    BY <1>1 DEF IInv, PlacesFit, AdminPlace, At
  <2>. QED BY <2>1, <2>3, <2>5, <2>6, <2>7, MoveStep
<1>7. CASE provider[p] = "refused"
  <2>. DEFINE st == Unsuccessful
  <2>1. Mark(p, st, "RETRYABLE") /\ job' = Goto(c, "done")
    BY <1>7 DEF Lookup
  <2>2. st \in PageStates /\ st \notin Named \cup Succeeded /\ "RETRYABLE" \in Causes
    BY MarkedStates
  <2>. HIDE DEF p, st
  <2>3. batch' = batch /\ UNCHANGED <<outbox, host, flush, admin>>
    BY <1>3
  <2>4. c \in Acting /\ provider[p] \in {"none", "refused"}
    BY <1>2, <1>7
  <2>. QED BY <1>1, <1>3, <1>4, <1>5, <2>1, <2>2, <2>3, <2>4, MarkStep
<1>8. CASE provider[p] \notin {"running", "completed", "failed", "refused"}
  <2>1. Mark(p, "SUBMISSION_UNKNOWN", "RETRYABLE") /\ job' = Goto(c, "done")
    BY <1>8 DEF Lookup, MarkUnknown
  <2>. HIDE DEF p
  <2>2. batch' = batch /\ UNCHANGED <<outbox, host, flush, admin>>
    BY <1>3
  <2>. DEFINE st == "SUBMISSION_UNKNOWN"
  <2>3. /\ st \in PageStates /\ st \notin Named \cup Succeeded /\ "RETRYABLE" \in Causes
        /\ st \in {"SUBMITTING", "SUBMISSION_UNKNOWN"} /\ Mark(p, st, "RETRYABLE") /\ c \in Acting
    BY <1>2, <2>1, MarkedStates
  <2>. HIDE DEF st
  <2>. QED BY <1>1, <1>3, <1>4, <1>5, <2>1, <2>2, <2>3, MarkStep
<1>. QED BY <1>6, <1>7, <1>8

LEMMA InspectSafe ==
  ASSUME IInv, NEW c \in Pages \cup {Admin}, Inspect(c)
  PROVE  Safe
<1>. DEFINE p == Subject(c)
            client == [job[c] EXCEPT !.news = News(p)]
<1>1. job[c].at \in RefreshAts /\ At(c, "inspect") /\ job[c].at \in BusyAts
  BY DEF Inspect, At, RefreshAts, BusyAts
<1>2. /\ c \in Acting /\ p \in Pages /\ pages[p] \in PageRow /\ PageFits(p) /\ ClientFits(c)
      /\ job[c] \in JobRow
  BY <1>1, RefreshActs
<1>3. UNCHANGED <<provider, faults, batch, outbox, host, flush, admin>> /\ faults' \in Nat
  BY DEF Inspect, KeepUsage, IInv, RowsTyped
<1>4. provider' = [provider EXCEPT ![p] = provider[p]] /\ provider[p] \in Tasks
  BY <1>2, <1>3, Unwritten
<1>5. p = Subject(c)
  OBVIOUS
<1>6. Obs(p) \in UsedEvents /\ pages[p].op
  BY <1>1, <1>2 DEF ClientFits, Knows, At, PageFits, PageOK
<1>7. CASE provider[p] \in {"none", "running"}
  <2>1. job' = Goto(c, "done") /\ run' = run /\ pages' = pages
    BY <1>7 DEF Inspect
  <2>2. pages' = [pages EXCEPT ![p] = pages[p]]
    BY <1>2, <2>1, Unwritten
  <2>. HIDE DEF p
  <2>3. PageWrite(c, p, pages[p], provider[p])
    BY <1>1, <1>2, <1>3, <1>5, <2>1, <2>2, RefreshWrite
  <2>4. Lands(c, p, "idle", pages[p], provider[p])
    BY <1>6 DEF Lands, PageOK
  <2>. QED BY <2>1, <2>3, <2>4, DoneStep
<1>8. CASE provider[p] = "unknown"
  <2>1. Mark(p, "SUBMISSION_UNKNOWN", "RETRYABLE") /\ job' = Goto(c, "done")
    BY <1>8 DEF Inspect, MarkUnknown
  <2>. HIDE DEF p
  <2>2. batch' = batch /\ UNCHANGED <<outbox, host, flush, admin>>
    BY <1>3
  <2>. QED BY <1>1, <1>2, <1>3, <1>4, <1>5, <2>1, <2>2, MarkedStates, MarkStep
<1>9. CASE provider[p] \notin {"none", "running", "unknown"}
  <2>1. job' = Resolving(c, client) /\ run' = run /\ pages' = pages
    BY <1>9 DEF Inspect
  <2>2. News(p) \in Charges
    BY DEF News, Charges
  <2>3. client \in JobRow /\ client.kind = job[c].kind
    BY <1>2, <2>2 DEF JobRow
  <2>. HIDE DEF client
  <2>4. job[c].at \in {"inspect", "resolve"}
    BY <1>1 DEF At
  <2>. QED BY <1>2, <1>3, <2>1, <2>3, <2>4, ResolvingStep
<1>. QED BY <1>7, <1>8, <1>9

LEMMA MarkResultSafe ==
  ASSUME IInv, NEW c \in Pages \cup {Admin}, MarkResult(c)
  PROVE  Safe
<1>. DEFINE p == Subject(c)
            ended == IF pages[p].st \in Succeeded THEN pages[p].st
                     ELSE IF run.status = "CANCELLED" THEN "COMPLETED_AFTER_CANCEL" ELSE "COMPLETED"
            row == [pages[p] EXCEPT !.st = ended]
<1>1. job[c].at \in RefreshAts /\ At(c, "mark") /\ job[c].at \in BusyAts
  BY DEF MarkResult, At, RefreshAts, BusyAts
<1>2. /\ c \in Acting /\ p \in Pages /\ pages[p] \in PageRow /\ PageFits(p) /\ ClientFits(c)
      /\ job[c] \in JobRow /\ pages \in [Pages -> PageRow]
  BY <1>1, RefreshActs
<1>3. /\ UNCHANGED <<provider, faults, batch, outbox, host, flush, admin>> /\ faults' \in Nat
      /\ job' = Goto(c, "done")
  BY DEF MarkResult, KeepUsage, IInv, RowsTyped
<1>4. provider' = [provider EXCEPT ![p] = provider[p]] /\ provider[p] \in Tasks
  BY <1>2, <1>3, Unwritten
<1>5. p = Subject(c)
  OBVIOUS
<1>6. Obs(p) \in UsedEvents /\ pages[p].op
  BY <1>1, <1>2 DEF ClientFits, Knows, At, PageFits, PageOK
<1>7. job[c].news \in Charges
  BY <1>2 DEF JobRow
<1>8. batch' = batch /\ UNCHANGED <<outbox, host, flush, admin>>
  BY <1>3
<1>9. CASE job[c].news = "CHARGED"
  <2>1. pages' = [pages EXCEPT ![p] = row] /\ run' = run
    BY <1>2, <1>9 DEF MarkResult, MarkEnded
  <2>2. ended \in PageStates
    BY DEF PageStates, Succeeded
  <2>3. row \in PageRow /\ row.op = pages[p].op
    BY <1>2, <2>2 DEF PageRow, PageStates
  <2>. HIDE DEF p, row
  <2>4. PageWrite(c, p, row, provider[p])
    BY <1>1, <1>3, <1>5, <2>1, <2>3, RefreshWrite
  <2>5. Lands(c, p, "idle", row, provider[p])
    BY <1>6, <2>3 DEF Lands, PageOK
  <2>. QED BY <1>3, <2>4, <2>5, DoneStep
<1>10. CASE job[c].news = "NOT_CHARGED"
  <2>. DEFINE st == Unsuccessful
  <2>1. Mark(p, st, "RETRYABLE")
    BY <1>10 DEF MarkResult, MarkEnded
  <2>2. st \in PageStates /\ "RETRYABLE" \in Causes
    BY MarkedStates
  <2>. HIDE DEF p, st
  <2>. QED BY <1>1, <1>2, <1>3, <1>4, <1>5, <1>6, <1>8, <2>1, <2>2, MarkStep
<1>11. CASE job[c].news = "UNKNOWN"
  <2>1. Mark(p, "BILLING_UNKNOWN", "RETRYABLE")
    BY <1>11 DEF MarkResult, MarkEnded
  <2>. HIDE DEF p
  <2>. QED BY <1>1, <1>2, <1>3, <1>4, <1>5, <1>6, <1>8, <2>1, MarkedStates, MarkStep
<1>. QED BY <1>7, <1>9, <1>10, <1>11 DEF Charges

LEMMA FindResolvedSafe ==
  ASSUME IInv, FindResolved
  PROVE  Safe
<1>1. job[Admin].at \in {"inspect", "resolve"} /\ job[Admin] \in JobRow
  BY Distinct DEF FindResolved, At, IInv, RowsTyped
<1>2. Admin \in Acting
  BY <1>1 DEF Acting, IInv, PlacesFit, AdminPlace
<1>. DEFINE client == job[Admin]
<1>3. client \in JobRow /\ client.kind = job[Admin].kind /\ job' = Resolving(Admin, client)
  BY <1>1 DEF FindResolved
<1>4. UNCHANGED <<run, pages, provider, batch, faults, outbox, host, flush, admin>>
  BY DEF FindResolved
<1>. HIDE DEF client
<1>. QED BY <1>1, <1>2, <1>3, <1>4, ResolvingStep

LEMMA ProviderEndsSafe ==
  ASSUME IInv, NEW p \in Pages, ProviderEnds(p)
  PROVE  Safe
<1>1. PICK end \in Tasks \ {"none"} : provider' = [provider EXCEPT ![p] = end]
  BY UsageAssumption DEF ProviderEnds, Tasks
<1>2. /\ provider' \in [Pages -> Tasks] /\ provider'[p] = end /\ provider[p] \in {"running", "unknown"}
      /\ \A q \in Pages : q # p => provider'[q] = provider[q]
  BY <1>1 DEF ProviderEnds, IInv, RowsTyped
<1>3. UNCHANGED <<run, pages, batch, outbox, host, job, flush, admin, faults>>
  BY DEF ProviderEnds
<1>4. /\ UsedEvents' = UsedEvents /\ Acting' = Acting /\ HasRejection' = HasRejection
      /\ (\A e : Carried(e)' = Carried(e)) /\ Billed' = Billed
      /\ (\A d : Subject(d)' = Subject(d) /\ Idle(d)' = Idle(d))
  BY <1>3 DEF UsedEvents, Acting, HasRejection, Carried, Billed, Received, Subject, Idle, At
<1>5. RowsTyped'
  BY <1>2, <1>3 DEF IInv, RowsTyped
<1>6. Numbered' /\ RunFits(run')
  BY <1>3, <1>4 DEF IInv, Numbered, Numbers
<1>7. LedgerFits'
  BY <1>3, <1>4 DEF IInv, LedgerFits, Entry, At
<1>8. PlacesFit'
  BY <1>3, <1>4 DEF IInv, PlacesFit, At
<1>9. (\A d \in Acting : ClientFits(d))' /\ AdminFits'
  BY <1>3, <1>4 DEF IInv, ClientFits, AdminFits, Lawful, At
<1>10. \A q \in Pages : PageFits(q)'
  BY <1>2, <1>3, <1>4 DEF IInv, PageFits, PageOK
<1>11. CloseFits'
  <2>1. \A q \in Pages : Untouched(q) => Untouched(q)'
    BY <1>2, <1>3, <1>4 DEF Untouched
  <2>2. LastWord' = LastWord
    BY <1>3 DEF LastWord
  <2>. QED BY <1>3, <1>4, <2>1, <2>2 DEF IInv, CloseFits, At
<1>12. Calm
  <2>1. Steady(run, run')
    BY <1>3, StandsStill DEF IInv, RowsTyped
  <2>. QED BY <1>3, <1>4, <2>1, QuietIsCalm DEF AtSettle, At
<1>. QED BY <1>5, <1>6, <1>7, <1>8, <1>9, <1>10, <1>11, <1>12 DEF IInv, Safe

-----------------------------------------------------------------------------
(* An event is added to the outbox. *)

LEMMA UsedCounted ==
  ASSUME IInv
  PROVE  /\ UsedEvents \subseteq Events /\ IsFiniteSet(UsedEvents)
         /\ Cardinality(UsedEvents) \in Nat /\ NextSeq = Cardinality(UsedEvents) + 1
         /\ \A e \in UsedEvents : outbox[e].seq \in Nat /\ outbox[e].seq > 0
                                  /\ outbox[e].seq <= Cardinality(UsedEvents)
<1>1. UsedEvents \in SUBSET Events
  BY DEF UsedEvents
<1>2. IsFiniteSet(UsedEvents) /\ Cardinality(UsedEvents) \in Nat
  BY <1>1, EventsCounted
<1>3. NextSeq = Cardinality(UsedEvents) + 1
  BY <1>2 DEF NextSeq, UsedEvents
<1>. QED BY <1>1, <1>2, <1>3 DEF IInv, Numbered, Numbers

\* What the host holds of an operation was used.
LEMMA ReceivedUsed ==
  ASSUME IInv, NEW p \in Pages
  PROVE  /\ Received(p, "OBSERVED") => Obs(p) \in UsedEvents /\ Carried(Obs(p))
         /\ Received(p, "RESOLVED") => Res(p) \in UsedEvents /\ Carried(Res(p))
<1>1. ASSUME NEW kind, Received(p, kind)
      PROVE  <<p, kind>> \in UsedEvents /\ Carried(<<p, kind>>)
  <2>1. PICK i \in 1..Len(host.ledger) : host.ledger[i].page = p /\ host.ledger[i].kind = kind
    BY <1>1 DEF Received
  <2>2. PICK e \in UsedEvents : outbox[e].seq = i /\ host.ledger[i] = Entry(e)
    BY <2>1 DEF IInv, LedgerFits
  <2>3. e[1] = p /\ e[2] = kind
    BY <2>1, <2>2 DEF Entry
  <2>4. e = <<p, kind>>
    BY <2>2, <2>3 DEF UsedEvents, Events
  <2>. QED BY <2>1, <2>2, <2>4 DEF Carried
<1>. QED BY <1>1 DEF Obs, Res

LEMMA CarriedReceived ==
  ASSUME IInv, NEW p \in Pages
  PROVE  /\ Obs(p) \in UsedEvents /\ Carried(Obs(p)) => Received(p, "OBSERVED")
         /\ Res(p) \in UsedEvents /\ Carried(Res(p)) => Received(p, "RESOLVED")
<1>1. ASSUME NEW e \in UsedEvents, Carried(e)
      PROVE  Received(e[1], e[2])
  <2>1. outbox[e].seq \in 1..Len(host.ledger)
    BY <1>1, UsedCounted DEF Carried, IInv, RowsTyped
  <2>2. PICK f \in UsedEvents : outbox[f].seq = outbox[e].seq /\ host.ledger[outbox[e].seq] = Entry(f)
    BY <2>1 DEF IInv, LedgerFits
  <2>3. f = e
    BY <2>2 DEF IInv, Numbered
  <2>. QED BY <2>1, <2>2, <2>3 DEF Received, Entry
<1>. QED BY <1>1 DEF Obs, Res

LEMMA OutboxGrows ==
  ASSUME IInv, NEW e \in Events, e \notin UsedEvents, NEW billing \in Charges,
         outbox' = Enqueued(e, billing)
  PROVE  /\ outbox' \in [Events -> EventRow]
         /\ UsedEvents' = UsedEvents \cup {e}
         /\ Cardinality(UsedEvents') = Cardinality(UsedEvents) + 1
         /\ outbox'[e].state = "PENDING" /\ outbox'[e].seq = Cardinality(UsedEvents) + 1
         /\ outbox'[e].billing = billing
         /\ \A f \in Events : f # e => outbox'[f] = outbox[f]
         /\ HasRejection' = HasRejection
<1>1. outbox \in [Events -> EventRow] /\ outbox[e].state = "NONE"
  BY DEF IInv, RowsTyped, UsedEvents
<1>. DEFINE n == Cardinality(UsedEvents)
            row == [state |-> "PENDING", seq |-> n + 1, billing |-> billing]
<1>2. n \in Nat /\ NextSeq = n + 1 /\ IsFiniteSet(UsedEvents)
  BY UsedCounted
<1>3. row \in EventRow /\ row.state = "PENDING" /\ row.seq = n + 1 /\ row.billing = billing
  BY <1>2 DEF EventRow
<1>4. outbox' = [outbox EXCEPT ![e] = row]
  BY <1>2 DEF Enqueued
<1>5. UsedEvents' = {f \in Events : outbox'[f].state # "NONE"}
  BY DEF UsedEvents
<1>. HIDE DEF row
<1>6. outbox'[e] = row /\ \A f \in Events : f # e => outbox'[f] = outbox[f]
  BY <1>1, <1>4
<1>7. UsedEvents' = UsedEvents \cup {e}
  BY <1>3, <1>5, <1>6 DEF UsedEvents
<1>8. Cardinality(UsedEvents') = n + 1
  BY <1>2, <1>7, FS_AddElement
<1>9. HasRejection' = HasRejection
  BY <1>1, <1>3, <1>6 DEF HasRejection
<1>10. outbox' \in [Events -> EventRow]
  BY <1>1, <1>3, <1>4
<1>. QED BY <1>3, <1>6, <1>7, <1>8, <1>9, <1>10

LEMMA GrownIsNumbered ==
  ASSUME IInv, NEW p \in Pages, NEW e \in {Obs(p), Res(p)}, e \notin UsedEvents,
         NEW billing \in Charges, outbox' = Enqueued(e, billing),
         e = Res(p) => Obs(p) \in UsedEvents /\ outbox[Obs(p)].billing = "UNKNOWN"
  PROVE  Numbered'
<1>. DEFINE n == Cardinality(UsedEvents)
<1>0. e \in Events
  BY EventsOfPages
<1>1. n \in Nat /\ (\A f \in UsedEvents : f \in Events /\ outbox[f].seq \in 1..n)
  BY UsedCounted
<1>2. /\ UsedEvents' = UsedEvents \cup {e} /\ Cardinality(UsedEvents') = n + 1
      /\ outbox'[e].state = "PENDING" /\ outbox'[e].seq = n + 1 /\ outbox'[e].billing = billing
      /\ \A f \in Events : f # e => outbox'[f] = outbox[f]
  BY <1>0, OutboxGrows
<1>3. Numbers' = 1..(n + 1) /\ Numbers = 1..n
  BY <1>2 DEF Numbers
<1>. HIDE DEF n
<1>4. \A f \in Events : outbox'[f].state = "NONE" => outbox'[f] = NoEvent
  BY <1>2 DEF IInv, Numbered
<1>5. \A f \in UsedEvents : f # e /\ outbox'[f] = outbox[f]
  BY <1>1, <1>2
<1>6. \A f \in UsedEvents' : outbox'[f].seq \in Numbers'
  BY <1>1, <1>2, <1>3, <1>5
<1>7. \A f, g \in UsedEvents' : outbox'[f].seq = outbox'[g].seq => f = g
  BY <1>1, <1>2, <1>5 DEF IInv, Numbered
<1>8. \A m \in Numbers' : \E f \in UsedEvents' : outbox'[f].seq = m
  <2>1. SUFFICES ASSUME NEW m \in 1..(n + 1) PROVE \E f \in UsedEvents' : outbox'[f].seq = m
    BY <1>3
  <2>2. CASE m = n + 1
    BY <1>2, <2>2
  <2>3. CASE m # n + 1
    <3>1. m \in Numbers
      BY <1>1, <1>3, <2>3
    <3>2. PICK f \in UsedEvents : outbox[f].seq = m
      BY <3>1 DEF IInv, Numbered
    <3>. QED BY <1>2, <1>5, <3>2
  <2>. QED BY <2>2, <2>3
<1>9. \A q \in Pages : Res(q) \in UsedEvents' =>
        /\ Obs(q) \in UsedEvents' /\ outbox'[Obs(q)].billing = "UNKNOWN"
        /\ outbox'[Obs(q)].seq < outbox'[Res(q)].seq
  <2>1. SUFFICES ASSUME NEW q \in Pages, Res(q) \in UsedEvents'
                 PROVE  /\ Obs(q) \in UsedEvents' /\ outbox'[Obs(q)].billing = "UNKNOWN"
                        /\ outbox'[Obs(q)].seq < outbox'[Res(q)].seq
    OBVIOUS
  <2>2. CASE Res(q) \in UsedEvents
    <3>1. /\ Obs(q) \in UsedEvents /\ outbox[Obs(q)].billing = "UNKNOWN"
          /\ outbox[Obs(q)].seq < outbox[Res(q)].seq
      BY <2>2 DEF IInv, Numbered
    <3>. QED BY <1>2, <1>5, <2>2, <3>1
  <2>3. CASE Res(q) = e
    <3>1. e = Res(p) /\ q = p
      BY <2>3, EventsOfPages
    <3>2. Obs(q) \in UsedEvents /\ outbox[Obs(q)].billing = "UNKNOWN"
      BY <3>1
    <3>. QED BY <1>1, <1>2, <1>5, <2>3, <3>2
  <2>. QED BY <1>2, <2>1, <2>2, <2>3
<1>. QED BY <1>4, <1>6, <1>7, <1>8, <1>9 DEF Numbered

\* No operation is added or resolved behind a closed bill, and none is added behind
\* the last word on a bill.
LEMMA OpenToEvents ==
  ASSUME IInv, NEW p \in Pages, NEW e \in {Obs(p), Res(p)}, e \notin UsedEvents, pages[p].op,
         e = Obs(p) => ~Idle(p) \/ pages[p].st \in Named,
         e = Res(p) => Obs(p) \in UsedEvents /\ outbox[Obs(p)].billing = "UNKNOWN"
  PROVE  ~host.closed /\ (e = Obs(p) => ~LastWord)
<1>1. e = Obs(p) => ~LastWord
  BY DEF IInv, CloseFits, Untouched, PendingMedia, Named
<1>2. ASSUME host.closed PROVE FALSE
  <2>1. e = Res(p) /\ p \in Billed
    BY <1>1, <1>2 DEF LastWord, IInv, CloseFits
  <2>2. Received(p, "RESOLVED")
    BY <2>1 DEF Billed, Obs
  <2>. QED BY <2>1, <2>2, ReceivedUsed
<1>. QED BY <1>1, <1>2

LEMMA EnqueueStep ==
  ASSUME IInv, NEW c \in Acting, ~Idle(c), ~At(c, "flushing"), NEW p, p = Subject(c),
         NEW e \in {Obs(p), Res(p)}, e \notin UsedEvents, pages[p].op,
         e = Obs(p) => At(c, "add_observed"),
         e = Res(p) => Obs(p) \in UsedEvents /\ outbox[Obs(p)].billing = "UNKNOWN",
         NEW billing \in Charges, outbox' = Enqueued(e, billing),
         NEW then \in {"done", "inspect", "mark"}, job' = ThenFlush(c, then),
         UNCHANGED <<run, pages, batch, host, provider, flush, admin, faults>>
  PROVE  Safe
<1>. DEFINE j == [job[c] EXCEPT !.at = "flushing", !.then = then]
<1>0. /\ c \in Clients /\ c # Worker /\ c # Nobody /\ p \in Pages /\ Worker \in Clients
      /\ c # p => c = Admin /\ admin.action \in PageActions /\ p = admin.on
      /\ c = Admin => c # p
      /\ job[c] \in JobRow /\ job \in [Clients -> JobRow] /\ e \in Events
  BY ActingOnPage, Distinct, EventsOfPages DEF IInv, RowsTyped
<1>1. /\ job' = [job EXCEPT ![c] = j]
      /\ j \in JobRow /\ j.at = "flushing" /\ j.then = then /\ j.kind = job[c].kind
  <2>1. job' = [job EXCEPT ![c] = j]
    BY <1>0 DEF ThenFlush
  <2>2. "flushing" \in Ats /\ then \in Ats
    BY DEF Ats
  <2>3. j \in JobRow /\ j.at = "flushing" /\ j.then = then /\ j.kind = job[c].kind
    BY <1>0, <2>2 DEF JobRow
  <2>. QED BY <2>1, <2>3
<1>. HIDE DEF j
<1>2. /\ job' \in [Clients -> JobRow] /\ job'[c] = j /\ job'[Worker] = job[Worker]
      /\ \A d \in Clients : d # c => job'[d] = job[d]
  BY <1>0, <1>1
<1>3. /\ outbox' \in [Events -> EventRow] /\ UsedEvents' = UsedEvents \cup {e}
      /\ Cardinality(UsedEvents') = Cardinality(UsedEvents) + 1
      /\ outbox'[e].state = "PENDING"
      /\ \A f \in Events : f # e => outbox'[f] = outbox[f]
      /\ HasRejection' = HasRejection
  BY <1>0, OutboxGrows
<1>4. \A f \in UsedEvents : f # e /\ outbox'[f] = outbox[f] /\ f \in Events
  BY <1>3 DEF UsedEvents
<1>15. e = Obs(p) /\ c # p => pages[p].st \in Named
  BY <1>0 DEF IInv, PlacesFit, AdminPlace, AdminFits, Lawful, At
<1>5. ~host.closed /\ (e = Obs(p) => ~LastWord)
  BY <1>0, <1>15, OpenToEvents
<1>6. RowsTyped' /\ RunFits(run')
  BY <1>2, <1>3 DEF IInv, RowsTyped
<1>7. Numbered'
  BY <1>0, GrownIsNumbered
<1>8. LedgerFits'
  <2>1. \A i \in 1..Len(host'.ledger) :
           \E f \in UsedEvents' : outbox'[f].seq = i /\ host'.ledger[i] = Entry(f)'
    <3>1. SUFFICES ASSUME NEW i \in 1..Len(host.ledger)
                   PROVE  \E f \in UsedEvents' : outbox'[f].seq = i /\ host.ledger[i] = Entry(f)'
      OBVIOUS
    <3>2. PICK f \in UsedEvents : outbox[f].seq = i /\ host.ledger[i] = Entry(f)
      BY DEF IInv, LedgerFits
    <3>3. f \in UsedEvents' /\ outbox'[f] = outbox[f]
      BY <1>3, <1>4
    <3>. QED BY <3>2, <3>3 DEF Entry
  <2>2. \A f \in Events : outbox'[f].state = "ACKNOWLEDGED" => Carried(f)'
    BY <1>3 DEF IInv, LedgerFits, Carried
  <2>3. flush.by # Nobody => ~HasRejection' /\ At(flush.by, "flushing")'
                             /\ flush.upto <= Cardinality(UsedEvents')
    <3>1. flush.by # Nobody => flush.by # c /\ flush.by \in Clients /\ flush.upto \in Nat
      BY DEF IInv, LedgerFits, RowsTyped, At
    <3>. QED BY <1>2, <1>3, <3>1, UsedCounted DEF IInv, LedgerFits, At
  <2>. QED BY <2>1, <2>2, <2>3 DEF LedgerFits
<1>9. PlacesFit'
  <2>1. \A q \in Pages :
          /\ PagePlace(job'[q]) /\ (job'[q].at # "idle" => At(Worker, "waiting"))
          /\ job'[q].at \in SubmitAts => job[Worker].then = "submitted"
    BY <1>0, <1>1, <1>2, Distinct DEF IInv, PlacesFit, PagePlace, PageAts, SubmitAts, At, Idle
  <2>2. AdminPlace(job'[Admin], admin)
    <3>1. CASE c = Admin
      BY <1>0, <1>1, <1>2, <3>1, Distinct DEF IInv, PlacesFit, AdminPlace, AdminAts
    <3>2. CASE c # Admin
      BY <1>2, <3>2, Distinct DEF IInv, PlacesFit
    <3>. QED BY <3>1, <3>2
  <2>. QED BY <1>2, <2>1, <2>2 DEF IInv, PlacesFit, At, Idle
<1>10. (\A d \in Acting : ClientFits(d))'
  <2>1. Acting' = Acting /\ (\A d : Subject(d)' = Subject(d))
    BY DEF Acting, Subject
  <2>2. SUFFICES ASSUME NEW d \in Acting PROVE ClientFits(d)'
    BY <2>1
  <2>3. d \in Clients /\ Subject(d) \in Pages /\ Obs(Subject(d)) \in Events
    BY ActingOnPage, EventsOfPages
  <2>4. CASE d = c
    <3>1. Obs(p) \in UsedEvents'
      BY <1>3
    <3>. QED BY <1>1, <1>2, <2>1, <2>4, <3>1 DEF ClientFits, At
  <2>5. CASE d # c
    <3>1. job'[d] = job[d] /\ ClientFits(d)
      BY <1>2, <2>3, <2>5 DEF IInv
    <3>2. Obs(Subject(d)) \in UsedEvents => outbox'[Obs(Subject(d))] = outbox[Obs(Subject(d))]
      BY <1>4
    <3>. QED BY <1>3, <2>1, <3>1, <3>2 DEF ClientFits, Knows, At
  <2>. QED BY <2>4, <2>5
<1>11. AdminFits'
  BY <1>0, <1>1, <1>2, <1>3, Distinct DEF IInv, AdminFits, Lawful, At
<1>12. \A q \in Pages : PageFits(q)'
  <2>1. SUFFICES ASSUME NEW q \in Pages PROVE PageFits(q)'
    OBVIOUS
  <2>2. PageFits(q) /\ q \in Clients
    BY Distinct DEF IInv
  <2>3. CASE q = p
    <3>1. Obs(p) \in UsedEvents'
      BY <1>3
    <3>. QED BY <2>2, <2>3, <3>1 DEF PageFits, PageOK
  <2>4. CASE q # p
    <3>1. job'[q] = job[q]
      BY <1>0, <1>2, <2>2, <2>4, Distinct
    <3>2. Obs(q) \in UsedEvents' <=> Obs(q) \in UsedEvents
      BY <1>3, <2>4, EventsOfPages
    <3>. QED BY <1>2, <2>2, <3>1, <3>2 DEF PageFits
  <2>. QED BY <2>3, <2>4
<1>13. CloseFits'
  <2>1. AdminCloses(job'[Admin]) => AdminCloses(job[Admin])
    <3>1. CASE c = Admin
      BY <1>1, <1>2, <3>1 DEF AdminCloses
    <3>2. CASE c # Admin
      BY <1>2, <3>2, Distinct
    <3>. QED BY <3>1, <3>2
  <2>2. LastWord' => LastWord
    BY <2>1 DEF LastWord
  <2>3. e = Obs(p) => job[Worker].at \in {"idle", "waiting", "submitted"}
    <3>1. PageFits(p) /\ (c = p => At(Worker, "waiting"))
      BY <1>0 DEF IInv, PlacesFit
    <3>. QED BY <1>15, <3>1 DEF PageFits, PageOK, Attended, At
  <2>4. e = Res(p) => \A q \in Pages :
          /\ Obs(q) \in UsedEvents' <=> Obs(q) \in UsedEvents
          /\ outbox'[Obs(q)] = outbox[Obs(q)]
    BY <1>3, EventsOfPages
  <2>5. ASSUME e = Res(p) PROVE CloseFits'
    <3>1. \A q \in Pages : Carried(Obs(q))' = Carried(Obs(q))
      BY <2>4, <2>5 DEF Carried
    <3>2. ASSUME LastWord, NEW q \in Pages
          PROVE  (Untouched(q) \/ (Obs(q) \in UsedEvents /\ Carried(Obs(q))))'
      <4>1. Untouched(q) \/ (Obs(q) \in UsedEvents /\ Carried(Obs(q)))
        BY <3>2 DEF IInv, CloseFits
      <4>2. CASE q = p
        BY <2>4, <2>5, <3>1, <4>1, <4>2 DEF Untouched
      <4>3. CASE q # p
        <5>1. job'[q] = job[q]
          BY <1>0, <1>2, <4>3, Distinct
        <5>. QED BY <2>4, <2>5, <3>1, <4>1, <5>1 DEF Untouched, Idle, At
      <4>. QED BY <4>2, <4>3
    <3>. QED BY <1>2, <1>5, <2>1, <2>2, <2>4, <2>5, <3>1, <3>2 DEF IInv, CloseFits, At
  <2>6. ASSUME e = Obs(p) PROVE CloseFits'
    BY <1>2, <1>5, <2>1, <2>2, <2>3, <2>6 DEF IInv, CloseFits, At, LastWord
  <2>. QED BY <2>5, <2>6
<1>14. Calm
  <2>1. Steady(run, run')
    BY StandsStill DEF IInv, RowsTyped
  <2>2. AtSettle' => AtSettle
    BY <1>0, <1>1, Distinct DEF AtSettle, At
  <2>3. \A q \in Pages : Idle(q) => Idle(q)'
    BY <1>0, <1>1, Distinct DEF Idle, At
  <2>. QED BY <2>1, <2>2, <2>3, QuietIsCalm
<1>. QED BY <1>6, <1>7, <1>8, <1>9, <1>10, <1>11, <1>12, <1>13, <1>14 DEF IInv, Safe

\* The second of two reports.
LEMMA ConflictStep ==
  ASSUME IInv, NEW c \in Pages \cup {Admin}, job[c].at \in {"add_observed", "add_resolved"},
         Obs(Subject(c)) \in UsedEvents, IdentityConflict(c),
         UNCHANGED <<batch, host, provider, flush, admin, faults>>
  PROVE  Safe
<1>. DEFINE p == Subject(c)
            row == [pages[p] EXCEPT !.cause = "NON_RETRYABLE"]
<1>0. job[c].at \in RefreshAts
  BY DEF RefreshAts
<1>1. /\ c \in Acting /\ p \in Pages /\ c \in Clients /\ ~Idle(c) /\ ~At(c, "flushing")
      /\ job \in [Clients -> JobRow] /\ pages[p] \in PageRow /\ pages \in [Pages -> PageRow]
      /\ c # Admin => c \in Pages
      /\ c = Admin => admin.action \in PageActions /\ admin.on \in Pages
      /\ PageFits(p)
  BY <1>0, RefreshActs, Distinct
<1>2. pages[p].op
  BY <1>1 DEF PageFits, PageOK
<1>3. faults' \in Nat /\ batch' = batch /\ UNCHANGED <<outbox, host, flush, admin>>
      /\ provider' = [provider EXCEPT ![p] = provider[p]] /\ provider[p] \in Tasks
  BY <1>1, Unwritten DEF IInv, RowsTyped, IdentityConflict
<1>4. CASE job[c].kind = "verdict"
  <2>1. c = Admin
    BY <1>1, <1>4 DEF IInv, PlacesFit, PagePlace
  <2>. DEFINE j == Resting
  <2>2. job' = [job EXCEPT ![c] = j] /\ run' = run /\ pages' = pages
    BY <1>4 DEF IdentityConflict
  <2>3. j \in JobRow /\ j.at = "idle" /\ AdminPlace(j, admin) /\ ~Knows(j)
    BY <1>1, <2>1 DEF JobRow, Ats, Charges, Resting, AdminPlace, AdminAts, Knows
  <2>. HIDE DEF j
  <2>4. pages' = [pages EXCEPT ![p] = pages[p]]
    BY <1>1, <2>2, Unwritten
  <2>. HIDE DEF p
  <2>5. p = Subject(c)
    BY DEF p
  <2>6. PageWrite(c, p, pages[p], provider[p])
    BY <1>0, <1>1, <1>3, <2>2, <2>4, <2>5, Standing DEF PageWrite
  <2>7. Placed(c, p, j, pages[p])
    BY <2>1, <2>2, <2>3 DEF Placed, SubmitAts
  <2>8. Obs(p) \in UsedEvents
    BY <2>5
  <2>9. Lands(c, p, j.at, pages[p], provider[p])
    BY <1>2, <2>8 DEF Lands, PageOK
  <2>. QED BY <2>6, <2>7, <2>9, PageStep
<1>5. CASE job[c].kind # "verdict"
  <2>1. /\ job' = Goto(c, "done") /\ run' = TechnicalFailure("NON_RETRYABLE", pages, batch)
        /\ pages' = [pages EXCEPT ![p] = row]
    BY <1>1, <1>5 DEF IdentityConflict
  <2>2. row \in PageRow /\ row.op = pages[p].op
    BY <1>1 DEF PageRow, Technical
  <2>3. Steady(run, run') /\ ~run'.settled
    BY <2>1, TechnicalFailureIsSteady DEF IInv
  <2>. HIDE DEF p, row
  <2>4. p = Subject(c)
    BY DEF p
  <2>5. PageWrite(c, p, row, provider[p])
    BY <1>1, <1>3, <2>1, <2>2, <2>3, <2>4 DEF PageWrite
  <2>6. Lands(c, p, "idle", row, provider[p])
    BY <1>2, <2>2, <2>4 DEF Lands, PageOK
  <2>. QED BY <2>1, <2>5, <2>6, DoneStep
<1>. QED BY <1>4, <1>5

LEMMA AddObservedSafe ==
  ASSUME IInv, NEW c \in Pages \cup {Admin}, AddObserved(c)
  PROVE  Safe
<1>. DEFINE p == Subject(c)
            billing == IF job[c].kind = "refresh" THEN "UNKNOWN" ELSE job[c].news
<1>1. job[c].at \in RefreshAts /\ At(c, "add_observed")
  BY DEF AddObserved, At, RefreshAts
<1>2. /\ c \in Acting /\ p \in Pages /\ ~Idle(c) /\ ~At(c, "flushing") /\ job[c] \in JobRow
      /\ ClientFits(c) /\ Obs(p) \in Events
  BY <1>1, RefreshActs, EventsOfPages
<1>3. pages[p].op
  BY <1>1, <1>2 DEF ClientFits
<1>4. CASE Obs(p) \in UsedEvents
  <2>1. IdentityConflict(c) /\ UNCHANGED <<batch, host, provider, flush, admin, faults>>
    BY <1>4 DEF AddObserved, AddEvent, UsedEvents, Obs
  <2>. QED BY <1>1, <1>4, <2>1, ConflictStep DEF At
<1>5. CASE Obs(p) \notin UsedEvents
  <2>1. /\ outbox' = Enqueued(Obs(p), billing) /\ job' = ThenFlush(c, AfterObserved(c))
        /\ UNCHANGED <<run, pages, batch, host, provider, flush, admin, faults>>
    BY <1>2, <1>5 DEF AddObserved, AddEvent, UsedEvents, Obs
  <2>2. billing \in Charges /\ AfterObserved(c) \in {"done", "inspect", "mark"}
    BY <1>2 DEF JobRow, Charges, AfterObserved
  <2>. DEFINE e == Obs(p)
              then == AfterObserved(c)
  <2>3. e \in {Obs(p), Res(p)} /\ e \notin UsedEvents /\ e # Res(p) /\ At(c, "add_observed")
    BY <1>1, <1>5, EventsOfPages
  <2>4. outbox' = Enqueued(e, billing) /\ then \in {"done", "inspect", "mark"} /\ job' = ThenFlush(c, then)
    BY <2>1, <2>2
  <2>5. UNCHANGED <<run, pages, batch, host, provider, flush, admin, faults>> /\ p = Subject(c)
    BY <2>1
  <2>. HIDE DEF e, then, billing, p
  <2>. QED BY <1>2, <1>3, <2>2, <2>3, <2>4, <2>5, EnqueueStep
<1>. QED BY <1>4, <1>5

LEMMA AddResolvedSafe ==
  ASSUME IInv, NEW c \in Pages \cup {Admin}, AddResolved(c)
  PROVE  Safe
<1>. DEFINE p == Subject(c)
            billing == job[c].news
<1>1. job[c].at \in RefreshAts /\ At(c, "add_resolved")
  BY DEF AddResolved, At, RefreshAts
<1>2. /\ c \in Acting /\ p \in Pages /\ ~Idle(c) /\ ~At(c, "flushing") /\ job[c] \in JobRow
      /\ ClientFits(c) /\ Res(p) \in Events /\ PageFits(p)
  BY <1>1, RefreshActs, EventsOfPages
<1>3. Obs(p) \in UsedEvents /\ outbox[Obs(p)].billing = "UNKNOWN" /\ pages[p].op
  BY <1>1, <1>2 DEF ClientFits, Knows, At, PageFits, PageOK
<1>4. CASE Res(p) \in UsedEvents
  <2>1. IdentityConflict(c) /\ UNCHANGED <<batch, host, provider, flush, admin, faults>>
    BY <1>4 DEF AddResolved, AddEvent, UsedEvents, Res
  <2>. QED BY <1>1, <1>3, <2>1, ConflictStep DEF At
<1>5. CASE Res(p) \notin UsedEvents
  <2>1. /\ outbox' = Enqueued(Res(p), billing) /\ job' = ThenFlush(c, "mark")
        /\ UNCHANGED <<run, pages, batch, host, provider, flush, admin, faults>>
    BY <1>2, <1>5 DEF AddResolved, AddEvent, UsedEvents, Res
  <2>. DEFINE e == Res(p)
  <2>2. /\ e \in {Obs(p), Res(p)} /\ e \notin UsedEvents /\ billing \in Charges
        /\ outbox' = Enqueued(e, billing) /\ p = Subject(c) /\ e # Obs(p)
    BY <1>2, <1>5, <2>1, EventsOfPages DEF JobRow
  <2>3. UNCHANGED <<run, pages, batch, host, provider, flush, admin, faults>> /\ job' = ThenFlush(c, "mark")
    BY <2>1
  <2>. HIDE DEF e, billing, p
  <2>. QED BY <1>2, <1>3, <2>2, <2>3, EnqueueStep
<1>. QED BY <1>4, <1>5

-----------------------------------------------------------------------------
(* The next event of a flush, and what the host makes of it. *)

LEMMA LeastExists ==
  ASSUME NEW S \in SUBSET Nat, S # {}
  PROVE  \E n \in S : \A m \in S : n <= m
<1>. DEFINE R == OpToRel(<, Nat)
<1>1. IsWellFoundedOn(R, Nat)
  BY NatLessThanWellFounded
<1>2. \A m, n \in Nat : ~(<<m, n>> \in R) => n <= m
  BY DEF OpToRel
<1>. HIDE DEF R
<1>3. PICK n \in S : \A m \in S : ~(<<m, n>> \in R)
  BY <1>1, WFMin
<1>. QED BY <1>2, <1>3

LEMMA NextIsOldest ==
  ASSUME IInv, Sending
  PROVE  /\ NextToSend \in Listed /\ NextToSend \in UsedEvents /\ NextToSend \in Events
         /\ \A f \in UsedEvents : outbox[f].seq < outbox[NextToSend].seq => Carried(f)
<1>0. \A e \in Listed : e \in UsedEvents /\ e \in Events /\ outbox[e].seq \in Nat
  BY DEF Listed, Undelivered, UsedEvents, IInv, RowsTyped, EventRow
<1>. DEFINE S == {outbox[e].seq : e \in Listed}
<1>1. S \in SUBSET Nat /\ S # {}
  BY <1>0 DEF Sending
<1>2. PICK n \in S : \A m \in S : n <= m
  <2>. HIDE DEF S
  <2>. QED BY <1>1, LeastExists
<1>3. PICK e \in Listed : outbox[e].seq = n
  BY <1>2
<1>4. \A f \in Listed : outbox[e].seq <= outbox[f].seq
  BY <1>2, <1>3
<1>5. NextToSend \in Listed /\ \A f \in Listed : outbox[NextToSend].seq <= outbox[f].seq
  BY <1>3, <1>4 DEF NextToSend
<1>. HIDE DEF S
<1>6. ASSUME NEW f \in UsedEvents, outbox[f].seq < outbox[NextToSend].seq
      PROVE  Carried(f)
  <2>1. f \notin Listed
    BY <1>0, <1>5, <1>6
  <2>2. outbox[NextToSend].seq <= flush.upto /\ flush.upto \in Nat /\ outbox[NextToSend].seq \in Nat
        /\ f \in Events /\ outbox[f] \in EventRow
    BY <1>0, <1>5 DEF Listed, IInv, RowsTyped, UsedEvents
  <2>3. outbox[f].seq <= flush.upto
    BY <1>6, <2>2 DEF EventRow
  <2>4. outbox[f].state \notin {"PENDING", "NONE"}
    BY <2>1, <2>2, <2>3 DEF Listed, Undelivered, UsedEvents
  <2>5. outbox[f].state # "REJECTED"
    BY <2>2 DEF Sending, IInv, LedgerFits, HasRejection
  <2>. QED BY <2>2, <2>4, <2>5 DEF EventRow, IInv, LedgerFits
<1>. QED BY <1>0, <1>5, <1>6

\* The host has the event already, or it is the next of the ledger.
LEMMA NextIsTaken ==
  ASSUME IInv, Sending, NEW e, e = NextToSend
  PROVE  /\ Entry(e) \in Entries
         /\ \/ Carried(e) /\ TakenByHost(e) = host
            \/ /\ outbox[e].seq = Len(host.ledger) + 1
               /\ TakenByHost(e) = [host EXCEPT !.ledger = Append(@, Entry(e))]
<1>0. /\ e \in UsedEvents /\ e \in Events /\ outbox[e].seq \in Nat /\ outbox[e].seq > 0
      /\ outbox[e].seq <= Cardinality(UsedEvents) /\ Cardinality(UsedEvents) \in Nat
      /\ host.ledger \in Seq(Entries)
  BY NextIsOldest, UsedCounted DEF IInv, RowsTyped
<1>1. Entry(e) \in Entries
  <2>1. e[1] \in Pages /\ e[2] \in {"OBSERVED", "RESOLVED"}
    BY <1>0 DEF Events
  <2>. QED BY <1>0, <2>1 DEF Entry, Entries
<1>. DEFINE n == Len(host.ledger)
<1>2. n \in Nat
  BY <1>0
<1>3. CASE outbox[e].seq <= n
  <2>1. outbox[e].seq \in 1..n
    BY <1>0, <1>2, <1>3
  <2>2. PICK f \in UsedEvents : outbox[f].seq = outbox[e].seq /\ host.ledger[outbox[e].seq] = Entry(f)
    BY <2>1 DEF IInv, LedgerFits
  <2>3. f = e
    BY <1>0, <2>2 DEF IInv, Numbered
  <2>4. TakenByHost(e) = host
    BY <2>1, <2>2, <2>3 DEF TakenByHost, Entry
  <2>. QED BY <1>1, <1>3, <2>4 DEF Carried
<1>4. CASE outbox[e].seq > n
  <2>1. outbox[e].seq = n + 1
    <3>1. SUFFICES ASSUME outbox[e].seq # n + 1 PROVE FALSE
      OBVIOUS
    <3>2. n + 1 \in Numbers /\ n + 1 < outbox[e].seq
      BY <1>0, <1>2, <1>4, <3>1 DEF Numbers
    <3>3. PICK f \in UsedEvents : outbox[f].seq = n + 1
      BY <3>2 DEF IInv, Numbered
    <3>4. Carried(f)
      BY <3>2, <3>3, NextIsOldest
    <3>. QED BY <1>2, <3>3, <3>4 DEF Carried
  <2>2. ~(\E i \in 1..n : host.ledger[i] = Entry(e))
    <3>1. SUFFICES ASSUME NEW i \in 1..n, host.ledger[i] = Entry(e) PROVE FALSE
      OBVIOUS
    <3>2. PICK f \in UsedEvents : outbox[f].seq = i /\ host.ledger[i] = Entry(f)
      BY DEF IInv, LedgerFits
    <3>3. outbox[e].seq = outbox[f].seq
      BY <3>1, <3>2 DEF Entry
    <3>. QED BY <1>2, <2>1, <3>2, <3>3
  <2>3. TakenByHost(e) = [host EXCEPT !.ledger = Append(@, Entry(e))]
    BY <2>2 DEF TakenByHost, Entry
  <2>. QED BY <1>1, <2>1, <2>3
<1>. QED BY <1>0, <1>2, <1>3, <1>4

\* What the ledger of the host may become.
LedgerGoesOn(h) ==
  /\ h \in [ledger : Seq(Entries), closed : BOOLEAN] /\ h.closed = host.closed
  /\ Len(host.ledger) <= Len(h.ledger)
  /\ \A i \in 1..Len(host.ledger) : h.ledger[i] = host.ledger[i]
  /\ \A i \in 1..Len(h.ledger) : \E f \in UsedEvents : outbox[f].seq = i /\ h.ledger[i] = Entry(f)

LEMMA LedgerStands ==
  ASSUME IInv PROVE LedgerGoesOn(host)
  BY DEF LedgerGoesOn, IInv, RowsTyped, LedgerFits

LEMMA TakenGoesOn ==
  ASSUME IInv, Sending, NEW e, e = NextToSend
  PROVE  LedgerGoesOn(TakenByHost(e)) /\ outbox[e].seq <= Len(TakenByHost(e).ledger)
<1>0. e \in UsedEvents /\ outbox[e].seq \in Nat
  BY NextIsOldest, UsedCounted
<1>1. CASE Carried(e) /\ TakenByHost(e) = host
  BY <1>1, LedgerStands DEF Carried
<1>2. CASE /\ outbox[e].seq = Len(host.ledger) + 1
           /\ TakenByHost(e) = [host EXCEPT !.ledger = Append(@, Entry(e))]
  <2>. DEFINE n == Len(host.ledger)
              entry == Entry(e)
              l == Append(host.ledger, entry)
              h == [host EXCEPT !.ledger = l]
  <2>1. host.ledger \in Seq(Entries) /\ entry \in Entries /\ n \in Nat
        /\ host \in [ledger : Seq(Entries), closed : BOOLEAN]
    BY NextIsTaken DEF IInv, RowsTyped
  <2>. HIDE DEF entry
  <2>2. l \in Seq(Entries) /\ Len(l) = n + 1 /\ l[n + 1] = entry /\ \A i \in 1..n : l[i] = host.ledger[i]
    BY <2>1
  <2>. HIDE DEF l
  <2>3. TakenByHost(e) = h /\ h.ledger = l /\ h.closed = host.closed
        /\ h \in [ledger : Seq(Entries), closed : BOOLEAN]
    BY <1>2, <2>1, <2>2 DEF entry, l
  <2>. HIDE DEF h
  <2>4. \A i \in 1..(n + 1) : \E f \in UsedEvents : outbox[f].seq = i /\ l[i] = Entry(f)
    <3>1. SUFFICES ASSUME NEW i \in 1..(n + 1)
                   PROVE  \E f \in UsedEvents : outbox[f].seq = i /\ l[i] = Entry(f)
      OBVIOUS
    <3>2. CASE i = n + 1
      BY <1>0, <1>2, <2>2, <3>2 DEF entry
    <3>3. CASE i # n + 1
      <4>1. i \in 1..n
        BY <2>1, <3>3
      <4>. QED BY <2>2, <4>1 DEF IInv, LedgerFits
    <3>. QED BY <3>2, <3>3
  <2>5. outbox[e].seq <= Len(l) /\ n <= n + 1
    BY <1>2, <2>1, <2>2
  <2>. QED BY <2>2, <2>3, <2>4, <2>5 DEF LedgerGoesOn
<1>. QED BY <1>1, <1>2, NextIsTaken

-----------------------------------------------------------------------------
(* The steps of a flush. *)

\* What a flush does to the events, the ledger and the Run.
Sent ==
  /\ outbox' \in [Events -> EventRow]
  /\ \A e \in Events :
       /\ outbox[e].state = "NONE" => outbox'[e] = outbox[e]
       /\ outbox'[e].state = "NONE" => outbox[e].state = "NONE"
       /\ outbox'[e].seq = outbox[e].seq /\ outbox'[e].billing = outbox[e].billing
       /\ outbox'[e].state = "ACKNOWLEDGED" => outbox[e].seq <= Len(host'.ledger)
  /\ LedgerGoesOn(host')
  /\ Steady(run, run') /\ ~run'.settled /\ faults' \in Nat
  /\ UNCHANGED <<pages, batch, provider, admin>>

LEMMA SentKeeps ==
  ASSUME IInv, Sent
  PROVE  /\ UsedEvents' = UsedEvents /\ Acting' = Acting
         /\ (\A d : Subject(d)' = Subject(d)) /\ Numbered' /\ RunFits(run') /\ run' \in RunRow
         /\ \A i \in 1..Len(host'.ledger) :
               \E e \in UsedEvents' : outbox'[e].seq = i /\ host'.ledger[i] = Entry(e)'
         /\ \A e \in Events : outbox'[e].state = "ACKNOWLEDGED" => Carried(e)'
         /\ \A e \in Events : Carried(e) => Carried(e)'
         /\ \A p \in Billed : p \in Billed'
<1>. USE DEF Sent, LedgerGoesOn
<1>1. /\ UsedEvents' = UsedEvents /\ UsedEvents \subseteq Events /\ Acting' = Acting
      /\ \A d : Subject(d)' = Subject(d)
  BY DEF UsedEvents, Acting, Subject
<1>2. \A e \in Events : outbox'[e].seq = outbox[e].seq /\ outbox'[e].billing = outbox[e].billing
  OBVIOUS
<1>3. Numbered'
  <2>1. \A e \in Events : outbox'[e].state = "NONE" => outbox'[e] = NoEvent
    BY DEF IInv, Numbered
  <2>2. \A p \in Pages : Obs(p) \in Events /\ Res(p) \in Events
    BY EventsOfPages
  <2>. HIDE DEF Sent
  <2>. QED BY <1>1, <1>2, <2>1, <2>2 DEF IInv, Numbered, Numbers
<1>4. \A i \in 1..Len(host'.ledger) :
         \E e \in UsedEvents' : outbox'[e].seq = i /\ host'.ledger[i] = Entry(e)'
  <2>1. SUFFICES ASSUME NEW i \in 1..Len(host'.ledger)
                 PROVE  \E e \in UsedEvents' : outbox'[e].seq = i /\ host'.ledger[i] = Entry(e)'
    OBVIOUS
  <2>2. PICK e \in UsedEvents : outbox[e].seq = i /\ host'.ledger[i] = Entry(e)
    OBVIOUS
  <2>. QED BY <1>1, <1>2, <2>2 DEF Entry
<1>5. \A e \in Events : outbox'[e].state = "ACKNOWLEDGED" => Carried(e)'
  BY <1>2 DEF Carried
<1>6. \A e \in Events : Carried(e) => Carried(e)'
  <2>1. \A e \in Events : outbox[e].seq \in Nat
    BY DEF IInv, RowsTyped, EventRow
  <2>2. Len(host.ledger) \in Nat /\ Len(host'.ledger) \in Nat
    BY DEF IInv, RowsTyped
  <2>. QED BY <1>2, <2>1, <2>2 DEF Carried
<1>7. \A p \in Billed : p \in Billed'
  <2>1. \A p, kind : Received(p, kind) => Received(p, kind)'
    <3>1. SUFFICES ASSUME NEW p, NEW kind, Received(p, kind) PROVE Received(p, kind)'
      OBVIOUS
    <3>2. PICK i \in 1..Len(host.ledger) : host.ledger[i].page = p /\ host.ledger[i].kind = kind
      BY <3>1 DEF Received
    <3>3. i \in 1..Len(host'.ledger) /\ host'.ledger[i] = host.ledger[i]
      BY DEF IInv, RowsTyped
    <3>. QED BY <3>2, <3>3 DEF Received
  <2>2. \A p \in Pages : <<p, "OBSERVED">> \in Events
    BY DEF Events
  <2>. QED BY <1>2, <2>1, <2>2 DEF Billed
<1>8. RunFits(run') /\ run' \in RunRow
  BY DEF Steady, Follows
<1>. QED BY <1>1, <1>3, <1>4, <1>5, <1>6, <1>7, <1>8

\* Where a client goes after its flush.
Returned(c, j) ==
  /\ j \in JobRow /\ j.at \in {"idle", "inspect", "mark", "advance", "check", "closing", "done"}
  /\ c \in Pages => PagePlace(j)
  /\ c = Worker => WorkerPlace(j)
  /\ c = Admin => AdminPlace(j, admin)
  /\ j.at \in {"inspect", "mark"} => job[c].then \in {"inspect", "mark"}
  /\ j.at = "check" => c = Worker
  /\ j.at = "closing" => job[c].then = "closing"

LEMMA FlushStep ==
  ASSUME IInv, Sent, NEW c \in Clients, At(c, "flushing"), NEW j, Returned(c, j),
         job' = [job EXCEPT ![c] = j],
         flush' \in [by : Clients \cup {Nobody}, upto : Nat], flush'.by = Nobody,
         c = Worker /\ j.at = "closing" =>
           \A p \in Pages : Obs(p) \in UsedEvents => outbox[Obs(p)].seq <= Len(host'.ledger)
  PROVE  Safe
<1>0. /\ UsedEvents' = UsedEvents /\ Acting' = Acting
      /\ \A d : Subject(d)' = Subject(d)
  BY SentKeeps
<1>1. /\ outbox' \in [Events -> EventRow] /\ host' \in [ledger : Seq(Entries), closed : BOOLEAN]
      /\ host'.closed = host.closed /\ ~run'.settled /\ faults' \in Nat
      /\ UNCHANGED <<pages, batch, provider, admin>> /\ Steady(run, run')
      /\ \A e \in Events : outbox'[e].seq = outbox[e].seq /\ outbox'[e].billing = outbox[e].billing
  BY DEF Sent, LedgerGoesOn
<1>2. /\ job \in [Clients -> JobRow] /\ job' \in [Clients -> JobRow] /\ job'[c] = j
      /\ \A d \in Clients : d # c => job'[d] = job[d]
  BY DEF Returned, IInv, RowsTyped
<1>3. RowsTyped' /\ RunFits(run')
  BY <1>1, <1>2, SentKeeps DEF IInv, RowsTyped
<1>4. Numbered'
  BY SentKeeps
<1>5. LedgerFits'
  BY <1>2, SentKeeps DEF LedgerFits
<1>6. job[Worker].at = "flushing" => \A p \in Pages : Idle(p)
  BY DEF IInv, PlacesFit, At
<1>7. PlacesFit'
  <2>1. \A q \in Pages :
          /\ PagePlace(job'[q]) /\ (job'[q].at # "idle" => job'[Worker].at = "waiting")
          /\ job'[q].at \in SubmitAts => job'[Worker].then = "submitted"
    <3>1. SUFFICES ASSUME NEW q \in Pages
                   PROVE  /\ PagePlace(job'[q]) /\ (job'[q].at # "idle" => job'[Worker].at = "waiting")
                          /\ job'[q].at \in SubmitAts => job'[Worker].then = "submitted"
      OBVIOUS
    <3>2. q \in Clients /\ q # Worker /\ Worker \in Clients
      BY Distinct
    <3>3. CASE q = c
      BY <1>2, <3>2, <3>3 DEF IInv, PlacesFit, Returned, At, Idle, SubmitAts
    <3>4. CASE q # c
      BY <1>2, <1>6, <3>2, <3>4 DEF IInv, PlacesFit, At, Idle, SubmitAts
    <3>. QED BY <3>3, <3>4
  <2>2. WorkerPlace(job'[Worker]) /\ AdminPlace(job'[Admin], admin)
    BY <1>2, Distinct DEF IInv, PlacesFit, Returned
  <2>. QED BY <1>1, <2>1, <2>2 DEF PlacesFit, At, Idle
<1>8. (\A d \in Acting : ClientFits(d))'
  <2>1. SUFFICES ASSUME NEW d \in Acting PROVE ClientFits(d)'
    BY <1>0
  <2>2. d \in Clients /\ ClientFits(d) /\ Obs(Subject(d)) \in Events
    BY ActingOnPage, EventsOfPages DEF IInv
  <2>3. CASE d = c
    BY <1>0, <1>2, <2>2, <2>3 DEF ClientFits, Knows, Returned, At
  <2>4. CASE d # c
    BY <1>0, <1>1, <1>2, <2>2, <2>4 DEF ClientFits, Knows, At
  <2>. QED BY <2>3, <2>4
<1>9. AdminFits'
  BY <1>0, <1>1, <1>2, Distinct DEF IInv, AdminFits, Lawful, Returned, At
<1>10. \A q \in Pages : PageFits(q)'
  <2>1. SUFFICES ASSUME NEW q \in Pages PROVE PageFits(q)'
    OBVIOUS
  <2>2. q \in Clients /\ q # Worker /\ Worker \in Clients /\ PageFits(q)
        /\ (job[q].at # "idle" => job[Worker].at = "waiting")
    BY Distinct DEF IInv, PlacesFit, At, Idle
  <2>3. Obs(q) \in UsedEvents' <=> Obs(q) \in UsedEvents
    BY <1>0
  <2>4. CASE c = q
    <3>1. job'[Worker] = job[Worker] /\ job'[q] = j /\ job[q].at = "flushing"
      BY <1>2, <2>2, <2>4 DEF At
    <3>2. j.at \notin {"authorize", "submitting", "send", "accepted"}
      BY DEF Returned
    <3>. QED BY <1>1, <2>2, <2>3, <3>1, <3>2 DEF PageFits, PageOK, Attended
  <2>5. CASE c = Worker
    <3>1. job'[q] = job[q] /\ job[Worker].at = "flushing"
      BY <1>2, <2>2, <2>5 DEF At
    <3>. QED BY <1>1, <2>2, <2>3, <3>1 DEF PageFits, PageOK, Attended
  <2>6. CASE c # q /\ c # Worker
    <3>1. job'[Worker] = job[Worker] /\ job'[q] = job[q]
      BY <1>2, <2>2, <2>6
    <3>. QED BY <1>1, <2>2, <2>3, <3>1 DEF PageFits
  <2>. QED BY <2>4, <2>5, <2>6
<1>11. CloseFits'
  <2>1. run.finalization # "NONE" => run'.finalization # "NONE"
    BY <1>1 DEF Steady
  <2>2. run'.finalization \in {"FAILED", "COMPLETED"} => run.finalization \in {"FAILED", "COMPLETED"}
    BY <1>1 DEF Steady
  <2>3. AdminCloses(job'[Admin]) => AdminCloses(job[Admin])
    BY <1>2, Distinct DEF AdminCloses, Returned, At
  <2>4. LastWord' => LastWord
    BY <1>1, <2>2, <2>3 DEF LastWord
  <2>5. \A p \in Pages : /\ Obs(p) \in Events
                         /\ Obs(p) \in UsedEvents' <=> Obs(p) \in UsedEvents
                         /\ Carried(Obs(p)) => Carried(Obs(p))'
    BY <1>0, SentKeeps, EventsOfPages
  <2>6. At(Worker, "closing")' =>
          /\ run'.finalization # "NONE"
          /\ \A p \in Pages : Obs(p) \in UsedEvents' => Carried(Obs(p))'
    <3>1. CASE c = Worker
      <4>1. SUFFICES ASSUME j.at = "closing"
                     PROVE  /\ run'.finalization # "NONE"
                            /\ \A p \in Pages : Obs(p) \in UsedEvents => Carried(Obs(p))'
        BY <1>0, <1>2, <3>1 DEF At
      <4>2. run.finalization # "NONE"
        BY <3>1, <4>1 DEF Returned, IInv, CloseFits, At
      <4>3. \A p \in Pages : Obs(p) \in UsedEvents => Carried(Obs(p))'
        BY <1>1, <2>5, <3>1, <4>1 DEF Carried
      <4>. QED BY <2>1, <4>2, <4>3
    <3>2. CASE c # Worker
      BY <1>2, <2>1, <2>5, <3>2, Distinct DEF IInv, CloseFits, At
    <3>. QED BY <3>1, <3>2
  <2>7. At(Worker, "flushing")' /\ job'[Worker].then = "closing" => run'.finalization # "NONE"
    <3>1. c # Worker => job'[Worker] = job[Worker]
      BY <1>2, Distinct
    <3>2. c = Worker => ~At(Worker, "flushing")'
      BY <1>2 DEF Returned, At
    <3>. QED BY <2>1, <3>1, <3>2 DEF IInv, CloseFits, At
  <2>8. ASSUME LastWord, NEW q \in Pages
        PROVE  (Untouched(q) \/ (Obs(q) \in UsedEvents /\ Carried(Obs(q))))'
    <3>1. Untouched(q) \/ (Obs(q) \in UsedEvents /\ Carried(Obs(q)))
      BY <2>8 DEF IInv, CloseFits
    <3>2. Idle(q) => Idle(q)'
      BY <1>2, Distinct DEF Idle, At
    <3>. QED BY <1>1, <2>5, <3>1, <3>2 DEF Untouched
  <2>9. host'.closed => \A p \in Pages : Obs(p) \in UsedEvents' => p \in Billed'
    BY <1>1, SentKeeps DEF IInv, CloseFits
  <2>10. AdminCloses(job'[Admin]) \/ host'.closed => run'.finalization # "NONE"
    BY <1>1, <2>1, <2>3 DEF IInv, CloseFits
  <2>11. flush'.by # Worker
    BY <1>2, Distinct
  <2>12. LastWord' => \A q \in Pages :
           (Untouched(q) \/ (Obs(q) \in UsedEvents /\ Carried(Obs(q))))'
    BY <2>4, <2>8
  <2>. QED BY <2>6, <2>7, <2>9, <2>10, <2>11, <2>12 DEF CloseFits
<1>12. Calm
  <2>1. AtSettle' => AtSettle
    BY <1>2, Distinct DEF AtSettle, Returned, At
  <2>2. \A q \in Pages : Idle(q) => Idle(q)'
    BY <1>2, Distinct DEF Idle, At
  <2>. QED BY <1>1, <2>1, <2>2, QuietIsCalm
<1>. QED BY <1>3, <1>4, <1>5, <1>7, <1>8, <1>9, <1>10, <1>11, <1>12 DEF IInv, Safe

\* The flush goes on, or begins.
LEMMA FlushGoesOn ==
  ASSUME IInv, Sent, UNCHANGED job, flush' \in [by : Clients \cup {Nobody}, upto : Nat],
         flush'.by # Nobody => /\ ~HasRejection' /\ At(flush'.by, "flushing")
                               /\ flush'.upto <= Cardinality(UsedEvents),
         flush'.by = Worker /\ job[Worker].then = "closing" =>
           \A p \in Pages : Obs(p) \in UsedEvents => outbox[Obs(p)].seq <= flush'.upto
  PROVE  Safe
<1>0. /\ UsedEvents' = UsedEvents /\ Acting' = Acting
      /\ \A d : Subject(d)' = Subject(d)
  BY SentKeeps
<1>1. /\ outbox' \in [Events -> EventRow] /\ host' \in [ledger : Seq(Entries), closed : BOOLEAN]
      /\ host'.closed = host.closed /\ ~run'.settled /\ faults' \in Nat
      /\ UNCHANGED <<pages, batch, provider, admin>> /\ Steady(run, run')
      /\ \A e \in Events : outbox'[e].seq = outbox[e].seq /\ outbox'[e].billing = outbox[e].billing
  BY DEF Sent, LedgerGoesOn
<1>2. \A d : At(d, "flushing")' = At(d, "flushing") /\ Idle(d)' = Idle(d)
  BY DEF At, Idle
<1>3. RowsTyped' /\ RunFits(run')
  BY <1>1, SentKeeps DEF IInv, RowsTyped
<1>4. Numbered'
  BY SentKeeps
<1>5. LedgerFits'
  <2>1. flush'.by # Nobody => ~HasRejection' /\ At(flush.by, "flushing")'
                              /\ flush'.upto <= Cardinality(UsedEvents')
    BY <1>0 DEF At
  <2>. QED BY <2>1, SentKeeps DEF LedgerFits
<1>7. PlacesFit'
  BY <1>1, <1>2 DEF IInv, PlacesFit, At
<1>8. (\A d \in Acting : ClientFits(d))'
  <2>1. SUFFICES ASSUME NEW d \in Acting PROVE ClientFits(d)'
    BY <1>0
  <2>2. ClientFits(d) /\ Obs(Subject(d)) \in Events
    BY ActingOnPage, EventsOfPages DEF IInv
  <2>. QED BY <1>0, <1>1, <2>2 DEF ClientFits, Knows, At
<1>9. AdminFits'
  BY <1>0, <1>1 DEF IInv, AdminFits, Lawful, At
<1>10. \A q \in Pages : PageFits(q)'
  BY <1>0, <1>1 DEF IInv, PageFits
<1>11. CloseFits'
  <2>1. run.finalization # "NONE" => run'.finalization # "NONE"
    BY <1>1 DEF Steady
  <2>2. run'.finalization \in {"FAILED", "COMPLETED"} => run.finalization \in {"FAILED", "COMPLETED"}
    BY <1>1 DEF Steady
  <2>3. LastWord' => LastWord
    BY <1>1, <2>2 DEF LastWord
  <2>4. \A p \in Pages : /\ Obs(p) \in Events
                         /\ Obs(p) \in UsedEvents' <=> Obs(p) \in UsedEvents
                         /\ outbox'[Obs(p)].seq = outbox[Obs(p)].seq
                         /\ Carried(Obs(p)) => Carried(Obs(p))'
    BY <1>0, <1>1, SentKeeps, EventsOfPages
  <2>5. host'.closed => \A p \in Pages : Obs(p) \in UsedEvents' => p \in Billed'
    BY <1>1, SentKeeps DEF IInv, CloseFits
  <2>6. \A p \in Pages : Untouched(p) => Untouched(p)'
    BY <1>0, <1>1 DEF Untouched, Idle, At
  <2>11. ASSUME LastWord, NEW q \in Pages
         PROVE  (Untouched(q) \/ (Obs(q) \in UsedEvents /\ Carried(Obs(q))))'
    <3>1. Untouched(q) \/ (Obs(q) \in UsedEvents /\ Carried(Obs(q)))
      BY <2>11 DEF IInv, CloseFits
    <3>2. CASE Untouched(q)
      BY <2>6, <3>2
    <3>3. CASE Obs(q) \in UsedEvents /\ Carried(Obs(q))
      BY <2>4, <3>3
    <3>. QED BY <3>1, <3>2, <3>3
  <2>7. LastWord' => \A p \in Pages :
           (Untouched(p) \/ (Obs(p) \in UsedEvents /\ Carried(Obs(p))))'
    BY <2>3, <2>11
  <2>8. AdminCloses(job'[Admin]) \/ host'.closed => run'.finalization # "NONE"
    BY <1>1, <2>1 DEF IInv, CloseFits
  <2>9. At(Worker, "closing")' =>
          run'.finalization # "NONE" /\ \A p \in Pages : Obs(p) \in UsedEvents' => Carried(Obs(p))'
    BY <2>1, <2>4 DEF IInv, CloseFits, At
  <2>10. At(Worker, "flushing")' /\ job'[Worker].then = "closing" =>
           /\ run'.finalization # "NONE"
           /\ flush'.by = Worker =>
                \A p \in Pages : Obs(p) \in UsedEvents' => outbox'[Obs(p)].seq <= flush'.upto
    BY <2>1, <2>4 DEF IInv, CloseFits, At
  <2>. QED BY <2>5, <2>7, <2>8, <2>9, <2>10 DEF CloseFits
<1>12. Calm
  BY <1>1, <1>2, QuietIsCalm DEF AtSettle, At
<1>. QED BY <1>3, <1>4, <1>5, <1>7, <1>8, <1>9, <1>10, <1>11, <1>12 DEF IInv, Safe

LEMMA FlushReturnsTo ==
  ASSUME IInv, NEW c \in Clients, At(c, "flushing"), NEW delivered \in BOOLEAN, FlushReturns(c, delivered)
  PROVE  \E j : /\ Returned(c, j) /\ job' = [job EXCEPT ![c] = j]
                /\ j.at = "closing" => delivered
<1>. DEFINE next == IF job[c].then = "closing" /\ ~delivered THEN "done" ELSE job[c].then
            rests == next = "done" /\ (c # Admin \/ admin.action = "NONE")
            g == IF rests THEN Resting ELSE [job[c] EXCEPT !.at = next]
            j == [g EXCEPT !.then = "done"]
<1>1. job \in [Clients -> JobRow] /\ job[c] \in JobRow /\ job[c].at = "flushing"
  BY DEF IInv, RowsTyped, At
<1>2. job' = [job EXCEPT ![c] = j]
  <2>1. Goto(c, next) = [job EXCEPT ![c] = g]
    BY <1>1 DEF Goto
  <2>2. job' = [Goto(c, next) EXCEPT ![c].then = "done"]
    BY DEF FlushReturns
  <2>. HIDE DEF g
  <2>. QED BY <1>1, <2>1, <2>2
<1>3. /\ c \in Pages => next \in {"done", "inspect", "mark"} /\ c # Admin /\ c # Worker
      /\ c = Worker => next \in {"advance", "check", "closing", "done"} /\ c # Admin
      /\ c = Admin => IF admin.action \in PageActions
                      THEN next \in {"done", "inspect", "mark"} /\ admin.on \in Pages
                      ELSE next \in {"done", "closing"}
      /\ c \in Pages \/ c = Worker \/ c = Admin
  BY <1>1, Distinct DEF IInv, PlacesFit, PagePlace, WorkerPlace, AdminPlace, Clients
<1>4. next = "closing" => delivered /\ job[c].then = "closing"
  OBVIOUS
<1>5. next \in {"inspect", "mark"} => job[c].then \in {"inspect", "mark"}
  OBVIOUS
<1>6. next \in {"done", "inspect", "mark", "advance", "check", "closing"}
  BY <1>3
<1>. HIDE DEF next
<1>7. g \in JobRow /\ (rests => g.at = "idle" /\ g.kind = "none")
      /\ (~rests => g.at = next /\ g.kind = job[c].kind)
  <2>1. Resting \in JobRow /\ Resting.at = "idle" /\ Resting.kind = "none"
    BY DEF JobRow, Ats, Resting, Charges
  <2>2. next \in Ats
    BY <1>6 DEF Ats
  <2>3. [job[c] EXCEPT !.at = next] \in JobRow
    BY <1>1, <2>2 DEF JobRow
  <2>. QED BY <1>1, <2>1, <2>3 DEF JobRow
<1>. HIDE DEF g
<1>8. j \in JobRow /\ j.at = g.at /\ j.kind = g.kind /\ j.then = "done"
  BY <1>7 DEF JobRow, Ats
<1>. HIDE DEF j
<1>9. /\ c \in Pages => job[c].kind # "verdict"
      /\ c = Admin => (job[c].kind = "verdict" => admin.action \in Verdicts)
  BY DEF IInv, PlacesFit, PagePlace, AdminPlace
<1>10. j.at \in {"idle", "inspect", "mark", "advance", "check", "closing", "done"}
  BY <1>6, <1>7, <1>8
<1>11. c \in Pages => PagePlace(j)
  BY <1>3, <1>7, <1>8, <1>9 DEF PagePlace, PageAts
<1>12. c = Worker => WorkerPlace(j)
  BY <1>3, <1>7, <1>8 DEF WorkerPlace
<1>13. c = Admin => AdminPlace(j, admin)
  BY <1>3, <1>7, <1>8, <1>9 DEF AdminPlace, AdminAts
<1>14. (j.at \in {"inspect", "mark"} => job[c].then \in {"inspect", "mark"})
       /\ (j.at = "check" => c = Worker) /\ (j.at = "closing" => job[c].then = "closing" /\ delivered)
  BY <1>3, <1>4, <1>5, <1>7, <1>8
<1>. QED BY <1>2, <1>8, <1>10, <1>11, <1>12, <1>13, <1>14 DEF Returned

LEMMA StateWritten ==
  ASSUME IInv, NEW e \in UsedEvents, NEW state \in {"PENDING", "ACKNOWLEDGED", "REJECTED"},
         outbox' = [outbox EXCEPT ![e].state = state]
  PROVE  /\ outbox' \in [Events -> EventRow] /\ outbox'[e].state = state
         /\ \A f \in Events :
              /\ outbox[f].state = "NONE" => outbox'[f] = outbox[f]
              /\ outbox'[f].state = "NONE" => outbox[f].state = "NONE"
              /\ outbox'[f].seq = outbox[f].seq /\ outbox'[f].billing = outbox[f].billing
              /\ f # e => outbox'[f] = outbox[f]
<1>. DEFINE row == [outbox[e] EXCEPT !.state = state]
<1>1. outbox \in [Events -> EventRow] /\ e \in Events /\ outbox[e].state # "NONE"
  BY DEF IInv, RowsTyped, UsedEvents
<1>2. row \in EventRow /\ row.state = state /\ row.seq = outbox[e].seq /\ row.billing = outbox[e].billing
  BY <1>1 DEF EventRow
<1>3. outbox' = [outbox EXCEPT ![e] = row]
  BY <1>1
<1>. HIDE DEF row
<1>4. outbox'[e] = row /\ \A f \in Events : f # e => outbox'[f] = outbox[f]
  BY <1>1, <1>3
<1>5. outbox' \in [Events -> EventRow]
  BY <1>1, <1>2, <1>3
<1>. QED BY <1>1, <1>2, <1>4, <1>5

\* A step that writes no event.
LEMMA SentNothing ==
  ASSUME IInv, LedgerGoesOn(host'), Steady(run, run'), ~run'.settled, faults' \in Nat,
         UNCHANGED <<pages, batch, outbox, provider, admin>>
  PROVE  Sent
<1>1. \A e \in Events : outbox[e].state = "ACKNOWLEDGED" => outbox[e].seq <= Len(host'.ledger)
  <2>1. Len(host.ledger) \in Nat /\ Len(host'.ledger) \in Nat /\ Len(host.ledger) <= Len(host'.ledger)
    BY DEF LedgerGoesOn, IInv, RowsTyped
  <2>2. \A e \in Events : outbox[e].seq \in Nat
    BY DEF IInv, RowsTyped, EventRow
  <2>. QED BY <2>1, <2>2 DEF IInv, LedgerFits, Carried
<1>. QED BY <1>1 DEF Sent, IInv, RowsTyped

LEMMA FlushNothingSafe ==
  ASSUME IInv, NEW c \in Clients, FlushNothing(c)
  PROVE  Safe
<1>1. Sent
  <2>1. LedgerGoesOn(host') /\ Steady(run, run') /\ ~run'.settled /\ faults' \in Nat
    BY LedgerStands, Standing DEF FlushNothing
  <2>. QED BY <2>1, SentNothing DEF FlushNothing
<1>2. /\ At(c, "flushing") /\ flush' \in [by : Clients \cup {Nobody}, upto : Nat] /\ flush'.by = Nobody
      /\ FlushReturns(c, ~HasRejection) /\ (HasRejection \/ Undelivered = {}) /\ host' = host
  BY DEF IInv, RowsTyped, FlushNothing
<1>. DEFINE delivered == ~HasRejection
<1>3. delivered \in BOOLEAN /\ FlushReturns(c, delivered)
  BY <1>2
<1>4. delivered => \A p \in Pages : Obs(p) \in UsedEvents => outbox[Obs(p)].seq <= Len(host'.ledger)
  <2>1. SUFFICES ASSUME ~HasRejection, NEW p \in Pages, Obs(p) \in UsedEvents
                 PROVE  Carried(Obs(p))
    BY <1>2 DEF Carried
  <2>2. Obs(p) \in Events /\ outbox[Obs(p)] \in EventRow /\ outbox[Obs(p)].state # "NONE"
    BY <2>1 DEF UsedEvents, IInv, RowsTyped
  <2>3. outbox[Obs(p)].state = "ACKNOWLEDGED"
    BY <1>2, <2>1, <2>2 DEF EventRow, HasRejection, Undelivered
  <2>. QED BY <2>2, <2>3 DEF IInv, LedgerFits
<1>. HIDE DEF delivered
<1>5. PICK j : /\ Returned(c, j) /\ job' = [job EXCEPT ![c] = j]
               /\ j.at = "closing" => delivered
  BY <1>2, <1>3, FlushReturnsTo
<1>. QED BY <1>1, <1>2, <1>4, <1>5, FlushStep

LEMMA BeginFlushSafe ==
  ASSUME IInv, NEW c \in Clients, BeginFlush(c)
  PROVE  Safe
<1>1. Sent
  <2>1. LedgerGoesOn(host') /\ Steady(run, run') /\ ~run'.settled /\ faults' \in Nat
    BY LedgerStands, Standing DEF BeginFlush
  <2>. QED BY <2>1, SentNothing DEF BeginFlush
<1>2. /\ Cardinality(UsedEvents) \in Nat /\ NextSeq - 1 = Cardinality(UsedEvents)
      /\ \A e \in UsedEvents : outbox[e].seq <= Cardinality(UsedEvents)
  BY UsedCounted
<1>3. flush' = [by |-> c, upto |-> Cardinality(UsedEvents)]
  BY <1>2 DEF BeginFlush
<1>4. /\ flush' \in [by : Clients \cup {Nobody}, upto : Nat]
      /\ flush'.by = c /\ flush'.upto = Cardinality(UsedEvents)
  BY <1>2, <1>3
<1>5. At(c, "flushing") /\ job' = job /\ ~HasRejection'
  BY DEF BeginFlush, HasRejection
<1>. QED BY <1>1, <1>2, <1>4, <1>5, FlushGoesOn

\* The lock is released after an answer, or without one.
LEMMA ReleaseStep ==
  ASSUME IInv, Sending, Sent, NEW delivered \in BOOLEAN, Release(delivered),
         delivered => \A p \in Pages : Obs(p) \in UsedEvents =>
           \/ outbox[Obs(p)].seq <= Len(host'.ledger)
           \/ flush.upto < outbox[Obs(p)].seq
  PROVE  Safe
<1>1. /\ flush.by \in Clients /\ At(flush.by, "flushing") /\ flush.upto \in Nat
      /\ FlushReturns(flush.by, delivered)
  BY DEF Sending, IInv, LedgerFits, RowsTyped, Release
<1>2. flush' \in [by : Clients \cup {Nobody}, upto : Nat] /\ flush'.by = Nobody
  BY DEF Release
<1>. DEFINE c == flush.by
<1>3. c \in Clients /\ At(c, "flushing") /\ FlushReturns(c, delivered)
  BY <1>1
<1>. HIDE DEF c
<1>4. PICK j : /\ Returned(c, j) /\ job' = [job EXCEPT ![c] = j]
               /\ j.at = "closing" => delivered
  BY <1>3, FlushReturnsTo
<1>5. ASSUME c = Worker, j.at = "closing", NEW p \in Pages, Obs(p) \in UsedEvents
      PROVE  outbox[Obs(p)].seq <= Len(host'.ledger)
  <2>1. job[Worker].then = "closing" /\ flush.by = Worker /\ At(Worker, "flushing")
    BY <1>3, <1>4, <1>5 DEF Returned, c
  <2>2. outbox[Obs(p)].seq <= flush.upto
    BY <1>5, <2>1 DEF IInv, CloseFits
  <2>3. outbox[Obs(p)].seq \in Nat
    BY <1>5, UsedCounted
  <2>. QED BY <1>1, <1>4, <1>5, <2>2, <2>3
<1>. QED BY <1>2, <1>3, <1>4, <1>5, FlushStep

LEMMA EventAcknowledgedSafe ==
  ASSUME IInv, EventAcknowledged
  PROVE  Safe
<1>. DEFINE e == NextToSend
<1>1. /\ Sending /\ e \in Listed /\ e \in UsedEvents /\ e \in Events
      /\ host' = TakenByHost(e) /\ outbox' = [outbox EXCEPT ![e].state = "ACKNOWLEDGED"]
      /\ UNCHANGED <<run, pages, batch, provider, admin, faults>>
  BY NextIsOldest DEF EventAcknowledged
<1>2. LedgerGoesOn(host') /\ outbox[e].seq <= Len(host'.ledger)
  BY <1>1, TakenGoesOn
<1>. HIDE DEF e
<1>3. /\ outbox' \in [Events -> EventRow] /\ outbox'[e].state = "ACKNOWLEDGED"
      /\ \A f \in Events :
           /\ outbox[f].state = "NONE" => outbox'[f] = outbox[f]
           /\ outbox'[f].state = "NONE" => outbox[f].state = "NONE"
           /\ outbox'[f].seq = outbox[f].seq /\ outbox'[f].billing = outbox[f].billing
           /\ f # e => outbox'[f] = outbox[f]
  BY <1>1, StateWritten
<1>4. \A f \in Events : outbox[f].state = "ACKNOWLEDGED" => outbox[f].seq <= Len(host'.ledger)
  <2>1. Len(host.ledger) \in Nat /\ Len(host'.ledger) \in Nat /\ Len(host.ledger) <= Len(host'.ledger)
    BY <1>2 DEF LedgerGoesOn, IInv, RowsTyped
  <2>2. \A f \in Events : outbox[f].seq \in Nat
    BY DEF IInv, RowsTyped, EventRow
  <2>. QED BY <2>1, <2>2 DEF IInv, LedgerFits, Carried
<1>5. Sent
  <2>1. Steady(run, run') /\ ~run'.settled /\ faults' \in Nat
    BY <1>1, Standing
  <2>2. \A f \in Events : outbox'[f].state = "ACKNOWLEDGED" => outbox[f].seq <= Len(host'.ledger)
    BY <1>2, <1>3, <1>4
  <2>. QED BY <1>1, <1>2, <1>3, <2>1, <2>2 DEF Sent
<1>6. CASE Cardinality(Listed) = 1
  <2>1. Release(TRUE)
    BY <1>6 DEF EventAcknowledged
  <2>2. PICK x : Listed = {x}
    <3>1. Listed \in SUBSET Events
      BY DEF Listed, Undelivered
    <3>2. IsFiniteSet(Listed)
      BY <3>1, EventsCounted
    <3>. QED BY <1>6, <3>2, FS_Singleton
  <2>3. ASSUME NEW p \in Pages, Obs(p) \in UsedEvents
        PROVE  \/ outbox[Obs(p)].seq <= Len(host'.ledger)
               \/ flush.upto < outbox[Obs(p)].seq
    <3>1. /\ Obs(p) \in Events /\ outbox[Obs(p)] \in EventRow /\ outbox[Obs(p)].state # "NONE"
          /\ flush.upto \in Nat /\ outbox[Obs(p)].seq \in Nat
      BY <2>3 DEF UsedEvents, IInv, RowsTyped, EventRow
    <3>2. CASE Obs(p) \in Listed
      BY <1>1, <1>2, <2>2, <3>2
    <3>3. CASE Obs(p) \notin Listed
      <4>1. outbox[Obs(p)].state # "REJECTED"
        BY <1>1, <3>1 DEF Sending, IInv, LedgerFits, HasRejection
      <4>. QED BY <1>4, <3>1, <3>3, <4>1 DEF Listed, Undelivered, EventRow
    <3>. QED BY <3>2, <3>3
  <2>. QED BY <1>1, <1>5, <2>1, <2>3, ReleaseStep
<1>7. CASE Cardinality(Listed) # 1
  <2>1. UNCHANGED <<job, flush>>
    BY <1>7 DEF EventAcknowledged
  <2>2. /\ flush \in [by : Clients \cup {Nobody}, upto : Nat]
        /\ ~HasRejection /\ At(flush.by, "flushing") /\ flush.upto <= Cardinality(UsedEvents)
    BY <1>1 DEF Sending, IInv, LedgerFits, RowsTyped
  <2>3. ~HasRejection'
    BY <1>3, <2>2 DEF HasRejection
  <2>4. flush.by = Worker /\ job[Worker].then = "closing" =>
          \A p \in Pages : Obs(p) \in UsedEvents => outbox[Obs(p)].seq <= flush.upto
    BY <2>2 DEF IInv, CloseFits
  <2>. QED BY <1>5, <2>1, <2>2, <2>3, <2>4, FlushGoesOn
<1>. QED BY <1>6, <1>7

LEMMA EventLostSafe ==
  ASSUME IInv, EventLost
  PROVE  Safe
<1>1. Sending /\ Release(FALSE) /\ UNCHANGED <<run, pages, batch, outbox, provider, admin>>
  BY DEF EventLost
<1>2. LedgerGoesOn(host')
  BY <1>1, LedgerStands, TakenGoesOn DEF EventLost
<1>3. Steady(run, run') /\ ~run'.settled
  BY <1>1, StandsStill DEF IInv, RowsTyped
<1>4. faults' \in Nat
  BY Faults DEF EventLost
<1>5. Sent
  BY <1>1, <1>2, <1>3, <1>4, SentNothing
<1>. QED BY <1>1, <1>5, ReleaseStep

LEMMA EventRejectedSafe ==
  ASSUME IInv, EventRejected
  PROVE  Safe
<1>. DEFINE e == NextToSend
<1>1. /\ Sending /\ Release(FALSE) /\ e \in UsedEvents
      /\ outbox' = [outbox EXCEPT ![e].state = "REJECTED"]
      /\ UNCHANGED <<pages, batch, host, provider, admin>>
  BY NextIsOldest DEF EventRejected
<1>. HIDE DEF e
<1>2. /\ outbox' \in [Events -> EventRow] /\ outbox'[e].state = "REJECTED"
      /\ \A f \in Events :
           /\ outbox[f].state = "NONE" => outbox'[f] = outbox[f]
           /\ outbox'[f].state = "NONE" => outbox[f].state = "NONE"
           /\ outbox'[f].seq = outbox[f].seq /\ outbox'[f].billing = outbox[f].billing
           /\ f # e => outbox'[f] = outbox[f]
  BY <1>1, StateWritten
<1>3. \A f \in Events : outbox'[f].state = "ACKNOWLEDGED" => outbox[f].seq <= Len(host'.ledger)
  BY <1>1, <1>2 DEF IInv, LedgerFits, Carried
<1>4. Steady(run, run') /\ ~run'.settled
  <2>1. CASE Recoverable(run)
    <3>1. run.status # "RECOVERING"
      BY <2>1 DEF Recoverable, RecoverableStates
    <3>2. "TECHNICAL_CONFIGURATION_REQUIRED" \in Codes \ {"NONE", RejectedCode}
      BY DEF Codes, RejectedCode
    <3>3. run' = FailWith("TECHNICAL_CONFIGURATION_REQUIRED", pages, batch)
      BY <2>1 DEF EventRejected
    <3>. QED BY <3>1, <3>2, <3>3, FailWithIsSteady DEF IInv
  <2>2. CASE ~Recoverable(run)
    BY <2>2, StandsStill DEF EventRejected, IInv, RowsTyped
  <2>. QED BY <2>1, <2>2
<1>5. faults' \in Nat
  BY Faults DEF EventRejected
<1>6. LedgerGoesOn(host')
  BY <1>1, LedgerStands
<1>7. Sent
  BY <1>1, <1>2, <1>3, <1>4, <1>5, <1>6 DEF Sent
<1>. QED BY <1>1, <1>7, ReleaseStep

-----------------------------------------------------------------------------
(* The steps that write no page and no event. *)

MediaKept ==
  /\ run' \in RunRow /\ RunFits(run') /\ ~run'.settled
  /\ batch' \in {"NONE", "HELD", "FINAL"} /\ faults' \in Nat
  /\ host' \in [ledger : Seq(Entries), closed : BOOLEAN] /\ host'.ledger = host.ledger
  /\ admin' \in [action : Actions, on : Pages \cup {Nobody}, begun : Nat]
  /\ UNCHANGED <<pages, outbox, provider, flush>>

LEMMA KeptFits ==
  ASSUME IInv, MediaKept, job' \in [Clients -> JobRow],
         \A d \in Clients : job[d].at = "flushing" => job'[d].at = "flushing"
  PROVE  /\ RowsTyped' /\ RunFits(run') /\ Numbered' /\ LedgerFits'
         /\ UsedEvents' = UsedEvents /\ (\A e : Carried(e)' = Carried(e)) /\ Billed' = Billed
<1>. USE DEF MediaKept
<1>1. RowsTyped'
  BY DEF IInv, RowsTyped
<1>2. /\ UsedEvents' = UsedEvents /\ (\A e : Carried(e)' = Carried(e)) /\ Billed' = Billed
      /\ HasRejection' = HasRejection
  BY DEF UsedEvents, Carried, Billed, Received, HasRejection
<1>3. Numbered'
  BY <1>2 DEF IInv, Numbered, Numbers
<1>4. LedgerFits'
  <2>1. flush.by # Nobody => flush.by \in Clients
    BY DEF IInv, RowsTyped
  <2>. QED BY <1>2, <2>1 DEF IInv, LedgerFits, Entry, At
<1>. QED BY <1>1, <1>2, <1>3, <1>4

\* The bill of a Run is queued or left alone.
BillStands ==
  /\ run.finalization # "NONE" => run'.finalization # "NONE"
  /\ run'.finalization \in {"FAILED", "COMPLETED"} => run.finalization \in {"FAILED", "COMPLETED"}

LEMMA SteadyKeeps ==
  ASSUME IInv, Steady(run, run'), ~run'.settled, batch' \in {"NONE", "HELD", "FINAL"},
         UNCHANGED <<pages, outbox, host, provider, flush, admin, faults>>
  PROVE  MediaKept /\ BillStands
<1>1. run' \in RunRow /\ RunFits(run')
  BY DEF Steady, Follows
<1>2. MediaKept
  BY <1>1 DEF MediaKept, IInv, RowsTyped
<1>. QED BY <1>2 DEF BillStands, Steady

\* The submission of the pages is over, or about to be.
AtSubmitted == At(Worker, "submitted") \/ (At(Worker, "waiting") /\ job[Worker].then = "submitted")

\* When the worker is not at rest and no page is at work, an operation is still to be
\* reported only after a submission.
LEMMA WorkerAlone ==
  ASSUME IInv, ~Idle(Worker), \A p \in Pages : Idle(p)
  PROVE  \A p \in Pages : pages[p].st \in Named /\ Obs(p) \notin UsedEvents => AtSubmitted
  BY DEF IInv, PageFits, PageOK, Attended, AtSubmitted, Idle, At

\* The worker goes on.
LEMMA WorkerStep ==
  ASSUME IInv, ~Idle(Worker), ~At(Worker, "flushing"), \A p \in Pages : Idle(p),
         MediaKept, BillStands, UNCHANGED admin, host'.closed = host.closed,
         NEW j \in JobRow, job' = [job EXCEPT ![Worker] = j], WorkerPlace(j), j.at # "closing",
         AtSubmitted => j.at \in {"idle", "submitted"},
         j.at = "flushing" /\ j.then = "closing" => run'.finalization # "NONE"
  PROVE  IInv'
<1>0. UNCHANGED <<pages, outbox, provider, flush>>
  BY DEF MediaKept
<1>1. /\ job \in [Clients -> JobRow] /\ job' \in [Clients -> JobRow] /\ job'[Worker] = j
      /\ \A d \in Clients : d # Worker => job'[d] = job[d]
      /\ \A q \in Pages : q \in Clients /\ job'[q] = job[q]
      /\ job'[Admin] = job[Admin]
  BY Distinct DEF IInv, RowsTyped
<1>2. /\ RowsTyped' /\ RunFits(run') /\ Numbered' /\ LedgerFits'
      /\ UsedEvents' = UsedEvents /\ (\A e : Carried(e)' = Carried(e)) /\ Billed' = Billed
  <2>1. \A d \in Clients : job[d].at = "flushing" => job'[d].at = "flushing"
    BY <1>1 DEF At
  <2>. QED BY <1>1, <2>1, KeptFits
<1>3. PlacesFit'
  <2>1. \A q \in Pages : /\ PagePlace(job'[q]) /\ ~(~Idle(q))'
                         /\ job'[q].at \notin SubmitAts
    BY <1>1 DEF IInv, PlacesFit, At, Idle, SubmitAts
  <2>2. AdminPlace(job'[Admin], admin')
    BY <1>1 DEF IInv, PlacesFit
  <2>. QED BY <1>1, <2>1, <2>2 DEF PlacesFit
<1>4. (\A d \in Acting : ClientFits(d))'
  <2>1. Acting' = Acting /\ (\A d : Subject(d)' = Subject(d))
    BY DEF Acting, Subject
  <2>2. ASSUME NEW d \in Acting PROVE ClientFits(d)'
    <3>1. job'[d] = job[d] /\ ClientFits(d)
      BY <1>1, ActingOnPage DEF IInv
    <3>. QED BY <1>0, <1>2, <2>1, <3>1 DEF ClientFits, At
  <2>. QED BY <2>1, <2>2
<1>5. AdminFits'
  BY <1>0, <1>1, <1>2 DEF IInv, AdminFits, Lawful, At
<1>6. \A q \in Pages : PageFits(q)'
  <2>1. SUFFICES ASSUME NEW q \in Pages PROVE PageFits(q)'
    OBVIOUS
  <2>2. PageFits(q) /\ (pages[q].st \in Named /\ Obs(q) \notin UsedEvents => AtSubmitted)
    BY WorkerAlone DEF IInv
  <2>3. pages[q].st \in Named /\ Obs(q) \notin UsedEvents => Attended(job[q].at, j)
    BY <2>2 DEF Attended
  <2>4. /\ pages'[q] = pages[q] /\ provider'[q] = provider[q] /\ job'[q] = job[q]
        /\ Obs(q) \in UsedEvents' <=> Obs(q) \in UsedEvents
    BY <1>0, <1>1, <1>2
  <2>. QED BY <1>1, <2>2, <2>3, <2>4 DEF PageFits, PageOK
<1>7. CloseFits'
  <2>1. LastWord' => LastWord
    BY <1>1 DEF LastWord, BillStands
  <2>2. \A q \in Pages : Untouched(q)' <=> Untouched(q)
    BY <1>0, <1>1, <1>2 DEF Untouched, Idle, At
  <2>3. flush.by # Worker
    BY Distinct DEF IInv, LedgerFits, At
  <2>4. LastWord' => \A q \in Pages :
           (Untouched(q) \/ (Obs(q) \in UsedEvents /\ Carried(Obs(q))))'
    BY <1>0, <1>2, <2>1, <2>2 DEF IInv, CloseFits
  <2>5. host'.closed => \A p \in Pages : Obs(p) \in UsedEvents' => p \in Billed'
    BY <1>0, <1>2 DEF IInv, CloseFits
  <2>6. AdminCloses(job'[Admin]) \/ host'.closed => run'.finalization # "NONE"
    BY <1>1 DEF IInv, CloseFits, BillStands
  <2>. QED BY <1>0, <1>1, <2>3, <2>4, <2>5, <2>6 DEF CloseFits, At
<1>. QED BY <1>2, <1>3, <1>4, <1>5, <1>6, <1>7 DEF IInv

\* The worker has pages worked on.
LEMMA LaunchStep ==
  ASSUME IInv, MediaKept, BillStands, UNCHANGED admin, host'.closed = host.closed,
         ~At(Worker, "waiting"), ~At(Worker, "flushing"),
         NEW ps \in SUBSET Pages, NEW at \in {"read", "prepare"}, NEW kind \in {"send", "refresh"},
         NEW then \in {"flush", "reconcile", "submitted", "settle"}, Launch(ps, at, kind, then),
         Idle(Worker) \/ At(Worker, "submitted") => \A p \in Pages :
           pages[p].st \in Named /\ Obs(p) \notin UsedEvents => p \in ps /\ at = "read",
         at = "prepare" => then = "submitted",
         LastWord => \A p \in ps : ~Untouched(p)
  PROVE  IInv'
<1>0. UNCHANGED <<pages, outbox, provider, flush>> /\ (\A p \in Pages : Idle(p))
  BY DEF MediaKept, IInv, PlacesFit
<1>. DEFINE l == [Resting EXCEPT !.at = at, !.kind = kind]
            w == [job[Worker] EXCEPT !.at = "waiting", !.then = then]
<1>1. l \in JobRow /\ w \in JobRow /\ l.at = at /\ l.kind = kind /\ w.at = "waiting" /\ w.then = then
  <2>1. Resting \in JobRow
    BY DEF JobRow, Ats, Resting, Charges
  <2>2. job[Worker] \in JobRow
    BY Distinct DEF IInv, RowsTyped
  <2>3. at \in Ats /\ "waiting" \in Ats /\ then \in Ats \cup {"flush"}
    BY DEF Ats
  <2>. QED BY <2>1, <2>2, <2>3 DEF JobRow
<1>2. job' = [c \in Clients |-> IF c \in ps THEN l ELSE IF c = Worker THEN w ELSE job[c]]
  BY DEF Launch
<1>. HIDE DEF l, w
<1>3. /\ job' \in [Clients -> JobRow] /\ job'[Worker] = w /\ job'[Admin] = job[Admin]
      /\ \A d \in Clients : d \notin ps /\ d # Worker => job'[d] = job[d]
      /\ \A q \in Pages : q \in Clients /\ q # Worker /\ job'[q] = IF q \in ps THEN l ELSE job[q]
  BY <1>1, <1>2, Distinct DEF IInv, RowsTyped
<1>4. /\ RowsTyped' /\ RunFits(run') /\ Numbered' /\ LedgerFits'
      /\ UsedEvents' = UsedEvents /\ (\A e : Carried(e)' = Carried(e)) /\ Billed' = Billed
  <2>1. \A d \in Clients : job[d].at = "flushing" => job'[d].at = "flushing"
    BY <1>0, <1>3 DEF At, Idle
  <2>. QED BY <1>3, <2>1, KeptFits
<1>5. PlacesFit'
  <2>1. PagePlace(l) /\ WorkerPlace(w)
    BY <1>1 DEF PagePlace, PageAts, WorkerPlace
  <2>2. \A q \in Pages : PagePlace(job[q])
    BY DEF IInv, PlacesFit
  <2>3. \A q \in Pages : PagePlace(job'[q])
    BY <1>3, <2>1, <2>2
  <2>4. WorkerPlace(job'[Worker]) /\ At(Worker, "waiting")' /\ AdminPlace(job'[Admin], admin')
    BY <1>1, <1>3, <2>1 DEF IInv, PlacesFit, At
  <2>5. \A q \in Pages : job'[q].at \in SubmitAts => job'[Worker].then = "submitted"
    BY <1>0, <1>1, <1>3 DEF SubmitAts, Idle, At
  <2>. QED BY <2>3, <2>4, <2>5 DEF PlacesFit
<1>6. (\A d \in Acting : ClientFits(d))'
  <2>1. Acting' = Acting /\ (\A d : Subject(d)' = Subject(d))
    BY DEF Acting, Subject
  <2>2. ASSUME NEW d \in Acting PROVE ClientFits(d)'
    <3>1. CASE d \in ps
      BY <1>1, <1>3, <3>1 DEF ClientFits, Knows, At
    <3>2. CASE d \notin ps
      <4>1. job'[d] = job[d] /\ ClientFits(d)
        BY <1>3, <3>2, ActingOnPage DEF IInv
      <4>. QED BY <1>0, <1>4, <2>1, <4>1 DEF ClientFits, At
    <3>. QED BY <3>1, <3>2
  <2>. QED BY <2>1, <2>2
<1>7. AdminFits'
  BY <1>0, <1>3, <1>4 DEF IInv, AdminFits, Lawful, At
<1>8. \A q \in Pages : PageFits(q)'
  <2>1. SUFFICES ASSUME NEW q \in Pages PROVE PageFits(q)'
    OBVIOUS
  <2>2. PageFits(q) /\ q \in Clients /\ Idle(q)
    BY <1>0, <1>3 DEF IInv
  <2>3. pages[q].st \in Named /\ Obs(q) \notin UsedEvents => q \in ps /\ at = "read"
    BY <1>0, <2>2, WorkerAlone DEF AtSubmitted
  <2>4. job'[q].at \in {"idle", at}
    BY <1>1, <1>3, <2>2 DEF Idle, At
  <2>5. job'[Worker].at = "waiting" /\ (q \in ps => job'[q].at = at)
    BY <1>1, <1>3
  <2>. QED BY <1>0, <1>4, <2>2, <2>3, <2>4, <2>5 DEF PageFits, PageOK, Attended
<1>9. CloseFits'
  <2>1. LastWord' => LastWord
    BY <1>3 DEF LastWord, BillStands
  <2>2. ASSUME LastWord, NEW q \in Pages, Untouched(q) PROVE Untouched(q)'
    <3>1. job'[q] = job[q]
      BY <1>3, <2>2
    <3>. QED BY <1>0, <1>4, <2>2, <3>1 DEF Untouched, Idle, At
  <2>3. LastWord' => \A q \in Pages :
           (Untouched(q) \/ (Obs(q) \in UsedEvents /\ Carried(Obs(q))))'
    BY <1>0, <1>4, <2>1, <2>2 DEF IInv, CloseFits
  <2>4. host'.closed => \A p \in Pages : Obs(p) \in UsedEvents' => p \in Billed'
    BY <1>0, <1>4 DEF IInv, CloseFits
  <2>5. AdminCloses(job'[Admin]) \/ host'.closed => run'.finalization # "NONE"
    BY <1>3 DEF IInv, CloseFits, BillStands
  <2>6. job'[Worker].at = "waiting"
    BY <1>1, <1>3
  <2>. QED BY <2>3, <2>4, <2>5, <2>6 DEF CloseFits, At
<1>. QED BY <1>4, <1>5, <1>6, <1>7, <1>8, <1>9 DEF IInv

-----------------------------------------------------------------------------
(* The steps of the worker. *)

WorkAts == {"advance", "submitted", "settle", "reconcile", "check", "closing"}

LEMMA WorkerBusy ==
  ASSUME IInv, job[Worker].at \in WorkAts
  PROVE  /\ ~Idle(Worker) /\ ~At(Worker, "flushing") /\ ~At(Worker, "waiting")
         /\ \A p \in Pages : Idle(p)
  BY DEF WorkAts, Idle, At, IInv, PlacesFit

LEMMA WorkerGoes ==
  ASSUME IInv, job[Worker].at \in WorkAts \/ (At(Worker, "waiting") /\ \A p \in Pages : Idle(p)),
         MediaKept, BillStands, UNCHANGED admin, host'.closed = host.closed,
         \/ job' = Goto(Worker, "done")
         \/ \E at \in {"reconcile", "submitted", "settle"} :
              job' = Goto(Worker, at) /\ (AtSubmitted => at = "submitted")
         \/ \E then \in {"advance", "check", "closing"} :
              /\ job' = ThenFlush(Worker, then) /\ ~AtSubmitted
              /\ then = "closing" => run'.finalization # "NONE"
  PROVE  IInv'
<1>0. ~Idle(Worker) /\ ~At(Worker, "flushing") /\ \A p \in Pages : Idle(p)
  BY WorkerBusy DEF Idle, At
<1>1. job \in [Clients -> JobRow] /\ job[Worker] \in JobRow /\ Worker \in Clients /\ Worker # Admin
  BY Distinct DEF IInv, RowsTyped
<1>2. CASE job' = Goto(Worker, "done")
  <2>. DEFINE j == Resting
  <2>1. job' = [job EXCEPT ![Worker] = j]
    BY <1>1, <1>2 DEF Goto
  <2>2. j \in JobRow /\ j.at = "idle"
    BY DEF JobRow, Ats, Charges, Resting
  <2>. HIDE DEF j
  <2>3. WorkerPlace(j)
    BY <2>2 DEF WorkerPlace
  <2>. QED BY <1>0, <2>1, <2>2, <2>3, WorkerStep
<1>3. ASSUME NEW at \in {"reconcile", "submitted", "settle"}, job' = Goto(Worker, at),
             AtSubmitted => at = "submitted"
      PROVE  IInv'
  <2>. DEFINE j == [job[Worker] EXCEPT !.at = at]
  <2>1. job' = [job EXCEPT ![Worker] = j]
    BY <1>1, <1>3 DEF Goto
  <2>2. at \in Ats
    BY DEF Ats
  <2>3. j \in JobRow /\ j.at = at
    BY <1>1, <2>2 DEF JobRow
  <2>. HIDE DEF j
  <2>4. WorkerPlace(j)
    BY <2>3 DEF WorkerPlace
  <2>. QED BY <1>0, <1>3, <2>1, <2>3, <2>4, WorkerStep
<1>4. ASSUME NEW then \in {"advance", "check", "closing"}, job' = ThenFlush(Worker, then),
             ~AtSubmitted, then = "closing" => run'.finalization # "NONE"
      PROVE  IInv'
  <2>. DEFINE j == [job[Worker] EXCEPT !.at = "flushing", !.then = then]
  <2>1. job' = [job EXCEPT ![Worker] = j]
    BY <1>1, <1>4 DEF ThenFlush
  <2>2. then \in Ats /\ "flushing" \in Ats
    BY DEF Ats
  <2>3. j \in JobRow /\ j.at = "flushing" /\ j.then = then
    BY <1>1, <2>2 DEF JobRow
  <2>. HIDE DEF j
  <2>4. WorkerPlace(j)
    BY <2>3 DEF WorkerPlace
  <2>. QED BY <1>0, <1>4, <2>1, <2>3, <2>4, WorkerStep
<1>. QED BY <1>2, <1>3, <1>4

LEMMA BatchTyped ==
  ASSUME IInv PROVE batch \in {"NONE", "HELD", "FINAL"} /\ FinalizedBatch \in {"NONE", "HELD", "FINAL"}
  BY DEF FinalizedBatch, IInv, RowsTyped

\* The Run of a bill that is queued, refused or closed has ended.
LEMMA LastWordEnds ==
  ASSUME IInv, LastWord PROVE run.status \in TerminalStates
  BY DEF IInv, LastWord, CloseFits, RunFits

LEMMA StartTickSafe ==
  ASSUME IInv, StartTick
  PROVE  IInv'
<1>. DEFINE then == IF Runnable THEN "flush" ELSE "reconcile"
<1>1. Idle(Worker) /\ Launch(PendingPages, "read", "refresh", then) /\ UNCHANGED <<run, batch>> /\ KeepMedia
  BY DEF StartTick
<1>2. MediaKept /\ BillStands
  BY <1>1, Standing, BatchTyped, SteadyKeeps DEF KeepMedia
<1>3. ~At(Worker, "waiting") /\ ~At(Worker, "flushing") /\ UNCHANGED <<admin, host>>
  BY <1>1 DEF Idle, At, KeepMedia
<1>4. PendingPages \in SUBSET Pages /\ then \in {"flush", "reconcile", "submitted", "settle"}
  BY DEF PendingPages
<1>5. ASSUME NEW p \in Pages, pages[p].st \in Named PROVE p \in PendingPages
  BY <1>5 DEF IInv, PageFits, PageOK, PendingPages, PendingMedia, Named
<1>6. \A p \in PendingPages : ~Untouched(p)
  BY DEF PendingPages, Untouched
<1>. HIDE DEF then
<1>. QED BY <1>1, <1>2, <1>3, <1>4, <1>5, <1>6, LaunchStep

LEMMA JobsDoneSafe ==
  ASSUME IInv, JobsDone
  PROVE  IInv'
<1>1. At(Worker, "waiting") /\ (\A p \in Pages : Idle(p)) /\ UNCHANGED <<run, batch>> /\ KeepMedia
  BY DEF JobsDone
<1>2. MediaKept /\ BillStands
  BY <1>1, Standing, BatchTyped, SteadyKeeps DEF KeepMedia
<1>3. job[Worker].then \in {"flush", "reconcile", "submitted", "settle"}
  BY <1>1 DEF IInv, PlacesFit, WorkerPlace, At
<1>4. UNCHANGED <<admin, host>>
  BY <1>1 DEF KeepMedia
<1>5. CASE job[Worker].then = "flush"
  <2>1. job' = ThenFlush(Worker, "advance") /\ ~AtSubmitted
    BY <1>1, <1>5 DEF JobsDone, AtSubmitted, At
  <2>. QED BY <1>1, <1>2, <1>4, <2>1, WorkerGoes
<1>6. CASE job[Worker].then # "flush"
  <2>1. job' = Goto(Worker, job[Worker].then) /\ (AtSubmitted => job[Worker].then = "submitted")
    BY <1>1, <1>6 DEF JobsDone, AtSubmitted, At
  <2>. QED BY <1>1, <1>2, <1>3, <1>4, <1>6, <2>1, WorkerGoes
<1>. QED BY <1>5, <1>6

LEMMA ReconcileTerminalSafe ==
  ASSUME IInv, ReconcileTerminal
  PROVE  IInv'
<1>1. /\ job[Worker].at \in WorkAts /\ KeepMedia /\ job' = ThenFlush(Worker, "check")
      /\ ~AtSubmitted
  BY DEF ReconcileTerminal, At, WorkAts, AtSubmitted
<1>2. Steady(run, run') /\ ~run'.settled
  BY ConcludeIsSteady, StandsStill DEF ReconcileTerminal, IInv, RowsTyped
<1>3. batch' \in {"NONE", "HELD", "FINAL"}
  BY BatchTyped DEF ReconcileTerminal
<1>4. MediaKept /\ BillStands /\ UNCHANGED <<admin, host>>
  BY <1>1, <1>2, <1>3, SteadyKeeps DEF KeepMedia
<1>. QED BY <1>1, <1>4, WorkerGoes

LEMMA ResumeIsSteady ==
  ASSUME NEW r \in RunRow, RunFits(r), r.status = "RECOVERING", r.pending = "NONE"
  PROVE  Steady(r, ResumeRecovery(r)) /\ ResumeRecovery(r).settled = r.settled
<1>. DEFINE s == To(r, r.recovery.phase)
            recovery == [r.recovery EXCEPT !.active = FALSE]
            t == [s EXCEPT !.recovery = recovery]
<1>1. r.recovery.phase \in RecoverableStates /\ r.recovery \in Recoveries
  BY DEF RunFits, RunRow, Recoveries
<1>2. r.recovery.phase \in Statuses \ {"PAUSED"} /\ r.recovery.phase \notin TerminalStates
  BY <1>1 DEF RecoverableStates, Statuses, TerminalStates
<1>3. /\ s \in RunRow /\ s.status = r.recovery.phase /\ s.resume = "NONE" /\ s.pending = r.pending
      /\ s.failed = r.failed /\ s.recovery = r.recovery /\ s.finalization = r.finalization
      /\ s.settled = r.settled
  BY <1>2, ToMoves
<1>4. recovery \in Recoveries /\ recovery.phase = r.recovery.phase
  BY <1>1 DEF Recoveries
<1>5. ResumeRecovery(r) = t
  <2>1. ResumeRecovery(r) = [s EXCEPT !.recovery.active = FALSE]
    BY DEF ResumeRecovery
  <2>. HIDE DEF s
  <2>. QED BY <1>3, <2>1 DEF RunRow
<1>. HIDE DEF s, recovery
<1>6. /\ t \in RunRow /\ t.status = r.recovery.phase /\ t.resume = "NONE" /\ t.pending = r.pending
      /\ t.failed = r.failed /\ t.recovery = recovery /\ t.finalization = r.finalization
      /\ t.settled = r.settled
  BY <1>3, <1>4 DEF RunRow
<1>. HIDE DEF t
<1>7. Steady(r, t)
  BY <1>1, <1>2, <1>4, <1>6 DEF Steady, Follows, RunFits, Past, Lost, TerminalStates, RecoverableStates
<1>. QED BY <1>5, <1>6, <1>7

LEMMA AdvanceRecoverySafe ==
  ASSUME IInv, AdvanceRecovery
  PROVE  IInv'
<1>1. job[Worker].at \in WorkAts /\ KeepMedia /\ job' = Goto(Worker, "done")
  BY DEF AdvanceRecovery, At, WorkAts
<1>2. run \in RunRow /\ RunFits(run) /\ ~run.settled
  BY DEF IInv, RowsTyped
<1>3. Steady(run, run') /\ ~run'.settled /\ batch' \in {"NONE", "HELD", "FINAL"}
  <2>1. CASE run.pending # "NONE"
    <3>1. batch' = FinalizedBatch /\ run' = ConcludeFailure(run, pages, batch')
      BY <2>1 DEF AdvanceRecovery
    <3>. QED BY <1>2, <3>1, ConcludeIsSteady, BatchTyped
  <2>2. CASE run.pending = "NONE"
    BY <1>2, <2>2, ResumeIsSteady, StandsStill, BatchTyped DEF AdvanceRecovery
  <2>. QED BY <2>1, <2>2
<1>4. MediaKept /\ BillStands /\ UNCHANGED <<admin, host>>
  BY <1>1, <1>3, SteadyKeeps DEF KeepMedia
<1>. QED BY <1>1, <1>4, WorkerGoes

\* Where a person is required the Run is left to one, recovers or fails.
LEMMA RequireHumanIsSteady ==
  ASSUME IInv, run.status \notin {"PAUSED", "CANCELLED"}, NEW p \in Pages, RequireHuman(p)
  PROVE  Steady(run, run') /\ ~run'.settled
<1>. DEFINE r == IF pages[p].cause \in Technical THEN TechnicalFailure(pages[p].cause, pages, batch)
                 ELSE IF CanTransition(run, "NEEDS_HUMAN") THEN To(run, "NEEDS_HUMAN")
                 ELSE FailWith("WORKER_FATAL", pages, batch)
<1>1. run \in RunRow /\ RunFits(run) /\ ~run.settled /\ RowsTyped
  BY DEF IInv, RowsTyped
<1>2. Steady(run, r) /\ ~r.settled
  <2>1. CASE pages[p].cause \in Technical
    BY <1>1, <2>1, TechnicalFailureIsSteady
  <2>2. CASE pages[p].cause \notin Technical /\ CanTransition(run, "NEEDS_HUMAN")
    <3>1. /\ "NEEDS_HUMAN" \in Statuses \ {"PAUSED", "RECOVERING", "COMPLETED", "FAILED"}
          /\ run.status \notin TerminalStates
          /\ ~Lost(run)
      BY <1>1, <2>2 DEF CanTransition, Transitions, Ending, RecoverableStates, RunRow, Statuses,
         TerminalStates, Lost
    <3>2. Steady(run, To(run, "NEEDS_HUMAN")) /\ To(run, "NEEDS_HUMAN").settled = run.settled
      BY <1>1, <3>1, TransitionIsSteady
    <3>. QED BY <1>1, <2>2, <3>2
  <2>3. CASE pages[p].cause \notin Technical /\ ~CanTransition(run, "NEEDS_HUMAN")
    <3>1. "WORKER_FATAL" \in Codes \ {"NONE", RejectedCode}
      BY DEF Codes, FailureCodes, RejectedCode
    <3>. QED BY <1>1, <2>3, <3>1, FailWithIsSteady
  <2>. QED BY <2>1, <2>2, <2>3
<1>3. run' = ConcludeFailure(r, pages, batch)
  BY DEF RequireHuman
<1>. HIDE DEF r
<1>4. r \in RunRow /\ RunFits(r)
  BY <1>2 DEF Steady, Follows
<1>5. Steady(r, run') /\ ~run'.settled
  BY <1>2, <1>3, <1>4, ConcludeIsSteady
<1>. QED BY <1>2, <1>5, Follow

LEMMA AdvanceBlockedSafe ==
  ASSUME IInv, AdvanceBlocked
  PROVE  IInv'
<1>1. job[Worker].at \in WorkAts /\ KeepMedia /\ job' = Goto(Worker, "done") /\ batch' = batch
  BY DEF AdvanceBlocked, At, WorkAts
<1>2. Steady(run, run') /\ ~run'.settled
  BY RequireHumanIsSteady DEF AdvanceBlocked
<1>3. MediaKept /\ BillStands /\ UNCHANGED <<admin, host>>
  BY <1>1, <1>2, BatchTyped, SteadyKeeps DEF KeepMedia
<1>. QED BY <1>1, <1>3, WorkerGoes

LEMMA AdvanceSubmissionSafe ==
  ASSUME IInv, AdvanceSubmission
  PROVE  IInv'
<1>1. /\ At(Worker, "advance") /\ run.status = "EXECUTING" /\ KeepMedia /\ run' = run
      /\ batch' = (IF batch = "NONE" THEN "HELD" ELSE batch)
      /\ Launch(ToSubmit, "prepare", "send", "submitted")
  BY DEF AdvanceSubmission
<1>2. MediaKept /\ BillStands /\ UNCHANGED <<admin, host>>
  <2>1. batch' \in {"NONE", "HELD", "FINAL"}
    BY <1>1, BatchTyped
  <2>2. Steady(run, run') /\ ~run'.settled
    BY <1>1, StandsStill DEF IInv, RowsTyped
  <2>. QED BY <1>1, <2>1, <2>2, SteadyKeeps DEF KeepMedia
<1>3. /\ ~At(Worker, "waiting") /\ ~At(Worker, "flushing") /\ ~Idle(Worker)
      /\ ~At(Worker, "submitted")
  BY <1>1 DEF At, Idle
<1>4. ~LastWord
  BY <1>1, LastWordEnds DEF TerminalStates
<1>5. ToSubmit \in SUBSET Pages
  BY DEF ToSubmit
<1>. QED BY <1>1, <1>2, <1>3, <1>4, <1>5, LaunchStep

LEMMA AfterSubmissionSafe ==
  ASSUME IInv, AfterSubmission
  PROVE  IInv'
<1>1. job[Worker].at \in WorkAts /\ KeepMedia /\ batch' = batch /\ At(Worker, "submitted")
  BY DEF AfterSubmission, At, WorkAts
<1>2. CASE /\ job' = Goto(Worker, "done")
           /\ \/ run' = run
              \/ run.status \notin {"PAUSED", "CANCELLED"} /\ \E p \in Pages : RequireHuman(p)
  <2>1. Steady(run, run') /\ ~run'.settled
    BY <1>2, RequireHumanIsSteady, StandsStill DEF IInv, RowsTyped
  <2>2. MediaKept /\ BillStands /\ UNCHANGED <<admin, host>>
    BY <1>1, <2>1, BatchTyped, SteadyKeeps DEF KeepMedia
  <2>. QED BY <1>1, <1>2, <2>2, WorkerGoes
<1>3. CASE /\ run.status = "EXECUTING" /\ run' = run
           /\ \A p \in Pages : pages[p].st \notin MediaFailure
           /\ Launch({p \in Pages : pages[p].st = "WAITING"}, "read", "refresh", "settle")
  <2>1. MediaKept /\ BillStands /\ UNCHANGED <<admin, host>>
    <3>1. Steady(run, run') /\ ~run'.settled
      BY <1>3, StandsStill DEF IInv, RowsTyped
    <3>. QED BY <1>1, <3>1, BatchTyped, SteadyKeeps DEF KeepMedia
  <2>2. ~At(Worker, "waiting") /\ ~At(Worker, "flushing") /\ ~Idle(Worker)
    BY <1>1 DEF At, Idle
  <2>3. ~LastWord
    BY <1>3, LastWordEnds DEF TerminalStates
  <2>. DEFINE ps == {p \in Pages : pages[p].st = "WAITING"}
  <2>4. /\ ps \in SUBSET Pages /\ Launch(ps, "read", "refresh", "settle")
        /\ \A p \in Pages : pages[p].st \in Named => p \in ps
    BY <1>3 DEF Named, MediaFailure
  <2>. HIDE DEF ps
  <2>. QED BY <2>1, <2>2, <2>3, <2>4, LaunchStep
<1>. QED BY <1>2, <1>3 DEF AfterSubmission

LEMMA SettleSafe ==
  ASSUME IInv, Settle
  PROVE  IInv'
<1>1. job[Worker].at \in WorkAts /\ KeepMedia /\ batch' = FinalizedBatch /\ job' = Goto(Worker, "done")
  BY DEF Settle, At, WorkAts
<1>2. batch' \in {"NONE", "HELD", "FINAL"}
  BY <1>1, BatchTyped
<1>3. CASE Steady(run, run') /\ ~run'.settled
  <2>1. MediaKept /\ BillStands /\ UNCHANGED <<admin, host>>
    BY <1>1, <1>2, <1>3, SteadyKeeps DEF KeepMedia
  <2>. QED BY <1>1, <2>1, WorkerGoes
<1>4. CASE run.status = "EXECUTING" /\ \E p \in Pages : RequireHuman(p)
  BY <1>3, <1>4, RequireHumanIsSteady
<1>5. CASE run' = run
  <2>1. Steady(run, run') /\ ~run'.settled
    BY <1>5, StandsStill DEF IInv, RowsTyped
  <2>. QED BY <1>3, <2>1
<1>6. CASE run.status = "EXECUTING" /\ run' = To(run, "PAGE_REVIEW")
  <2>. DEFINE s == To(run, "PAGE_REVIEW")
  <2>1. run \in RunRow /\ RunFits(run) /\ ~run.settled /\ "PAGE_REVIEW" \in Statuses \ {"PAUSED"}
    BY DEF IInv, RowsTyped, Statuses
  <2>2. /\ s \in RunRow /\ s.status = "PAGE_REVIEW" /\ s.resume = "NONE"
        /\ s.recovery = run.recovery /\ s.finalization = run.finalization /\ s.settled = run.settled
    BY <2>1, ToMoves
  <2>3. run' = s
    BY <1>6
  <2>. HIDE DEF s
  <2>4. RunFits(s) /\ run.finalization = "NONE"
    BY <1>6, <2>1, <2>2 DEF RunFits, TerminalStates
  <2>5. MediaKept /\ BillStands /\ UNCHANGED <<admin, host>>
    BY <1>1, <1>2, <2>1, <2>2, <2>3, <2>4 DEF MediaKept, BillStands, KeepMedia, IInv, RowsTyped
  <2>. QED BY <1>1, <2>5, WorkerGoes
<1>7. \/ run' = run
      \/ run.status = "EXECUTING" /\ (run' = To(run, "PAGE_REVIEW") \/ \E p \in Pages : RequireHuman(p))
  BY DEF Settle
<1>. QED BY <1>4, <1>5, <1>6, <1>7

LEMMA DeliverIsSteady ==
  ASSUME NEW r \in RunRow, RunFits(r), r.status = "PAGE_REVIEW"
  PROVE  /\ Steady(r, [r EXCEPT !.status = "DELIVERING"])
         /\ [r EXCEPT !.status = "DELIVERING"].settled = r.settled
<1>. DEFINE s == [r EXCEPT !.status = "DELIVERING"]
<1>1. /\ s \in RunRow /\ s.status = "DELIVERING" /\ s.resume = r.resume /\ s.pending = r.pending
      /\ s.failed = r.failed /\ s.recovery = r.recovery /\ s.finalization = r.finalization
      /\ s.settled = r.settled
  BY DEF RunRow, Statuses
<1>. HIDE DEF s
<1>2. Steady(r, s)
  BY <1>1 DEF Steady, Follows, RunFits, Past, Lost, TerminalStates
<1>. QED BY <1>1, <1>2 DEF s

LEMMA DeliverSafe ==
  ASSUME IInv, Deliver
  PROVE  IInv'
<1>1. /\ job[Worker].at \in WorkAts /\ KeepMedia /\ batch' = batch /\ job' = Goto(Worker, "done")
      /\ run.status \in {"PAGE_REVIEW", "DELIVERING"}
  BY DEF Deliver, At, WorkAts
<1>2. Steady(run, run') /\ ~run'.settled
  <2>1. run \in RunRow /\ RunFits(run) /\ ~run.settled
    BY DEF IInv, RowsTyped
  <2>2. CASE run.status = "PAGE_REVIEW"
    BY <2>1, <2>2, DeliverIsSteady DEF Deliver
  <2>3. CASE run.status = "DELIVERING"
    <3>1. run' = Ended(run, "COMPLETED") /\ Past(run) /\ run.status \notin TerminalStates
      BY <2>3 DEF Deliver, Past, TerminalStates
    <3>. QED BY <2>1, <3>1, EndIsSteady
  <2>. QED BY <1>1, <2>2, <2>3
<1>3. MediaKept /\ BillStands /\ UNCHANGED <<admin, host>>
  BY <1>1, <1>2, BatchTyped, SteadyKeeps DEF KeepMedia
<1>. QED BY <1>1, <1>3, WorkerGoes

LEMMA NothingToAdvanceSafe ==
  ASSUME IInv, NothingToAdvance
  PROVE  IInv'
<1>1. /\ job[Worker].at \in WorkAts /\ KeepMedia /\ UNCHANGED <<run, batch>>
      /\ job' = Goto(Worker, "done")
  BY DEF NothingToAdvance, At, WorkAts
<1>2. Steady(run, run') /\ ~run'.settled
  BY <1>1, StandsStill DEF IInv, RowsTyped
<1>3. MediaKept /\ BillStands /\ UNCHANGED <<admin, host>>
  BY <1>1, <1>2, BatchTyped, SteadyKeeps DEF KeepMedia
<1>. QED BY <1>1, <1>3, WorkerGoes

-----------------------------------------------------------------------------
(* The steps of the administrator that write no page and no event. *)

\* The administrator goes on, with an action or to the closing of the bill.
LEMMA AdminStep ==
  ASSUME IInv, MediaKept, BillStands, host'.closed = host.closed, ~At(Admin, "flushing"),
         NEW j \in JobRow, job' = [job EXCEPT ![Admin] = j], AdminPlace(j, admin'),
         Lawful(admin'),
         ~Knows(j), j.at \notin {"add_observed", "lookup"},
         AdminCloses(j) => LastWord /\ run'.finalization # "NONE"
  PROVE  IInv'
<1>0. UNCHANGED <<pages, outbox, provider, flush>>
  BY DEF MediaKept
<1>1. /\ job \in [Clients -> JobRow] /\ job' \in [Clients -> JobRow] /\ job'[Admin] = j
      /\ \A d \in Clients : d # Admin => job'[d] = job[d]
      /\ \A q \in Pages : q \in Clients /\ q # Admin /\ job'[q] = job[q]
      /\ job'[Worker] = job[Worker]
  BY Distinct DEF IInv, RowsTyped
<1>2. /\ RowsTyped' /\ RunFits(run') /\ Numbered' /\ LedgerFits'
      /\ UsedEvents' = UsedEvents /\ (\A e : Carried(e)' = Carried(e)) /\ Billed' = Billed
  <2>1. \A d \in Clients : job[d].at = "flushing" => job'[d].at = "flushing"
    BY <1>1 DEF At
  <2>. QED BY <1>1, <2>1, KeptFits
<1>3. PlacesFit'
  BY <1>1 DEF IInv, PlacesFit, At, Idle, SubmitAts
<1>4. (\A d \in Acting : ClientFits(d))'
  <2>1. SUFFICES ASSUME NEW d \in Acting' PROVE ClientFits(d)'
    OBVIOUS
  <2>2. CASE d = Admin
    <3>1. job'[d] = j /\ ~At(d, "add_observed")' /\ ~Knows(job'[d]) /\ ~At(d, "add_resolved")'
      BY <1>1, <2>2 DEF Knows, At
    <3>. QED BY <3>1 DEF ClientFits
  <2>3. CASE d # Admin
    <3>1. d \in Pages /\ d \in Acting /\ Subject(d)' = Subject(d)
      BY <2>3 DEF Acting, Subject
    <3>2. job'[d] = job[d] /\ ClientFits(d)
      BY <1>1, <3>1 DEF IInv
    <3>. QED BY <1>0, <1>2, <3>1, <3>2 DEF ClientFits, At
  <2>. QED BY <2>2, <2>3
<1>5. AdminFits'
  BY <1>0, <1>1, <1>2 DEF AdminFits, Lawful, At
<1>6. \A q \in Pages : PageFits(q)'
  BY <1>0, <1>1, <1>2 DEF IInv, PageFits
<1>7. CloseFits'
  <2>1. LastWord' => LastWord
    BY <1>1 DEF LastWord, BillStands
  <2>2. \A q \in Pages : Untouched(q)' <=> Untouched(q)
    BY <1>0, <1>1, <1>2 DEF Untouched, Idle, At
  <2>3. LastWord' => \A q \in Pages :
           (Untouched(q) \/ (Obs(q) \in UsedEvents /\ Carried(Obs(q))))'
    BY <1>0, <1>2, <2>1, <2>2 DEF IInv, CloseFits
  <2>4. host'.closed => \A p \in Pages : Obs(p) \in UsedEvents' => p \in Billed'
    BY <1>0, <1>2 DEF IInv, CloseFits
  <2>5. AdminCloses(job'[Admin]) \/ host'.closed => run'.finalization # "NONE"
    BY <1>1 DEF IInv, CloseFits, BillStands
  <2>6. run.finalization # "NONE" => run'.finalization # "NONE"
    BY DEF BillStands
  <2>. QED BY <1>0, <1>1, <1>2, <2>3, <2>4, <2>5, <2>6 DEF IInv, CloseFits, At
<1>. QED BY <1>2, <1>3, <1>4, <1>5, <1>6, <1>7 DEF IInv

\* The jobs of the administrator.
LEMMA AdminJobs ==
  ASSUME IInv
  PROVE  /\ job \in [Clients -> JobRow] /\ job[Admin] \in JobRow /\ Admin \in Clients
         /\ Resting \in JobRow /\ Resting.at = "idle" /\ Resting.kind = "none"
         /\ Reinspecting \in JobRow /\ Reinspecting.at = "read" /\ Reinspecting.kind = "refresh"
         /\ Retrying \in JobRow /\ Retrying.at = "retry" /\ Retrying.kind = "none"
         /\ \A v \in Verdicts : Judging(v) \in JobRow /\ Judging(v).at = "resolve"
                                /\ Judging(v).kind = "verdict"
<1>1. Resting \in JobRow /\ Resting.at = "idle" /\ Resting.kind = "none"
  BY DEF JobRow, Ats, Resting, Charges
<1>2. "read" \in Ats /\ "resolve" \in Ats /\ "retry" \in Ats
  BY DEF Ats
<1>3. Reinspecting \in JobRow /\ Reinspecting.at = "read" /\ Reinspecting.kind = "refresh"
  BY <1>1, <1>2 DEF Reinspecting, JobRow
<1>5. Retrying \in JobRow /\ Retrying.at = "retry" /\ Retrying.kind = "none"
  BY <1>1, <1>2 DEF Retrying, JobRow
<1>4. ASSUME NEW v \in Verdicts
      PROVE  Judging(v) \in JobRow /\ Judging(v).at = "resolve" /\ Judging(v).kind = "verdict"
  <2>. DEFINE news == IF v = "MARK_CHARGED" THEN "CHARGED" ELSE "NOT_CHARGED"
  <2>1. news \in Charges /\ Judging(v) = [Resting EXCEPT !.at = "resolve", !.kind = "verdict", !.news = news]
    BY DEF Charges, Judging
  <2>. HIDE DEF news
  <2>. QED BY <1>1, <1>2, <2>1 DEF JobRow
<1>. QED BY <1>1, <1>3, <1>4, <1>5, Distinct DEF IInv, RowsTyped

\* The administrator comes to rest, or to the completion of the action.
LEMMA AdminRests ==
  ASSUME IInv, MediaKept, BillStands, host'.closed = host.closed, ~At(Admin, "flushing"),
         NEW j \in JobRow, job' = [job EXCEPT ![Admin] = j],
         j.at \in {"idle", "done"}, j.kind # "verdict",
         admin' = admin \/ admin'.action = "NONE"
  PROVE  IInv'
<1>1. AdminPlace(j, admin')
  BY DEF AdminPlace, AdminAts, PageActions, Verdicts, IInv, PlacesFit
<1>2. ~Knows(j) /\ ~AdminCloses(j) /\ j.at \notin {"add_observed", "lookup"}
  BY DEF Knows, AdminCloses
<1>3. Lawful(admin')
  BY DEF IInv, AdminFits, Lawful, PageActions, Verdicts
<1>. QED BY <1>1, <1>2, <1>3, AdminStep

-----------------------------------------------------------------------------
(* The closing of the bill. *)

\* A client that closes the bill, the worker or the administrator, finds it queued
\* and goes on to rest, or to complete the retry of the administrator.
LEMMA Closer ==
  ASSUME IInv, NEW c \in {Worker, Admin}, job[c].at \in {"check", "closing"}
  PROVE  /\ \E j \in JobRow :
              /\ Goto(c, "done") = [job EXCEPT ![c] = j]
              /\ j.at \in {"idle", "done"} /\ j.kind # "verdict"
              /\ c = Worker => j = Resting
         /\ At(c, "closing") => run.finalization # "NONE"
         /\ c = Admin => LastWord /\ admin.action \notin PageActions /\ run.finalization # "NONE"
                         /\ ~At(Admin, "flushing")
         /\ c = Worker => job[Worker].at \in WorkAts
<1>1. c = Admin => admin.action \notin PageActions /\ job[Admin].kind # "verdict"
  BY DEF IInv, PlacesFit, AdminPlace, AdminAts, PageActions
<1>2. c = Admin => AdminCloses(job[Admin])
  BY DEF AdminCloses
<1>3. \E j \in JobRow :
        /\ Goto(c, "done") = [job EXCEPT ![c] = j]
        /\ j.at \in {"idle", "done"} /\ j.kind # "verdict"
        /\ c = Worker => j = Resting
  <2>1. CASE c # Admin \/ admin.action = "NONE"
    <3>1. Goto(c, "done") = [job EXCEPT ![c] = Resting]
      BY <2>1, AdminJobs DEF Goto
    <3>. QED BY <3>1, AdminJobs
  <2>2. CASE c = Admin /\ admin.action # "NONE"
    <3>. DEFINE j == [job[Admin] EXCEPT !.at = "done"]
    <3>1. Goto(c, "done") = [job EXCEPT ![c] = j]
      BY <2>2, AdminJobs DEF Goto
    <3>2. j \in JobRow /\ j.at = "done" /\ j.kind = job[Admin].kind
      <4>1. "done" \in Ats
        BY DEF Ats
      <4>. QED BY <4>1, AdminJobs DEF JobRow
    <3>. HIDE DEF j
    <3>. QED BY <1>1, <2>2, <3>1, <3>2, Distinct
  <2>. QED BY <2>1, <2>2
<1>4. c = Admin => LastWord /\ run.finalization # "NONE" /\ ~At(Admin, "flushing")
  BY <1>2 DEF LastWord, IInv, CloseFits, At
<1>5. At(c, "closing") => run.finalization # "NONE"
  BY <1>4 DEF IInv, CloseFits
<1>6. c = Worker => job[Worker].at \in WorkAts
  BY DEF WorkAts
<1>. QED BY <1>1, <1>3, <1>4, <1>5, <1>6

LEMMA CheckFinalizationSafe ==
  ASSUME IInv, NEW c \in {Worker, Admin}, CheckFinalization(c)
  PROVE  IInv'
<1>1. /\ job[c].at \in {"check", "closing"} /\ KeepMedia /\ UNCHANGED <<run, batch>>
      /\ job' = Goto(c, "done") \/ (job' = ThenFlush(c, "closing") /\ run.finalization = "QUEUED")
  BY DEF CheckFinalization, At
<1>2. Steady(run, run') /\ ~run'.settled
  BY <1>1, StandsStill DEF IInv, RowsTyped
<1>3. MediaKept /\ BillStands /\ UNCHANGED <<admin, host>>
  BY <1>1, <1>2, BatchTyped, SteadyKeeps DEF KeepMedia
<1>4. CASE c = Worker
  <2>1. job[Worker].at \in WorkAts /\ ~AtSubmitted
    BY <1>1, <1>4 DEF WorkAts, AtSubmitted, At
  <2>2. run'.finalization = run.finalization
    BY <1>1
  <2>3. CASE job' = Goto(c, "done")
    BY <1>3, <1>4, <2>1, <2>3, WorkerGoes
  <2>4. CASE job' = ThenFlush(c, "closing") /\ run.finalization = "QUEUED"
    BY <1>3, <1>4, <2>1, <2>2, <2>4, WorkerGoes
  <2>. QED BY <1>1, <2>3, <2>4
<1>5. CASE c = Admin
  <2>1. CASE job' = Goto(c, "done")
    BY <1>1, <1>3, <1>5, <2>1, Closer, AdminRests
  <2>2. CASE job' = ThenFlush(c, "closing") /\ run.finalization = "QUEUED"
    <3>. DEFINE j == [job[Admin] EXCEPT !.at = "flushing", !.then = "closing"]
    <3>1. job' = [job EXCEPT ![Admin] = j]
      BY <1>5, <2>2, AdminJobs DEF ThenFlush
    <3>2. "flushing" \in Ats /\ "closing" \in Ats
      BY DEF Ats
    <3>3. j \in JobRow /\ j.at = "flushing" /\ j.then = "closing" /\ j.kind = job[Admin].kind
      BY <3>2, AdminJobs DEF JobRow
    <3>. HIDE DEF j
    <3>4. AdminPlace(j, admin') /\ ~Knows(j)
      BY <1>1, <1>3, <1>5, <3>3, Closer DEF AdminPlace, Knows, IInv, PlacesFit
    <3>5. Lawful(admin')
      BY <1>3 DEF IInv, AdminFits
    <3>6. LastWord /\ run'.finalization # "NONE" /\ ~At(Admin, "flushing")
      BY <1>1, <1>5, Closer
    <3>. QED BY <1>3, <3>1, <3>3, <3>4, <3>5, <3>6, AdminStep
  <2>. QED BY <1>1, <2>1, <2>2
<1>. QED BY <1>4, <1>5

LEMMA ClosingPostponedSafe ==
  ASSUME IInv, NEW c \in {Worker, Admin}, ClosingPostponed(c)
  PROVE  IInv'
<1>1. /\ job[c].at \in {"check", "closing"} /\ KeepMedia /\ UNCHANGED <<run, batch>>
      /\ job' = Goto(c, "done")
  BY DEF ClosingPostponed, At
<1>2. Steady(run, run') /\ ~run'.settled
  BY <1>1, StandsStill DEF IInv, RowsTyped
<1>3. MediaKept /\ BillStands /\ UNCHANGED <<admin, host>>
  BY <1>1, <1>2, BatchTyped, SteadyKeeps DEF KeepMedia
<1>4. CASE c = Worker
  BY <1>1, <1>3, <1>4, WorkerGoes DEF WorkAts
<1>5. CASE c = Admin
  BY <1>1, <1>3, <1>5, Closer, AdminRests
<1>. QED BY <1>4, <1>5

\* Whoever asks for the closing, with no page to reconcile, has reported all that the
\* provider did, and a bill without open charges has it all.
LEMMA AllIsCarried ==
  ASSUME IInv, NEW c \in {Worker, Admin}, At(c, "closing"), PendingPages = {}
  PROVE  /\ \A p \in Pages :
              Untouched(p) \/ (Obs(p) \in UsedEvents /\ Carried(Obs(p)))
         /\ Complete => \A p \in Pages : Obs(p) \in UsedEvents => p \in Billed
<1>1. ASSUME NEW p \in Pages
      PROVE  Untouched(p) \/ (Obs(p) \in UsedEvents /\ Carried(Obs(p)))
  <2>1. CASE c = Admin
    <3>1. LastWord
      BY <2>1, Closer DEF At
    <3>. QED BY <3>1 DEF IInv, CloseFits
  <2>2. CASE c = Worker
    <3>1. (\A q \in Pages : Idle(q)) /\ ~Idle(Worker)
      BY <2>2, WorkerBusy DEF At, WorkAts
    <3>2. CASE Obs(p) \in UsedEvents
      BY <2>2, <3>2 DEF IInv, CloseFits
    <3>3. CASE Obs(p) \notin UsedEvents
      <4>1. ~PendingMedia(pages[p])
        BY DEF PendingPages
      <4>2. provider[p] \in {"none", "refused"}
        <5>1. PageFits(p)
          BY DEF IInv
        <5>2. pages[p].st \notin {"SUBMITTING", "SUBMISSION_UNKNOWN"} \cup Named
          BY <3>3, <4>1, <5>1 DEF PageFits, PageOK, PendingMedia, Named
        <5>. QED BY <3>3, <5>1, <5>2 DEF PageFits, PageOK
      <4>. QED BY <3>1, <3>3, <4>1, <4>2 DEF Untouched
    <3>. QED BY <3>2, <3>3
  <2>. QED BY <2>1, <2>2
<1>2. ASSUME Complete, NEW p \in Pages, Obs(p) \in UsedEvents PROVE p \in Billed
  <2>1. Obs(p) \in UsedEvents /\ Carried(Obs(p)) /\ Obs(p) \in Events
    BY <1>1, <1>2, EventsOfPages DEF Untouched
  <2>2. Received(p, "OBSERVED")
    BY <2>1, CarriedReceived, EventsOfPages
  <2>. QED BY <1>2, <2>2 DEF Complete
<1>. QED BY <1>1, <1>2

\* The bill is asked for: the answer writes what has become of the closing.
LEMMA ClosingStep ==
  ASSUME IInv, NEW c \in {Worker, Admin}, At(c, "closing"), PendingPages = {},
         job' = Goto(c, "done"), MediaKept, UNCHANGED admin, run'.finalization # "NONE",
         host'.closed => host.closed \/ Complete
  PROVE  IInv'
<1>0. UNCHANGED <<pages, outbox, provider, flush>>
  BY DEF MediaKept
<1>1. PICK j \in JobRow :
        /\ job' = [job EXCEPT ![c] = j]
        /\ j.at \in {"idle", "done"} /\ j.kind # "verdict"
        /\ c = Worker => j = Resting
  BY Closer DEF At
<1>9. /\ run.finalization # "NONE"
      /\ c = Admin => admin.action \notin PageActions
      /\ c = Worker => \A p \in Pages : Idle(p)
      /\ c = Worker => ~Idle(Worker)
  BY Closer, WorkerBusy DEF At, WorkAts
<1>2. /\ job \in [Clients -> JobRow] /\ job' \in [Clients -> JobRow] /\ job'[c] = j
      /\ \A d \in Clients : d # c => job'[d] = job[d]
      /\ \A q \in Pages : q \in Clients /\ q # Admin /\ q # Worker /\ job'[q] = job[q]
      /\ Resting.at = "idle" /\ Resting.kind = "none"
      /\ job'[Worker] = (IF c = Worker THEN j ELSE job[Worker])
      /\ job'[Admin] = (IF c = Admin THEN j ELSE job[Admin])
  BY <1>1, AdminJobs, Distinct
<1>3. /\ RowsTyped' /\ RunFits(run') /\ Numbered' /\ LedgerFits'
      /\ UsedEvents' = UsedEvents /\ (\A e : Carried(e)' = Carried(e)) /\ Billed' = Billed
  <2>1. \A d \in Clients : job[d].at = "flushing" => job'[d].at = "flushing"
    BY <1>2 DEF At
  <2>. QED BY <1>2, <2>1, KeptFits
<1>4. PlacesFit'
  <2>1. \A q \in Pages : PagePlace(job'[q]) /\ (Idle(q)' <=> Idle(q)) /\ job'[q] = job[q]
    BY <1>2 DEF IInv, PlacesFit, Idle, At
  <2>2. ASSUME NEW q \in Pages, ~Idle(q) PROVE job'[Worker] = job[Worker] /\ At(Worker, "waiting")'
    BY <1>9, <1>2, <2>2, Distinct DEF IInv, PlacesFit, At
  <2>4. ASSUME NEW q \in Pages, job'[q].at \in SubmitAts PROVE job'[Worker].then = "submitted"
    <3>1. ~Idle(q)
      BY <2>1, <2>4 DEF SubmitAts, Idle, At
    <3>. QED BY <2>1, <2>2, <2>4, <3>1 DEF IInv, PlacesFit
  <2>3. WorkerPlace(job'[Worker]) /\ AdminPlace(job'[Admin], admin)
    BY <1>1, <1>9, <1>2 DEF IInv, PlacesFit, WorkerPlace, AdminPlace
  <2>. QED BY <1>0, <2>1, <2>2, <2>3, <2>4 DEF PlacesFit
<1>5. (\A d \in Acting : ClientFits(d))'
  <2>1. Acting' = Acting /\ (\A d : Subject(d)' = Subject(d))
    BY DEF Acting, Subject
  <2>2. ASSUME NEW d \in Acting PROVE ClientFits(d)'
    <3>1. job'[d] = job[d] /\ ClientFits(d)
      BY <1>9, <1>2, ActingOnPage, Distinct DEF IInv, Acting
    <3>. QED BY <1>0, <1>3, <2>1, <3>1 DEF ClientFits, At
  <2>. QED BY <2>1, <2>2
<1>6. AdminFits'
  BY <1>0, <1>1, <1>2, <1>3, Distinct DEF IInv, AdminFits, Lawful, At
<1>7. \A q \in Pages : PageFits(q)'
  <2>1. SUFFICES ASSUME NEW q \in Pages PROVE PageFits(q)'
    OBVIOUS
  <2>2. PageFits(q)
    BY DEF IInv
  <2>3. job[Worker] = job'[Worker] \/ job'[Worker].at = "idle"
    BY <1>1, <1>2
  <2>4. \A at : Attended(at, job[Worker]) => Attended(at, job'[Worker])
    BY <2>3 DEF Attended
  <2>5. /\ pages'[q] = pages[q] /\ provider'[q] = provider[q] /\ job'[q] = job[q]
        /\ Obs(q) \in UsedEvents' <=> Obs(q) \in UsedEvents
    BY <1>0, <1>2, <1>3
  <2>. QED BY <2>2, <2>4, <2>5 DEF PageFits, PageOK
<1>8. CloseFits'
  <2>1. \A q \in Pages : Untouched(q)' <=> Untouched(q)
    BY <1>0, <1>2, <1>3 DEF Untouched, Idle, At
  <2>2. \A q \in Pages :
           (Untouched(q) \/ (Obs(q) \in UsedEvents /\ Carried(Obs(q))))'
    BY <1>0, <1>3, <2>1, AllIsCarried
  <2>3. host'.closed => \A p \in Pages : Obs(p) \in UsedEvents' => p \in Billed'
    BY <1>0, <1>3, AllIsCarried DEF IInv, CloseFits
  <2>4. At(Worker, "closing")' =>
          run'.finalization # "NONE" /\ \A p \in Pages : (Obs(p) \in UsedEvents => Carried(Obs(p)))'
    BY <1>1, <1>2, <1>3 DEF IInv, CloseFits, At
  <2>5. At(Worker, "flushing")' /\ job'[Worker].then = "closing" =>
          run'.finalization # "NONE"
          /\ (flush'.by = Worker => \A p \in Pages : (Obs(p) \in UsedEvents => outbox[Obs(p)].seq <= flush.upto)')
    BY <1>0, <1>1, <1>2, <1>3 DEF IInv, CloseFits, At
  <2>. QED BY <2>2, <2>3, <2>4, <2>5 DEF CloseFits
<1>. QED BY <1>3, <1>4, <1>5, <1>6, <1>7, <1>8 DEF IInv

\* What an answer makes of the Run: its pages were drawn before, if they were.
LEMMA BillMoves ==
  ASSUME NEW r \in RunRow, RunFits(r), r.finalization # "NONE",
         NEW x \in {"QUEUED", "FAILED", "COMPLETED"}
  PROVE  LET s == [r EXCEPT !.finalization = x]
         IN \A t \in {Restored(s), FailedCompleted(s)} :
              Follows(r, t) /\ t.finalization = x /\ t.settled = r.settled
<1>. DEFINE s == [r EXCEPT !.finalization = x]
<1>1. /\ s \in RunRow /\ s.status = r.status /\ s.resume = r.resume /\ s.pending = r.pending
      /\ s.failed = r.failed /\ s.recovery = r.recovery /\ s.finalization = x
      /\ s.settled = r.settled
  BY DEF RunRow
<1>2. r.status \in TerminalStates /\ r.resume = "NONE"
  BY DEF RunFits, TerminalStates
<1>. HIDE DEF s
<1>3. Follows(r, s)
  BY <1>1, <1>2 DEF Follows, RunFits, Past, Lost, TerminalStates
<1>4. ASSUME r.status = "FAILED", r.failed = RejectedCode
      PROVE  LET t == [s EXCEPT !.status = "COMPLETED", !.failed = "NONE"]
             IN Follows(r, t) /\ t.finalization = x /\ t.settled = r.settled
  <2>. DEFINE t == [s EXCEPT !.status = "COMPLETED", !.failed = "NONE"]
  <2>1. /\ t \in RunRow /\ t.status = "COMPLETED" /\ t.resume = s.resume /\ t.pending = s.pending
        /\ t.failed = "NONE" /\ t.recovery = s.recovery /\ t.finalization = s.finalization
        /\ t.settled = s.settled
    BY <1>1 DEF RunRow, Statuses, Codes
  <2>2. Past(r)
    BY <1>4 DEF Past
  <2>. HIDE DEF t
  <2>3. Follows(r, t)
    BY <1>1, <1>2, <2>1, <2>2 DEF Follows, RunFits, TerminalStates
  <2>. QED BY <1>1, <2>1, <2>3 DEF t
<1>5. ASSUME r.status = "COMPLETED"
      PROVE  LET t == [s EXCEPT !.status = "FAILED", !.failed = RejectedCode]
             IN Follows(r, t) /\ t.finalization = x /\ t.settled = r.settled
  <2>. DEFINE t == [s EXCEPT !.status = "FAILED", !.failed = RejectedCode]
  <2>1. RejectedCode \in Codes
    BY DEF Codes
  <2>2. /\ t \in RunRow /\ t.status = "FAILED" /\ t.resume = s.resume /\ t.pending = s.pending
        /\ t.failed = RejectedCode /\ t.recovery = s.recovery /\ t.finalization = s.finalization
        /\ t.settled = s.settled
    BY <1>1, <2>1 DEF RunRow, Statuses
  <2>3. Past(r)
    BY <1>5 DEF Past
  <2>. HIDE DEF t
  <2>4. Follows(r, t)
    BY <1>1, <1>2, <2>2, <2>3 DEF Follows, RunFits, TerminalStates
  <2>. QED BY <1>1, <2>2, <2>4 DEF t
<1>6. ASSUME NEW t \in {Restored(s), FailedCompleted(s)}
      PROVE  Follows(r, t) /\ t.finalization = x /\ t.settled = r.settled
  BY <1>1, <1>3, <1>4, <1>5, <1>6 DEF Restored, FailedCompleted
<1>. QED BY <1>6 DEF s

LEMMA BillAnswered ==
  ASSUME IInv, NEW c \in {Worker, Admin}, At(c, "closing"), PendingPages = {},
         job' = Goto(c, "done"), KeepClosing, faults' \in Nat,
         NEW x \in {"QUEUED", "FAILED", "COMPLETED"},
         run' \in {Restored([run EXCEPT !.finalization = x]),
                   FailedCompleted([run EXCEPT !.finalization = x])},
         \/ host' = host
         \/ \E b \in BOOLEAN : host' = [host EXCEPT !.closed = b] /\ (b => host.closed \/ Complete)
  PROVE  IInv' /\ Follows(run, run')
<1>1. run \in RunRow /\ RunFits(run) /\ ~run.settled /\ run.finalization # "NONE"
  BY Closer DEF IInv, RowsTyped, At
<1>2. Follows(run, run') /\ run'.finalization = x /\ ~run'.settled
  <2>1. \A t \in {Restored([run EXCEPT !.finalization = x]), FailedCompleted([run EXCEPT !.finalization = x])} :
          Follows(run, t) /\ t.finalization = x /\ t.settled = run.settled
    BY <1>1, BillMoves
  <2>. QED BY <1>1, <2>1
<1>3. /\ host' \in [ledger : Seq(Entries), closed : BOOLEAN] /\ host'.ledger = host.ledger
      /\ host'.closed => host.closed \/ Complete
  BY DEF IInv, RowsTyped
<1>4. MediaKept /\ UNCHANGED admin
  BY <1>2, <1>3 DEF MediaKept, KeepClosing, Follows, IInv, RowsTyped
<1>. QED BY <1>2, <1>3, <1>4, ClosingStep

LEMMA BillSettledSafe ==
  ASSUME IInv, NEW c \in {Worker, Admin}, BillSettled(c)
  PROVE  IInv' /\ Follows(run, run')
<1>1. /\ At(c, "closing") /\ PendingPages = {} /\ job' = Goto(c, "done") /\ KeepClosing
      /\ Complete /\ host' = [host EXCEPT !.closed = TRUE]
      /\ run' = Restored([run EXCEPT !.finalization = "COMPLETED"]) /\ faults' \in Nat
  BY DEF BillSettled, Closing, IInv, RowsTyped
<1>. QED BY <1>1, BillAnswered

LEMMA BillOpenSafe ==
  ASSUME IInv, NEW c \in {Worker, Admin}, BillOpen(c)
  PROVE  IInv' /\ Follows(run, run')
<1>1. /\ At(c, "closing") /\ PendingPages = {} /\ job' = Goto(c, "done") /\ KeepClosing
      /\ run' = Restored([run EXCEPT !.finalization = "QUEUED"])
  BY DEF BillOpen, Closing
<1>2. faults' \in Nat
  BY Faults DEF BillOpen, IInv, RowsTyped
<1>3. host' = host \/ host' = [host EXCEPT !.closed = host.closed \/ Complete]
  BY DEF BillOpen
<1>. DEFINE b == host.closed \/ Complete
<1>4. b \in BOOLEAN /\ (host' = host \/ host' = [host EXCEPT !.closed = b])
  BY <1>3
<1>. QED BY <1>1, <1>2, <1>4, BillAnswered

LEMMA BillRefusedSafe ==
  ASSUME IInv, NEW c \in {Worker, Admin}, BillRefused(c)
  PROVE  IInv' /\ Follows(run, run')
<1>1. /\ At(c, "closing") /\ PendingPages = {} /\ job' = Goto(c, "done") /\ KeepClosing
      /\ run' = FailedCompleted([run EXCEPT !.finalization = "FAILED"]) /\ host' = host
  BY DEF BillRefused, Closing
<1>2. faults' \in Nat
  BY Faults DEF BillRefused
<1>. QED BY <1>1, <1>2, BillAnswered

-----------------------------------------------------------------------------
(* The actions of the administrator. *)

\* The administrator has a rejected event sent again.
LEMMA RetryingPlace ==
  ASSUME IInv, At(Admin, "retry")
  PROVE  /\ admin.action \notin PageActions /\ Acting = Pages
         /\ job[Admin].kind # "verdict" /\ ~At(Admin, "flushing")
  BY DEF IInv, PlacesFit, AdminPlace, AdminAts, Acting, At, PageActions

LEMMA RetryEventSafe ==
  ASSUME IInv, NEW e \in Events, RetryEvent(e)
  PROVE  IInv'
<1>1. /\ admin.action \notin PageActions /\ Acting = Pages
      /\ job[Admin].kind # "verdict" /\ ~At(Admin, "flushing")
      /\ outbox[e].state = "REJECTED" /\ e \in UsedEvents
      /\ outbox' = [outbox EXCEPT ![e].state = "PENDING"] /\ job' = ThenFlush(Admin, "done")
      /\ UNCHANGED <<run, pages, batch, admin, host, provider, flush, faults>>
  BY RetryingPlace DEF RetryEvent, RetriesEvent, KeepAdmin, UsedEvents
<1>2. /\ outbox' \in [Events -> EventRow] /\ outbox'[e].state = "PENDING"
      /\ \A f \in Events :
           /\ outbox[f].state = "NONE" => outbox'[f] = outbox[f]
           /\ outbox'[f].state = "NONE" => outbox[f].state = "NONE"
           /\ outbox'[f].seq = outbox[f].seq /\ outbox'[f].billing = outbox[f].billing
           /\ f # e => outbox'[f] = outbox[f]
  BY <1>1, StateWritten
<1>3. \A f \in Events : outbox'[f].state = "ACKNOWLEDGED" => outbox[f].seq <= Len(host'.ledger)
  BY <1>1, <1>2 DEF IInv, LedgerFits, Carried
<1>4. Sent
  <2>1. LedgerGoesOn(host')
    BY <1>1, LedgerStands
  <2>2. Steady(run, run') /\ ~run'.settled /\ faults' \in Nat
    BY <1>1, StandsStill DEF IInv, RowsTyped
  <2>. QED BY <1>1, <1>2, <1>3, <2>1, <2>2 DEF Sent
<1>5. flush.by = Nobody
  BY <1>1 DEF IInv, LedgerFits, HasRejection
<1>. DEFINE j == [job[Admin] EXCEPT !.at = "flushing", !.then = "done"]
<1>6. job' = [job EXCEPT ![Admin] = j]
  BY <1>1, AdminJobs DEF ThenFlush
<1>7. j \in JobRow /\ j.at = "flushing" /\ j.then = "done" /\ j.kind = job[Admin].kind
  <2>1. "flushing" \in Ats /\ "done" \in Ats
    BY DEF Ats
  <2>. QED BY <2>1, AdminJobs DEF JobRow
<1>. HIDE DEF j
<1>8. /\ job \in [Clients -> JobRow] /\ job' \in [Clients -> JobRow] /\ job'[Admin] = j
      /\ \A d \in Clients : d # Admin => job'[d] = job[d]
      /\ \A q \in Pages : q \in Clients /\ q # Admin /\ job'[q] = job[q]
      /\ job'[Worker] = job[Worker]
  BY <1>6, <1>7, AdminJobs, Distinct
<1>9. /\ UsedEvents' = UsedEvents /\ Acting' = Acting /\ Acting = Pages
      /\ (\A d : Subject(d)' = Subject(d)) /\ (\A f : Carried(f)' = Carried(f)) /\ Billed' = Billed
  <2>1. UsedEvents' = UsedEvents /\ Acting' = Acting /\ Acting = Pages /\ \A d : Subject(d)' = Subject(d)
    BY <1>1, <1>4, SentKeeps
  <2>2. \A f : f \in Events => outbox'[f].seq = outbox[f].seq /\ outbox'[f].billing = outbox[f].billing
    BY <1>2
  <2>3. \A f : Carried(f)' = Carried(f)
    <3>1. SUFFICES ASSUME NEW f PROVE outbox'[f].seq = outbox[f].seq
      BY <1>1 DEF Carried
    <3>2. CASE f = e
      BY <1>2, <3>2
    <3>3. CASE f # e
      BY <1>1, <3>3 DEF IInv, RowsTyped
    <3>. QED BY <3>2, <3>3
  <2>4. Billed' = Billed
    <3>1. \A p, kind : Received(p, kind)' = Received(p, kind)
      BY <1>1 DEF Received
    <3>2. \A p \in Pages : <<p, "OBSERVED">> \in Events
      BY DEF Events
    <3>. QED BY <2>2, <3>1, <3>2 DEF Billed
  <2>. QED BY <2>1, <2>3, <2>4
<1>10. RowsTyped'
  BY <1>1, <1>2, <1>8 DEF IInv, RowsTyped
<1>11. Numbered' /\ RunFits(run')
  BY <1>4, SentKeeps
<1>12. LedgerFits'
  BY <1>1, <1>4, <1>5, SentKeeps DEF LedgerFits
<1>13. PlacesFit'
  <2>1. AdminPlace(j, admin)
    BY <1>1, <1>7 DEF AdminPlace
  <2>. QED BY <1>1, <1>8, <2>1 DEF IInv, PlacesFit, At, Idle, SubmitAts
<1>14. (\A d \in Acting : ClientFits(d))'
  <2>1. SUFFICES ASSUME NEW d \in Acting PROVE ClientFits(d)'
    BY <1>9
  <2>2. job'[d] = job[d] /\ ClientFits(d) /\ Obs(Subject(d)) \in Events
    BY <1>8, <1>9, ActingOnPage, EventsOfPages DEF IInv
  <2>3. outbox'[Obs(Subject(d))].billing = outbox[Obs(Subject(d))].billing
    BY <1>2, <2>2
  <2>. QED BY <1>1, <1>9, <2>2, <2>3 DEF ClientFits, At
<1>15. AdminFits'
  BY <1>1, <1>7, <1>8 DEF AdminFits, Lawful, At
<1>16. \A q \in Pages : PageFits(q)'
  BY <1>1, <1>8, <1>9 DEF IInv, PageFits
<1>17. CloseFits'
  <2>1. ~AdminCloses(job'[Admin])
    BY <1>7, <1>8 DEF AdminCloses
  <2>2. LastWord' => LastWord
    BY <1>1, <2>1 DEF LastWord
  <2>3. \A q \in Pages : Untouched(q)' <=> Untouched(q)
    BY <1>1, <1>8, <1>9 DEF Untouched, Idle, At
  <2>4. LastWord' => \A q \in Pages :
           (Untouched(q) \/ (Obs(q) \in UsedEvents /\ Carried(Obs(q))))'
    BY <1>1, <1>9, <2>2, <2>3 DEF IInv, CloseFits
  <2>5. flush'.by # Worker
    BY <1>1, <1>5, Distinct
  <2>. QED BY <1>1, <1>8, <1>9, <2>1, <2>4, <2>5 DEF IInv, CloseFits, At
<1>. QED BY <1>10, <1>11, <1>12, <1>13, <1>14, <1>15, <1>16, <1>17 DEF IInv

\* The administrator begins an action, or repeats it.
LEMMA ActionStep ==
  ASSUME IInv, Idle(Admin), UNCHANGED <<run, pages, batch, outbox>>, KeepAdmin,
         NEW j \in {Reinspecting, Retrying} \cup {Judging(v) : v \in Verdicts},
         job' = [job EXCEPT ![Admin] = j],
         admin' \in [action : Actions, on : Pages \cup {Nobody}, begun : Nat],
         Lawful(admin'),
         \/ j = Retrying /\ admin'.action \notin PageActions
         \/ admin'.on \in Pages /\ j = Reinspecting /\ admin'.action = "REINSPECT"
         \/ admin'.on \in Pages /\ (\E v \in Verdicts : j = Judging(v)) /\ admin'.action \in Verdicts
  PROVE  IInv'
<1>1. /\ j \in JobRow
      /\ \/ j.at = "read" /\ j.kind = "refresh" /\ admin'.on \in Pages /\ admin'.action = "REINSPECT"
         \/ j.at = "resolve" /\ j.kind = "verdict" /\ admin'.on \in Pages /\ admin'.action \in Verdicts
         \/ j.at = "retry" /\ j.kind = "none" /\ admin'.action \notin PageActions
  BY AdminJobs DEF PageActions
<1>2. AdminPlace(j, admin') /\ ~Knows(j) /\ ~AdminCloses(j) /\ j.at \notin {"add_observed", "lookup"}
  BY <1>1 DEF AdminPlace, AdminAts, Knows, AdminCloses, PageActions
<1>3. MediaKept /\ BillStands /\ host'.closed = host.closed
  BY DEF MediaKept, BillStands, KeepAdmin, IInv, RowsTyped
<1>. QED BY <1>1, <1>2, <1>3, AdminStep DEF Idle, At

LEMMA ReinspectPageSafe ==
  ASSUME IInv, NEW p \in Pages, ReinspectPage(p)
  PROVE  IInv'
<1>1. /\ Idle(Admin) /\ "REINSPECT" \in AdminActions /\ pages[p].op /\ pages[p].st \in Named
      /\ admin' = [action |-> "REINSPECT", on |-> p, begun |-> admin.begun + 1]
      /\ job' = [job EXCEPT ![Admin] = Reinspecting]
      /\ UNCHANGED <<run, pages, batch, outbox>> /\ KeepAdmin
  BY DEF ReinspectPage, MayBegin, Begin, Named
<1>2. admin.begun + 1 \in Nat
  BY DEF IInv, RowsTyped
<1>3. admin' \in [action : Actions, on : Pages \cup {Nobody}, begun : Nat] /\ Lawful(admin')
  BY <1>1, <1>2 DEF Actions, Lawful
<1>. QED BY <1>1, <1>3, ActionStep

\* A verdict is about an operation that was found, or lost while it was under way.
LEMMA BeginVerdictSafe ==
  ASSUME IInv, NEW p \in Pages, NEW verdict \in Verdicts, BeginVerdict(p, verdict)
  PROVE  IInv'
<1>1. /\ Idle(Admin) /\ verdict \in AdminActions /\ pages[p].op
      /\ admin' = [action |-> verdict, on |-> p, begun |-> admin.begun + 1]
      /\ job' = [job EXCEPT ![Admin] = Judging(verdict)]
      /\ UNCHANGED <<run, pages, batch, outbox>> /\ KeepAdmin
  BY DEF BeginVerdict, MayBegin, Begin
<1>2. admin.begun + 1 \in Nat /\ verdict # "REINSPECT"
  BY DEF IInv, RowsTyped, Verdicts
<1>3. admin' \in [action : Actions, on : Pages \cup {Nobody}, begun : Nat] /\ Lawful(admin')
  BY <1>1, <1>2 DEF Actions, Lawful
<1>. QED BY <1>1, <1>3, ActionStep

\* The step of a retry is written before the retry itself.
LEMMA BeginRetryEventSafe ==
  ASSUME IInv, NEW e \in Events, BeginRetryEvent(e)
  PROVE  IInv'
<1>1. /\ Idle(Admin)
      /\ admin' = [action |-> RetryOf(e), on |-> e[1], begun |-> admin.begun + 1]
      /\ job' = [job EXCEPT ![Admin] = Retrying]
      /\ UNCHANGED <<run, pages, batch, outbox>> /\ KeepAdmin
  BY DEF BeginRetryEvent, MayBegin, Begin
<1>2. admin.begun + 1 \in Nat /\ e[1] \in Pages /\ RetryOf(e) \in Retries \ PageActions
  BY DEF IInv, RowsTyped, Events, RetryOf, Retries, PageActions, Verdicts
<1>3. admin' \in [action : Actions, on : Pages \cup {Nobody}, begun : Nat] /\ Lawful(admin')
  BY <1>1, <1>2 DEF Actions, Lawful
<1>. QED BY <1>1, <1>2, <1>3, ActionStep

LEMMA BeginRetryFinalizationSafe ==
  ASSUME IInv, BeginRetryFinalization
  PROVE  IInv'
<1>1. /\ Idle(Admin)
      /\ admin' = [action |-> "RETRY_FINALIZATION", on |-> Nobody, begun |-> admin.begun + 1]
      /\ job' = [job EXCEPT ![Admin] = Retrying]
      /\ UNCHANGED <<run, pages, batch, outbox>> /\ KeepAdmin
  BY DEF BeginRetryFinalization, MayBegin, Begin
<1>2. admin.begun + 1 \in Nat /\ "RETRY_FINALIZATION" \in Retries \ PageActions
  BY DEF IInv, RowsTyped, Retries, PageActions, Verdicts
<1>3. admin' \in [action : Actions, on : Pages \cup {Nobody}, begun : Nat] /\ Lawful(admin')
  BY <1>1, <1>2 DEF Actions, Lawful
<1>. QED BY <1>1, <1>2, <1>3, ActionStep

LEMMA ActSafe ==
  ASSUME IInv, Act
  PROVE  IInv'
<1>1. /\ Idle(Admin) /\ UNCHANGED <<run, pages, batch, outbox, admin>> /\ KeepAdmin
  BY DEF Act, KeepMedia, KeepAdmin
<1>2. /\ admin' \in [action : Actions, on : Pages \cup {Nobody}, begun : Nat] /\ Lawful(admin')
      /\ admin.action \in PageActions => admin.on \in Pages
  BY <1>1 DEF IInv, RowsTyped, AdminFits, PlacesFit, AdminPlace
<1>3. CASE admin.action \in Verdicts /\ job' = [job EXCEPT ![Admin] = Judging(admin.action)]
  <2>1. admin.action \in PageActions
    BY <1>3 DEF PageActions
  <2>. QED BY <1>1, <1>2, <1>3, <2>1, ActionStep
<1>4. CASE admin.action = "REINSPECT" /\ job' = [job EXCEPT ![Admin] = Reinspecting]
  <2>1. admin.action \in PageActions
    BY <1>4 DEF PageActions
  <2>. QED BY <1>1, <1>2, <1>4, <2>1, ActionStep
<1>5. CASE /\ RetriesFinalization \/ \E e \in Events : RetriesEvent(e)
           /\ job' = [job EXCEPT ![Admin] = Retrying]
  <2>1. admin.action \notin PageActions
    BY <1>5 DEF RetriesFinalization, RetriesEvent, RetryOf, PageActions, Verdicts
  <2>. QED BY <1>1, <1>2, <1>5, <2>1, ActionStep
<1>. QED BY <1>3, <1>4, <1>5 DEF Act

LEMMA RetryFinalizationSafe ==
  ASSUME IInv, RetryFinalization
  PROVE  IInv' /\ Follows(run, run')
<1>1. /\ admin.action \notin PageActions /\ job[Admin].kind # "verdict" /\ ~At(Admin, "flushing")
      /\ run.finalization = "FAILED"
      /\ run' = [run EXCEPT !.finalization = "QUEUED"] /\ job' = Goto(Admin, "check")
      /\ UNCHANGED <<pages, batch, outbox, admin>> /\ KeepAdmin
  BY RetryingPlace DEF RetryFinalization, RetriesFinalization
<1>2. run \in RunRow /\ RunFits(run) /\ ~run.settled
  BY DEF IInv, RowsTyped
<1>3. run' \in RunRow /\ run'.finalization = "QUEUED" /\ run'.status = run.status
      /\ run'.resume = run.resume /\ run'.pending = run.pending /\ run'.failed = run.failed
      /\ run'.recovery = run.recovery /\ run'.settled = run.settled
  BY <1>1, <1>2 DEF RunRow
<1>4. Follows(run, run')
  BY <1>1, <1>2, <1>3 DEF Follows, RunFits, Past, Lost
<1>. DEFINE j == [job[Admin] EXCEPT !.at = "check"]
<1>5. job' = [job EXCEPT ![Admin] = j]
  BY <1>1, AdminJobs DEF Goto
<1>6. j \in JobRow /\ j.at = "check" /\ j.kind = job[Admin].kind
  <2>1. "check" \in Ats
    BY DEF Ats
  <2>. QED BY <2>1, AdminJobs DEF JobRow
<1>. HIDE DEF j
<1>7. AdminPlace(j, admin') /\ ~Knows(j) /\ j.at \notin {"add_observed", "lookup"}
  BY <1>1, <1>6 DEF AdminPlace, Knows
<1>10. Lawful(admin')
  BY <1>1 DEF Lawful
<1>8. MediaKept /\ BillStands /\ host'.closed = host.closed /\ ~At(Admin, "flushing")
  BY <1>1, <1>2, <1>3, <1>4 DEF MediaKept, BillStands, KeepAdmin, Follows, Idle, At, IInv, RowsTyped
<1>9. LastWord
  BY <1>1 DEF LastWord
<1>. QED BY <1>1, <1>3, <1>4, <1>5, <1>6, <1>7, <1>8, <1>9, <1>10, AdminStep

LEMMA CompleteActionSafe ==
  ASSUME IInv, CompleteAction
  PROVE  IInv'
<1>1. /\ ~At(Admin, "flushing") /\ admin' = NoAction(admin.begun)
      /\ job' = [job EXCEPT ![Admin] = Resting]
      /\ UNCHANGED <<run, pages, batch, outbox>> /\ KeepAdmin
  BY DEF CompleteAction, At
<1>2. MediaKept /\ BillStands /\ host'.closed = host.closed /\ admin'.action = "NONE"
  BY <1>1 DEF MediaKept, BillStands, KeepAdmin, NoAction, Actions, IInv, RowsTyped
<1>. QED BY <1>1, <1>2, AdminJobs, AdminRests

LEMMA RefinalizeBatchSafe ==
  ASSUME IInv, RefinalizeBatch
  PROVE  IInv'
<1>1. /\ At(Admin, "refinalize") /\ ~At(Admin, "flushing") /\ batch' = FinalizedBatch
      /\ job' = Goto(Admin, "done") /\ run' = run /\ KeepMedia
  BY DEF RefinalizeBatch, At
<1>2. /\ admin.action \in PageActions /\ admin.on \in Pages /\ Lawful(admin)
      /\ job[Admin].kind = "verdict" => admin.action \in Verdicts
  BY <1>1 DEF IInv, PlacesFit, AdminPlace, AdminFits, At
<1>. DEFINE j == [job[Admin] EXCEPT !.at = "done"]
<1>3. job' = [job EXCEPT ![Admin] = j]
  BY <1>1, <1>2, AdminJobs DEF Goto, PageActions, Verdicts
<1>4. j \in JobRow /\ j.at = "done" /\ j.kind = job[Admin].kind
  <2>1. "done" \in Ats
    BY DEF Ats
  <2>. QED BY <2>1, AdminJobs DEF JobRow
<1>. HIDE DEF j
<1>5. /\ AdminPlace(j, admin) /\ ~Knows(j) /\ ~AdminCloses(j)
      /\ j.at \notin {"add_observed", "lookup"}
  BY <1>2, <1>4 DEF AdminPlace, AdminAts, Knows, AdminCloses
<1>6. MediaKept /\ BillStands /\ UNCHANGED <<admin, host>>
  <2>1. Steady(run, run') /\ ~run'.settled
    BY <1>1, StandsStill DEF IInv, RowsTyped
  <2>. QED BY <1>1, <2>1, BatchTyped, SteadyKeeps DEF KeepMedia
<1>. QED BY <1>1, <1>2, <1>3, <1>4, <1>5, <1>6, AdminStep

\* The verdict on the charge of an operation is written.
LEMMA ResolveAccountingSafe ==
  ASSUME IInv, ResolveAccounting
  PROVE  Safe
<1>. DEFINE p == admin.on
            desired == IF admin.action = "MARK_CHARGED" THEN "FAILED_CHARGED" ELSE "FAILED_NOT_CHARGED"
<1>1. /\ At(Admin, "mark") /\ job[Admin].kind = "verdict" /\ job[Admin].at = "mark"
      /\ UNCHANGED <<run, batch, outbox, admin, host, provider, flush, faults>>
      /\ \/ /\ pages' = [pages EXCEPT ![p].st = desired]
            /\ job' = Goto(Admin, "refinalize")
         \/ job' = [job EXCEPT ![Admin] = Resting] /\ pages' = pages
  BY DEF ResolveAccounting, KeepAdmin, At
<1>2. desired \in {"FAILED_CHARGED", "FAILED_NOT_CHARGED"}
  OBVIOUS
<1>. HIDE DEF desired
<1>3. /\ Admin \in Acting /\ admin.action \in Verdicts /\ p \in Pages /\ p = Subject(Admin)
      /\ pages[p].op /\ Admin # p /\ ~Idle(Admin) /\ ~At(Admin, "flushing")
  <2>1. admin.action \in Verdicts /\ admin.action \in PageActions
    BY <1>1 DEF IInv, PlacesFit, AdminPlace, Verdicts
  <2>2. Admin \in Acting
    BY <2>1 DEF Acting
  <2>3. Admin \notin Pages
    BY Distinct
  <2>. QED BY <1>1, <2>1, <2>2, <2>3, ActingOnPage DEF Idle, At
<1>4. Obs(p) \in UsedEvents
  BY <1>1, <1>3 DEF IInv, ClientFits, Knows
<1>5. ASSUME NEW row \in PageRow, row.op, pages' = [pages EXCEPT ![p] = row],
             NEW j \in JobRow, job' = [job EXCEPT ![Admin] = j], j.at \in {"idle", "refinalize"},
             j.at = "refinalize" => j.kind = "verdict",
             j.kind = "verdict" \/ j.kind = "none"
      PROVE  Safe
  <2>1. PageWrite(Admin, p, row, provider[p])
    <3>1. Steady(run, run') /\ ~run'.settled /\ faults' \in Nat
      BY <1>1, Standing
    <3>. QED BY <1>1, <1>3, <1>4, <1>5, <3>1, Unwritten DEF PageWrite
  <2>2. AdminPlace(j, admin) /\ ~Knows(j)
    BY <1>3, <1>5 DEF AdminPlace, AdminAts, Knows, Verdicts, PageActions
  <2>3. Placed(Admin, p, j, row)
    BY <1>5, <2>2 DEF Placed, SubmitAts
  <2>4. Lands(Admin, p, j.at, row, provider[p])
    BY <1>4, <1>5 DEF Lands, PageOK
  <2>. QED BY <2>1, <2>3, <2>4, PageStep
<1>6. CASE pages' = [pages EXCEPT ![p].st = desired] /\ job' = Goto(Admin, "refinalize")
  <2>. DEFINE row == [pages[p] EXCEPT !.st = desired]
              j == [job[Admin] EXCEPT !.at = "refinalize"]
  <2>1. pages \in [Pages -> PageRow] /\ pages[p] \in PageRow
    BY <1>3 DEF IInv, RowsTyped
  <2>2. desired \in PageStates
    BY <1>2 DEF PageStates, MediaFailure, Released
  <2>3. row \in PageRow /\ row.op
    BY <1>3, <2>1, <2>2 DEF PageRow, PageStates
  <2>4. pages' = [pages EXCEPT ![p] = row]
    BY <1>6, <2>1
  <2>5. "refinalize" \in Ats \ {"done"}
    BY DEF Ats
  <2>6. j \in JobRow /\ Goto(Admin, "refinalize") = [job EXCEPT ![Admin] = j] /\ j.at = "refinalize"
        /\ j.kind = job[Admin].kind
    BY <1>3, <2>5, GotoMoves
  <2>. HIDE DEF row, j
  <2>. QED BY <1>1, <1>5, <1>6, <2>3, <2>4, <2>6
<1>7. CASE job' = [job EXCEPT ![Admin] = Resting] /\ pages' = pages
  <2>1. pages' = [pages EXCEPT ![p] = pages[p]] /\ pages[p] \in PageRow
    BY <1>3, <1>7, Unwritten
  <2>. QED BY <1>3, <1>5, <1>7, <2>1, AdminJobs
<1>. QED BY <1>1, <1>6, <1>7


-----------------------------------------------------------------------------
(* The users, and a crash. *)

LEMMA UserStep ==
  ASSUME IInv, MediaKept, BillStands, UNCHANGED <<admin, job>>, host' = host
  PROVE  IInv'
<1>0. UNCHANGED <<pages, outbox, provider, flush>>
  BY DEF MediaKept
<1>1. /\ RowsTyped' /\ RunFits(run') /\ Numbered' /\ LedgerFits'
      /\ UsedEvents' = UsedEvents /\ (\A e : Carried(e)' = Carried(e)) /\ Billed' = Billed
  BY KeptFits DEF IInv, RowsTyped
<1>2. PlacesFit' /\ AdminFits'
  BY <1>0, <1>1 DEF IInv, PlacesFit, AdminFits, Lawful, Idle, At
<1>3. (\A d \in Acting : ClientFits(d))'
  BY <1>0, <1>1 DEF IInv, ClientFits, Acting, Subject, At
<1>4. \A q \in Pages : PageFits(q)'
  BY <1>0, <1>1 DEF IInv, PageFits
<1>5. CloseFits'
  <2>1. LastWord' => LastWord
    BY DEF LastWord, BillStands
  <2>2. \A q \in Pages : Untouched(q)' <=> Untouched(q)
    BY <1>0, <1>1 DEF Untouched, Idle, At
  <2>3. LastWord' => \A q \in Pages :
           (Untouched(q) \/ (Obs(q) \in UsedEvents /\ Carried(Obs(q))))'
    BY <1>0, <1>1, <2>1, <2>2 DEF IInv, CloseFits
  <2>4. run.finalization # "NONE" => run'.finalization # "NONE"
    BY DEF BillStands
  <2>. QED BY <1>0, <1>1, <2>3, <2>4 DEF IInv, CloseFits, At
<1>. QED BY <1>1, <1>2, <1>3, <1>4, <1>5 DEF IInv

LEMMA UserIsSteady ==
  ASSUME IInv, NEW action, User(action)
  PROVE  Steady(run, run') /\ ~run'.settled
<1>1. run \in RunRow /\ RunFits(run) /\ ~run.settled /\ action \in {"PAUSE", "RESUME", "CANCEL"}
  BY UsageAssumption DEF IInv, RowsTyped, User
<1>2. CASE action = "PAUSE"
  BY <1>1, <1>2, PauseIsSteady DEF User
<1>3. CASE action = "RESUME"
  <2>1. run.status = "PAUSED" /\ run' = To(run, run.resume) /\ run.resume \in PausableStates
    BY <1>1, <1>3 DEF User, RunFits, RunRow
  <2>2. /\ run.resume \in Statuses \ {"PAUSED", "RECOVERING", "COMPLETED", "FAILED"}
        /\ run.resume \in {"PAGE_REVIEW", "DELIVERING"} => Past(run)
        /\ ~Lost(run) /\ run.status \notin TerminalStates
    BY <2>1 DEF PausableStates, Statuses, Past, Lost, TerminalStates
  <2>. QED BY <1>1, <2>1, <2>2, TransitionIsSteady
<1>4. CASE action = "CANCEL"
  <2>1. CanTransition(run, "CANCELLED") /\ run' = Ended(run, "CANCELLED")
    BY <1>4 DEF User
  <2>2. run.status \notin TerminalStates
    BY <2>1 DEF CanTransition, Transitions, TerminalStates
  <2>. QED BY <1>1, <2>1, <2>2, EndIsSteady
<1>. QED BY <1>1, <1>2, <1>3, <1>4

LEMMA UserSafe ==
  ASSUME IInv, NEW action, User(action)
  PROVE  IInv'
<1>1. UNCHANGED <<batch, job>> /\ KeepMedia
  BY DEF User
<1>2. MediaKept /\ BillStands
  BY <1>1, UserIsSteady, BatchTyped, SteadyKeeps DEF KeepMedia
<1>. QED BY <1>1, <1>2, UserStep DEF KeepMedia

LEMMA CrashSafe ==
  ASSUME IInv, Crash
  PROVE  IInv'
<1>1. /\ job' = [c \in Clients |-> Resting] /\ flush' = [by |-> Nobody, upto |-> 0]
      /\ UNCHANGED <<run, pages, batch, outbox, host, provider, admin>> /\ faults' \in Nat
  BY Faults DEF Crash
<1>2. /\ job' \in [Clients -> JobRow] /\ \A c \in Clients : job'[c] = Resting
      /\ Resting.at = "idle" /\ Resting.kind = "none"
      /\ job'[Worker] = Resting /\ job'[Admin] = Resting
      /\ \A p \in Pages : p \in Clients /\ job'[p] = Resting
  BY <1>1, AdminJobs, Distinct
<1>3. UsedEvents' = UsedEvents /\ (\A e : Carried(e)' = Carried(e)) /\ Billed' = Billed
  BY <1>1 DEF UsedEvents, Carried, Billed, Received
<1>4. RowsTyped' /\ RunFits(run')
  BY <1>1, <1>2 DEF IInv, RowsTyped
<1>5. Numbered'
  BY <1>1, <1>3 DEF IInv, Numbered, Numbers
<1>6. LedgerFits'
  BY <1>1, <1>3 DEF IInv, LedgerFits, Entry
<1>7. PlacesFit'
  <2>1. PagePlace(Resting) /\ WorkerPlace(Resting) /\ AdminPlace(Resting, admin)
    BY <1>2 DEF IInv, PlacesFit, PagePlace, PageAts, WorkerPlace, AdminPlace, AdminAts
  <2>3. \A q \in Pages : job'[q].at \notin SubmitAts
    BY <1>2 DEF SubmitAts
  <2>2. \A q \in Pages : Idle(q)'
    BY <1>2 DEF Idle, At
  <2>. QED BY <1>1, <1>2, <2>1, <2>2, <2>3 DEF PlacesFit
<1>8. (\A d \in Acting : ClientFits(d))'
  <2>1. SUFFICES ASSUME NEW d \in Acting' PROVE ClientFits(d)'
    OBVIOUS
  <2>2. job'[d] = Resting
    BY <1>2 DEF Acting
  <2>. QED BY <1>2, <2>2 DEF ClientFits, Knows, At
<1>9. AdminFits'
  BY <1>1, <1>2, <1>3 DEF IInv, AdminFits, Lawful, At
<1>10. \A q \in Pages : PageFits(q)'
  <2>1. SUFFICES ASSUME NEW q \in Pages PROVE PageFits(q)'
    OBVIOUS
  <2>2. PageFits(q)
    BY DEF IInv
  <2>3. Attended("idle", job'[Worker]) /\ job'[q].at = "idle"
    BY <1>2 DEF Attended
  <2>. QED BY <1>1, <1>3, <2>2, <2>3 DEF PageFits, PageOK
<1>11. CloseFits'
  <2>1. ~AdminCloses(job'[Admin])
    BY <1>2 DEF AdminCloses
  <2>2. LastWord' => LastWord
    BY <1>1, <2>1 DEF LastWord
  <2>3. \A q \in Pages : Untouched(q) => Untouched(q)'
    BY <1>1, <1>2, <1>3 DEF Untouched, Idle, At
  <2>4. LastWord' => \A q \in Pages :
           (Untouched(q) \/ (Obs(q) \in UsedEvents /\ Carried(Obs(q))))'
    BY <1>1, <1>3, <2>2, <2>3 DEF IInv, CloseFits
  <2>5. ~At(Worker, "closing")' /\ ~At(Worker, "flushing")'
    BY <1>2 DEF At
  <2>. QED BY <1>1, <1>3, <2>1, <2>4, <2>5 DEF IInv, CloseFits
<1>. QED BY <1>4, <1>5, <1>6, <1>7, <1>8, <1>9, <1>10, <1>11 DEF IInv

-----------------------------------------------------------------------------
(* The invariant holds. *)

LEMMA InitSafe ==
  ASSUME Init PROVE IInv
<1>1. /\ run = [status |-> "EXECUTING", resume |-> "NONE", pending |-> "NONE", failed |-> "NONE",
                disposition |-> "PENDING", finalization |-> "NONE", recovery |-> NoRecovery,
                settled |-> FALSE]
      /\ pages = [p \in Pages |-> NoPage] /\ batch = "NONE"
      /\ outbox = [e \in Events |-> NoEvent] /\ host = [ledger |-> <<>>, closed |-> FALSE]
      /\ provider = [p \in Pages |-> "none"] /\ job = [c \in Clients |-> Resting]
      /\ flush = [by |-> Nobody, upto |-> 0] /\ admin = [action |-> "NONE", on |-> Nobody, begun |-> 0]
      /\ faults = 0
  BY DEF Init, NoAction
<1>2. run \in RunRow /\ RunFits(run) /\ ~run.settled
  <2>1. NoRecovery \in Recoveries /\ NoRecovery.phase = "NONE"
    BY PolicyAssumption DEF Recoveries, NoRecovery
  <2>2. "EXECUTING" \in Statuses /\ "NONE" \in Codes \ {RejectedCode}
    BY DEF Statuses, Codes, RejectedCode
  <2>. QED BY <1>1, <2>1, <2>2 DEF RunRow, RunFits
<1>3. NoPage \in PageRow /\ ~NoPage.op /\ NoPage.st = "NONE"
  BY DEF NoPage, PageRow
<1>4. NoEvent \in EventRow /\ NoEvent.state = "NONE"
  BY DEF NoEvent, EventRow, Charges
<1>5. Resting \in JobRow /\ Resting.at = "idle" /\ Resting.kind = "none"
  BY DEF JobRow, Ats, Resting, Charges
<1>6. RowsTyped
  <2>1. provider \in [Pages -> Tasks] /\ pages \in [Pages -> PageRow] /\ outbox \in [Events -> EventRow]
        /\ job \in [Clients -> JobRow]
    BY <1>1, <1>3, <1>4, <1>5 DEF Tasks
  <2>2. host \in [ledger : Seq(Entries), closed : BOOLEAN]
    BY <1>1
  <2>. QED BY <1>1, <1>2, <2>1, <2>2 DEF RowsTyped, Actions
<1>7. UsedEvents = {} /\ \A e \in Events : outbox[e] = NoEvent
  BY <1>1, <1>4 DEF UsedEvents
<1>8. Cardinality(UsedEvents) = 0
  BY <1>7, FS_EmptySet
<1>9. Numbered
  <2>1. Numbers = {}
    BY <1>8 DEF Numbers
  <2>. QED BY <1>7, <2>1 DEF Numbered
<1>10. LedgerFits
  <2>1. 1..Len(host.ledger) = {}
    BY <1>1
  <2>2. flush.by = Nobody
    BY <1>1
  <2>. QED BY <1>4, <1>7, <2>1, <2>2 DEF LedgerFits
<1>11. \A c \in Clients : job[c] = Resting
  BY <1>1
<1>12. PlacesFit
  <2>1. PagePlace(Resting) /\ WorkerPlace(Resting) /\ AdminPlace(Resting, admin)
    BY <1>1, <1>5 DEF PagePlace, PageAts, WorkerPlace, AdminPlace, PageActions, Verdicts
  <2>2. \A q \in Pages : job[q].at = "idle"
    BY <1>5, <1>11, Distinct
  <2>. QED BY <1>11, <2>1, <2>2, Distinct DEF PlacesFit, SubmitAts, Idle, At
<1>13. \A c \in Acting : ClientFits(c)
  <2>1. \A c \in Acting : c \in Clients
    BY DEF Acting, Clients
  <2>. QED BY <1>5, <1>11, <2>1 DEF ClientFits, Knows, At
<1>14. AdminFits
  BY <1>1, <1>5, <1>11, Distinct DEF AdminFits, Lawful, PageActions, Verdicts, At
<1>15. \A p \in Pages : PageFits(p)
  <2>1. SUFFICES ASSUME NEW p \in Pages PROVE PageFits(p)
    OBVIOUS
  <2>2. job[p].at = "idle" /\ pages[p] = NoPage /\ provider[p] = "none" /\ Obs(p) \notin UsedEvents
    BY <1>1, <1>5, <1>7, <1>11, Distinct
  <2>. QED BY <1>3, <2>2 DEF PageFits, PageOK, Succeeded, Named
<1>16. CloseFits
  <2>1. ~AdminCloses(job[Admin]) /\ ~host.closed /\ run.finalization = "NONE"
        /\ ~At(Worker, "closing") /\ ~At(Worker, "flushing")
    BY <1>1, <1>5, <1>11, Distinct DEF AdminCloses, At
  <2>. QED BY <2>1 DEF CloseFits, LastWord
<1>. QED BY <1>2, <1>6, <1>9, <1>10, <1>12, <1>13, <1>14, <1>15, <1>16 DEF IInv

LEMMA StepSafe ==
  ASSUME IInv, [Next]_vars PROVE IInv'
<1>1. ASSUME NEW p \in Pages, Submit(p) \/ ProviderEnds(p) PROVE IInv'
  BY <1>1, PrepareSafe, AuthorizeSafe, MarkSubmittingSafe, SendAcceptedSafe, SendRefusedSafe,
     SendDoubtedSafe, SendLostSafe, MarkWaitingSafe, ProviderEndsSafe DEF Submit, Safe
<1>2. ASSUME NEW c \in Pages \cup {Admin}, Refresh(c) PROVE IInv'
  BY <1>2, ReadSafe, LookupSafe, InspectSafe, MarkResultSafe, AddObservedSafe, AddResolvedSafe
     DEF Refresh, Safe
<1>3. ASSUME NEW c \in Clients, Flush(c) PROVE IInv'
  BY <1>3, FlushNothingSafe, BeginFlushSafe DEF Flush, Safe
<1>4. ASSUME NEW c \in {Worker, Admin}, Close(c) PROVE IInv'
  BY <1>4, CheckFinalizationSafe, ClosingPostponedSafe, BillSettledSafe, BillOpenSafe, BillRefusedSafe
     DEF Close
<1>5. CASE Send
  BY <1>5, EventAcknowledgedSafe, EventLostSafe, EventRejectedSafe DEF Send, Safe
<1>6. CASE Tick
  BY <1>6, StartTickSafe, JobsDoneSafe, ReconcileTerminalSafe, AdvanceRecoverySafe,
     AdvanceBlockedSafe, AdvanceSubmissionSafe, DeliverSafe, NothingToAdvanceSafe,
     AfterSubmissionSafe, SettleSafe DEF Tick, Advance
<1>7. CASE AdminNext
  BY <1>7, ReinspectPageSafe, BeginRetryEventSafe, BeginRetryFinalizationSafe, RetryEventSafe, RetryFinalizationSafe, BeginVerdictSafe, ActSafe,
     FindResolvedSafe, ResolveAccountingSafe, RefinalizeBatchSafe, CompleteActionSafe
     DEF AdminNext, Safe
<1>8. CASE Crash
  BY <1>8, CrashSafe
<1>9. ASSUME NEW action \in UserActions, User(action) PROVE IInv'
  BY <1>9, UserSafe
<1>10. CASE UNCHANGED vars
  <2>1. UNCHANGED <<run, pages, batch, outbox, provider, flush, admin, job, faults>> /\ host' = host
    BY <1>10 DEF vars
  <2>2. Steady(run, run') /\ ~run'.settled
    BY <2>1, Standing
  <2>3. MediaKept /\ BillStands
    BY <2>1, <2>2, BatchTyped, SteadyKeeps
  <2>. QED BY <2>1, <2>3, UserStep
<1>. QED BY <1>1, <1>2, <1>3, <1>4, <1>5, <1>6, <1>7, <1>8, <1>9, <1>10 DEF Next

LEMMA Invariance == Spec => []IInv
  BY InitSafe, StepSafe, PTL DEF Spec

\* Every row holds what the transactions can write into it, and an event is numbered
\* within the events of the Run, whose ledger is as long as they are many at most
\* (enqueueEvent).
THEOREM TypeCorrect == Spec => []TypeOK
<1>1. IInv => TypeOK
  <2>1. SUFFICES ASSUME IInv PROVE TypeOK
    OBVIOUS
  <2>2. RowsTyped /\ Numbered /\ LedgerFits
    BY <2>1 DEF IInv
  <2>3. /\ run \in [status : Statuses, resume : Statuses \cup {"NONE"}, pending : Codes, failed : Codes,
              disposition : {"PENDING", "HARD_FAILURE"}, settled : {FALSE}, recovery : Recoveries,
              finalization : {"NONE", "QUEUED", "FAILED", "COMPLETED"}]
    <3>1. PausableStates \subseteq Statuses
      BY DEF PausableStates, Statuses
    <3>2. run \in RunRow /\ run.settled = FALSE
      BY <2>2 DEF RowsTyped, RunRow
    <3>. QED BY <3>1, <3>2 DEF RunRow
  <2>4. UsedEvents \in SUBSET Events
    BY DEF UsedEvents
  <2>5. Cardinality(UsedEvents) \in Nat /\ Cardinality(Events) \in Nat
        /\ Cardinality(UsedEvents) <= Cardinality(Events)
    BY <2>4, EventsCounted
  <2>6. \A e \in Events : outbox[e] \in EventRow /\ outbox[e].seq \in 0..Cardinality(Events)
    <3>1. SUFFICES ASSUME NEW e \in Events
                   PROVE  outbox[e] \in EventRow /\ outbox[e].seq \in 0..Cardinality(Events)
      OBVIOUS
    <3>2. outbox[e] \in EventRow
      BY <2>2 DEF RowsTyped
    <3>3. CASE e \in UsedEvents
      BY <2>1, <2>5, <3>2, <3>3, UsedCounted
    <3>4. CASE e \notin UsedEvents
      BY <2>2, <2>5, <3>2, <3>4 DEF UsedEvents, Numbered, NoEvent
    <3>. QED BY <3>3, <3>4
  <2>7. outbox \in [Events -> [state : {"NONE", "PENDING", "ACKNOWLEDGED", "REJECTED"},
                            seq : 0..Cardinality(Events),
                            billing : {"UNKNOWN", "CHARGED", "NOT_CHARGED"}]]
    <3>1. outbox \in [Events -> EventRow]
      BY <2>2 DEF RowsTyped
    <3>2. \A e \in Events : outbox[e] \in [state : {"NONE", "PENDING", "ACKNOWLEDGED", "REJECTED"},
                            seq : 0..Cardinality(Events),
                            billing : {"UNKNOWN", "CHARGED", "NOT_CHARGED"}]
      BY <2>6 DEF EventRow, Charges
    <3>. QED BY <3>1, <3>2
  <2>8. Len(host.ledger) <= Cardinality(Events)
    <3>1. Len(host.ledger) \in Nat
      BY <2>2 DEF RowsTyped
    <3>2. CASE Len(host.ledger) = 0
      BY <2>5, <3>2
    <3>3. CASE Len(host.ledger) # 0
      <4>1. Len(host.ledger) \in 1..Len(host.ledger)
        BY <3>1, <3>3
      <4>2. PICK e \in UsedEvents : outbox[e].seq = Len(host.ledger)
        BY <2>2, <4>1 DEF LedgerFits
      <4>. QED BY <2>6, <4>2, <2>4
    <3>. QED BY <3>2, <3>3
  <2>9. admin.action \in {"NONE", "REINSPECT"} \cup Verdicts \cup Retries
    BY <2>2, UsageAssumption DEF RowsTyped, Actions, Verdicts
  <2>. QED BY <2>2, <2>3, <2>7, <2>8, <2>9 DEF RowsTyped, PageRow, Tasks, TypeOK
<1>. QED BY <1>1, Invariance, PTL

\* When the bill of a Run is closed, every operation that the provider took is in it with
\* its charge: none is left unreported behind a lost answer, a crash or a refused event,
\* with any number of pages and whatever an administrator decides (reconcileTerminalRun).
THEOREM ClosedBillIsFull == Spec => []BilledInFull
<1>1. IInv => BilledInFull
  <2>1. SUFFICES ASSUME IInv, host.closed, NEW p \in Pages, provider[p] \in {"running", "completed", "failed"}
                 PROVE  p \in Billed
    BY DEF BilledInFull
  <2>2. LastWord
    BY <2>1 DEF LastWord
  <2>3. Untouched(p) \/ Obs(p) \in UsedEvents
    BY <2>1, <2>2 DEF IInv, CloseFits
  <2>4. Obs(p) \in UsedEvents
    BY <2>1, <2>3 DEF Untouched
  <2>. QED BY <2>1, <2>4 DEF IInv, CloseFits
<1>. QED BY <1>1, Invariance, PTL

-----------------------------------------------------------------------------
(* The ledger of the host. *)

\* What the ledger decides changes with the ledger only: an event that is added to the
\* outbox is not in it yet.
LEMMA BilledStands ==
  ASSUME IInv, host'.ledger = host.ledger,
         \A e \in UsedEvents : outbox'[e].billing = outbox[e].billing
  PROVE  Billed' = Billed
<1>1. \A p, kind : Received(p, kind)' = Received(p, kind)
  BY DEF Received
<1>2. \A p \in Pages : Received(p, "OBSERVED") =>
         outbox'[<<p, "OBSERVED">>].billing = outbox[<<p, "OBSERVED">>].billing
  BY ReceivedUsed DEF Obs
<1>. QED BY <1>1, <1>2 DEF Billed

LEMMA LedgerRests ==
  ASSUME IInv, host' = host, \A e \in UsedEvents : outbox'[e].billing = outbox[e].billing
  PROVE  UNCHANGED <<host.ledger, Billed, host.closed>>
  BY BilledStands

LEMMA AddKeepsBilling ==
  ASSUME IInv, NEW c \in Pages \cup {Admin}, AddObserved(c) \/ AddResolved(c)
  PROVE  host' = host /\ \A f \in UsedEvents : outbox'[f].billing = outbox[f].billing
<1>1. ASSUME NEW kind, NEW then, AddEvent(c, kind, then)
      PROVE  \A f \in UsedEvents : outbox'[f].billing = outbox[f].billing
  <2>. DEFINE e == <<Subject(c), kind>>
  <2>1. CASE outbox[e].state # "NONE"
    BY <1>1, <2>1 DEF AddEvent, IdentityConflict
  <2>2. CASE outbox[e].state = "NONE"
    <3>. DEFINE row == [state |-> "PENDING", seq |-> NextSeq,
                        billing |-> IF kind = "OBSERVED" /\ job[c].kind = "refresh"
                                    THEN "UNKNOWN" ELSE job[c].news]
    <3>1. outbox' = [outbox EXCEPT ![e] = row]
      BY <1>1, <2>2 DEF AddEvent, Enqueued
    <3>. HIDE DEF row
    <3>2. \A f \in UsedEvents : f \in Events /\ f # e
      BY <2>2 DEF UsedEvents
    <3>. QED BY <3>1, <3>2 DEF IInv, RowsTyped
  <2>. QED BY <2>1, <2>2
<1>2. host' = host
  BY DEF AddObserved, AddResolved
<1>. QED BY <1>1, <1>2 DEF AddObserved, AddResolved

\* What the ledger observed, of which operations it holds the charge.
LEMMA ObservedIsReceived ==
  ASSUME IInv
  PROVE  /\ Ledger!Observed \subseteq Pages /\ Billed \subseteq Ledger!Observed
         /\ \A p \in Pages : p \in Ledger!Observed <=> Received(p, "OBSERVED")
<1>1. \A i \in 1..Len(host.ledger) : host.ledger[i] \in Entries
  BY DEF IInv, RowsTyped
<1>2. \A p \in Pages : p \in Ledger!Observed <=> Received(p, "OBSERVED")
  BY DEF Ledger!Observed, Received
<1>3. Ledger!Observed \subseteq Pages
  BY <1>1 DEF Ledger!Observed, Entries
<1>4. ASSUME NEW p \in Billed PROVE p \in Ledger!Observed
  <2>1. p \in Pages /\ (Received(p, "RESOLVED") \/ Received(p, "OBSERVED"))
    BY DEF Billed
  <2>2. CASE Received(p, "OBSERVED")
    BY <1>2, <2>1, <2>2
  <2>3. CASE Received(p, "RESOLVED")
    <3>1. Res(p) \in UsedEvents /\ outbox[Res(p)].seq <= Len(host.ledger)
      BY <2>1, <2>3, ReceivedUsed DEF Carried
    <3>2. Obs(p) \in UsedEvents /\ outbox[Obs(p)].seq < outbox[Res(p)].seq
      BY <2>1, <3>1 DEF IInv, Numbered
    <3>3. Len(host.ledger) \in Nat /\ outbox[Obs(p)].seq \in Nat /\ outbox[Res(p)].seq \in Nat
      BY <3>1, <3>2, UsedCounted DEF IInv, RowsTyped
    <3>4. Carried(Obs(p))
      BY <3>1, <3>2, <3>3 DEF Carried
    <3>. QED BY <1>2, <2>1, <3>2, <3>4, CarriedReceived
  <2>. QED BY <2>1, <2>2, <2>3
<1>. QED BY <1>2, <1>3, <1>4

\* The host takes an event: the operation is observed, or its charge is resolved.
LEMMA LedgerTakes ==
  ASSUME IInv, Sending, NEW e, e = NextToSend, host' = TakenByHost(e),
         \A f \in UsedEvents : outbox'[f].billing = outbox[f].billing
  PROVE  [Ledger!Next]_<<host.ledger, Billed, host.closed>>
<1>1. CASE TakenByHost(e) = host
  BY <1>1, LedgerRests
<1>2. CASE /\ outbox[e].seq = Len(host.ledger) + 1
           /\ TakenByHost(e) = [host EXCEPT !.ledger = Append(@, Entry(e))]
  <2>. DEFINE n == Len(host.ledger)
              entry == Entry(e)
              p == e[1]
  <2>1. /\ e \in UsedEvents /\ e \in Events /\ p \in Pages /\ (e = Obs(p) \/ e = Res(p))
        /\ host \in [ledger : Seq(Entries), closed : BOOLEAN] /\ n \in Nat /\ entry \in Entries
    BY NextIsOldest, NextIsTaken, EventsOfPages DEF UsedEvents, IInv, RowsTyped
  <2>2. /\ host'.ledger = Append(host.ledger, entry) /\ host'.closed = host.closed
        /\ entry = [seq |-> n + 1, page |-> p, kind |-> e[2]]
    BY <1>2, <2>1 DEF Entry
  <2>3. ~Carried(e)
    BY <1>2, <2>1 DEF Carried
  <2>. HIDE DEF entry, p
  <2>4. /\ Len(host'.ledger) = n + 1 /\ host'.ledger[n + 1] = entry
        /\ \A i \in 1..n : host'.ledger[i] = host.ledger[i]
    BY <2>1, <2>2
  <2>5. \A q, kind : Received(q, kind)' <=> Received(q, kind) \/ (q = p /\ kind = e[2])
    <3>1. SUFFICES ASSUME NEW q, NEW kind
                   PROVE  Received(q, kind)' <=> Received(q, kind) \/ (q = p /\ kind = e[2])
      OBVIOUS
    <3>2. \A i : i \in 1..(n + 1) <=> i \in 1..n \/ i = n + 1
      BY <2>1
    <3>3. entry.page = p /\ entry.kind = e[2]
      BY <2>2
    <3>. QED BY <2>4, <3>2, <3>3 DEF Received
  <2>6. \A q \in Pages : Received(q, "OBSERVED") => outbox'[Obs(q)].billing = outbox[Obs(q)].billing
    BY ReceivedUsed
  <2>7. outbox'[e].billing = outbox[e].billing
    BY <2>1
  <2>8. Obs(p) \in UsedEvents
    BY <2>1 DEF IInv, Numbered
  <2>9. host.closed => Carried(Obs(p)) /\ p \in Billed
    BY <2>1, <2>8 DEF IInv, CloseFits, LastWord, Untouched
  <2>10. CASE e = Obs(p)
    <3>1. ~host.closed /\ p \notin Ledger!Observed
      BY <2>1, <2>3, <2>9, <2>10, ReceivedUsed, ObservedIsReceived
    <3>2. e[2] = "OBSERVED"
      BY <2>10 DEF Obs
    <3>3. ~Received(p, "RESOLVED")
      BY <2>1, <3>1, ObservedIsReceived DEF Billed
    <3>4. Billed' \in {Billed, Billed \cup {p}}
      <4>1. \A q \in Pages : q # p => (q \in Billed' <=> q \in Billed)
        BY <2>5, <2>6 DEF Billed, Obs
      <4>. QED BY <2>1, <4>1, <3>1, ObservedIsReceived DEF Billed
    <3>5. Ledger!Observe(p)
      BY <2>2, <3>1, <3>2, <3>4 DEF Ledger!Observe, Ledger!Take
    <3>. QED BY <2>1, <3>5 DEF Ledger!Next
  <2>11. CASE e = Res(p)
    <3>1. Obs(p) \in UsedEvents /\ outbox[Obs(p)].billing = "UNKNOWN"
          /\ outbox[Obs(p)].seq < outbox[Res(p)].seq
      BY <2>1, <2>11 DEF IInv, Numbered
    <3>2. Carried(Obs(p))
      BY <1>2, <2>1, <2>11, <3>1, UsedCounted DEF Carried
    <3>3. p \in Ledger!Observed
      BY <2>1, <3>1, <3>2, CarriedReceived, ObservedIsReceived
    <3>4. ~Received(p, "RESOLVED")
      BY <2>1, <2>3, <2>11, ReceivedUsed
    <3>5. p \notin Billed /\ ~host.closed
      BY <2>9, <3>1, <3>4 DEF Billed, Obs
    <3>6. e[2] = "RESOLVED"
      BY <2>11 DEF Res
    <3>7. Billed' = Billed \cup {p}
      <4>1. p \in Billed'
        BY <2>1, <2>5, <3>6 DEF Billed
      <4>2. \A q \in Pages : q # p => (q \in Billed' <=> q \in Billed)
        BY <2>5, <2>6 DEF Billed, Obs
      <4>. QED BY <4>1, <4>2, <2>1 DEF Billed
    <3>8. Ledger!Resolve(p)
      BY <2>2, <3>3, <3>5, <3>6, <3>7 DEF Ledger!Resolve, Ledger!Take
    <3>. QED BY <2>1, <3>8 DEF Ledger!Next
  <2>. QED BY <2>1, <2>10, <2>11
<1>. QED BY <1>1, <1>2, NextIsTaken

\* The host closes the bill over a ledger without open charges.
LEMMA LedgerCloses ==
  ASSUME IInv, outbox' = outbox,
         host' = host \/ (host' = [host EXCEPT !.closed = host.closed \/ Complete])
  PROVE  [Ledger!Next]_<<host.ledger, Billed, host.closed>>
<1>1. CASE host' = host
  BY <1>1, LedgerRests
<1>2. CASE host' = [host EXCEPT !.closed = host.closed \/ Complete]
  <2>1. host'.ledger = host.ledger /\ host'.closed = (host.closed \/ Complete)
        /\ host.closed \in BOOLEAN
    BY <1>2 DEF IInv, RowsTyped
  <2>2. Billed' = Billed
    BY <2>1, BilledStands
  <2>3. CASE host.closed \/ ~Complete
    BY <2>1, <2>2, <2>3
  <2>4. CASE ~host.closed /\ Complete
    <3>1. Billed = Ledger!Observed
      BY <2>4, ObservedIsReceived DEF Complete
    <3>. QED BY <2>1, <2>2, <2>4, <3>1 DEF Ledger!Close, Ledger!Next
  <2>. QED BY <2>3, <2>4
<1>. QED BY <1>1, <1>2

LEMMA LedgerStep ==
  ASSUME IInv, [Next]_vars
  PROVE  [Ledger!Next]_<<host.ledger, Billed, host.closed>>
<1>1. CASE UNCHANGED <<outbox, host>>
  BY <1>1, LedgerRests
<1>2. ASSUME NEW c \in Pages \cup {Admin}, Refresh(c)
      PROVE  [Ledger!Next]_<<host.ledger, Billed, host.closed>>
  <2>1. CASE AddObserved(c) \/ AddResolved(c)
    BY <2>1, AddKeepsBilling, LedgerRests
  <2>2. CASE Read(c) \/ Lookup(c) \/ Inspect(c) \/ MarkResult(c)
    BY <1>1, <2>2 DEF Read, Lookup, Inspect, MarkResult, KeepUsage
  <2>. QED BY <1>2, <2>1, <2>2 DEF Refresh
<1>3. ASSUME NEW c \in {Worker, Admin}, Close(c)
      PROVE  [Ledger!Next]_<<host.ledger, Billed, host.closed>>
  <2>1. CASE CheckFinalization(c) \/ ClosingPostponed(c)
    BY <1>1, <2>1 DEF CheckFinalization, ClosingPostponed, KeepMedia
  <2>2. CASE BillSettled(c)
    <3>1. outbox' = outbox /\ Complete /\ host' = [host EXCEPT !.closed = TRUE]
      BY <2>2 DEF BillSettled, KeepClosing
    <3>2. (host.closed \/ Complete) = TRUE
      BY <3>1
    <3>3. host' = [host EXCEPT !.closed = host.closed \/ Complete]
      BY <3>1, <3>2
    <3>. QED BY <3>1, <3>3, LedgerCloses
  <2>3. CASE BillOpen(c)
    <3>1. outbox' = outbox
          /\ (host' = host \/ host' = [host EXCEPT !.closed = host.closed \/ Complete])
      BY <2>3 DEF BillOpen, KeepClosing
    <3>. QED BY <3>1, LedgerCloses
  <2>4. CASE BillRefused(c)
    BY <1>1, <2>4 DEF BillRefused, KeepClosing
  <2>. QED BY <1>3, <2>1, <2>2, <2>3, <2>4 DEF Close
<1>4. CASE Send
  <2>. DEFINE e == NextToSend
  <2>1. ASSUME NEW state \in {"ACKNOWLEDGED", "REJECTED"}, Sending,
               outbox' = [outbox EXCEPT ![e].state = state]
        PROVE  \A f \in UsedEvents : outbox'[f].billing = outbox[f].billing
    <3>1. e \in UsedEvents
      BY <2>1, NextIsOldest
    <3>. HIDE DEF e
    <3>. QED BY <2>1, <3>1, StateWritten DEF UsedEvents
  <2>2. CASE EventAcknowledged
    <3>1. Sending /\ host' = TakenByHost(e) /\ outbox' = [outbox EXCEPT ![e].state = "ACKNOWLEDGED"]
      BY <2>2 DEF EventAcknowledged
    <3>2. \A f \in UsedEvents : outbox'[f].billing = outbox[f].billing
      BY <2>1, <3>1
    <3>. QED BY <3>1, <3>2, LedgerTakes
  <2>3. CASE EventLost
    <3>1. Sending /\ (host' = host \/ host' = TakenByHost(e)) /\ outbox' = outbox
      BY <2>3 DEF EventLost
    <3>. QED BY <1>1, <3>1, LedgerTakes
  <2>4. CASE EventRejected
    <3>1. Sending /\ outbox' = [outbox EXCEPT ![e].state = "REJECTED"] /\ host' = host
      BY <2>4 DEF EventRejected
    <3>. QED BY <2>1, <3>1, LedgerRests
  <2>. QED BY <1>4, <2>2, <2>3, <2>4 DEF Send
<1>5. ASSUME NEW e \in Events, RetryEvent(e)
      PROVE  [Ledger!Next]_<<host.ledger, Billed, host.closed>>
  <2>1. e \in UsedEvents /\ outbox' = [outbox EXCEPT ![e].state = "PENDING"] /\ host' = host
    BY <1>5 DEF RetryEvent, RetriesEvent, KeepAdmin, UsedEvents
  <2>2. \A f \in UsedEvents : outbox'[f].billing = outbox[f].billing
    BY <2>1, StateWritten DEF UsedEvents
  <2>. QED BY <2>1, <2>2, LedgerRests
<1>6. ASSUME NEW p \in Pages, Submit(p) \/ ProviderEnds(p)
      PROVE  [Ledger!Next]_<<host.ledger, Billed, host.closed>>
  BY <1>1, <1>6
     DEF Submit, ProviderEnds, Prepare, Authorize, MarkSubmitting, SendAccepted, SendRefused,
         SendDoubted, SendLost, MarkWaiting, KeepUsage
<1>7. ASSUME NEW c \in Clients, Flush(c)
      PROVE  [Ledger!Next]_<<host.ledger, Billed, host.closed>>
  BY <1>1, <1>7 DEF Flush, FlushNothing, BeginFlush
<1>8. CASE Tick
  BY <1>1, <1>8
     DEF Tick, Advance, StartTick, JobsDone, ReconcileTerminal, AdvanceRecovery, AdvanceBlocked,
         AdvanceSubmission, Deliver, NothingToAdvance, AfterSubmission, Settle, KeepMedia
<1>9. CASE AdminNext
  BY <1>1, <1>5, <1>9
     DEF AdminNext, ReinspectPage, BeginRetryEvent, BeginRetryFinalization, RetryFinalization, BeginVerdict, Act, FindResolved,
         ResolveAccounting, RefinalizeBatch, CompleteAction, KeepAdmin, KeepMedia
<1>10. CASE Crash \/ UNCHANGED vars
  BY <1>1, <1>10 DEF Crash, vars
<1>11. ASSUME NEW action \in UserActions, User(action)
       PROVE  [Ledger!Next]_<<host.ledger, Billed, host.closed>>
  BY <1>1, <1>11 DEF User, KeepMedia
<1>. QED BY <1>2, <1>3, <1>4, <1>6, <1>7, <1>8, <1>9, <1>10, <1>11 DEF Next

\* The outbox, its flushes and the closing implement the ledger that UsageLedger promises:
\* the host receives the events of the Run in their order, none twice and none missing,
\* each operation observed before it is resolved, and closes a complete bill, for any
\* number of pages and whatever is lost, repeated, refused or interrupted (enqueueEvent,
\* flushEvents, reconcileTerminalRun).
THEOREM LedgerKept == Spec => LedgerIsKept
<1>1. Init => Ledger!Init
  <2>1. SUFFICES ASSUME Init PROVE Ledger!Init
    OBVIOUS
  <2>2. host = [ledger |-> <<>>, closed |-> FALSE]
    BY <2>1 DEF Init
  <2>3. Billed = {}
    BY <2>2 DEF Billed, Received
  <2>. QED BY <2>2, <2>3 DEF Ledger!Init
<1>2. IInv /\ [Next]_vars => [Ledger!Next]_<<host.ledger, Billed, host.closed>>
  BY LedgerStep
<1>. QED BY <1>1, <1>2, Invariance, PTL DEF Spec, LedgerIsKept, Ledger!Spec, Ledger!vars

-----------------------------------------------------------------------------
(* The pages go on when all is reported. *)

\* With a single page, or where nobody decides on a charge, an administrator does not
\* close the batch over a page that is to be drawn again.
OnlyTheWorkerFinalizes == AdminActions \cap Verdicts = {} \/ (\A p, q \in Pages : p = q)

\* The pages of the Run go on to the reviews, and their batch is closed, when all is
\* reported, or else the Run is lost.
DInv ==
  /\ Past(run) => Reported
  /\ batch = "FINAL" => Reported \/ Lost(run)
  /\ SettleFits

\* Nothing is reported once all is.
LEMMA ReportedStands ==
  ASSUME IInv, Reported, [Next]_vars
  PROVE  Reported'
<1>. USE DEF Reported
<1>1. CASE outbox' = outbox /\ host'.ledger = host.ledger
  <2>1. Billed' = Billed
    BY <1>1, BilledStands
  <2>. QED BY <1>1, <2>1 DEF OutboxDelivered
<1>2. ~Sending /\ (\A e \in Events : outbox[e].state \in {"NONE", "ACKNOWLEDGED"})
  BY DEF OutboxDelivered, Sending, Listed, Undelivered
<1>3. ASSUME NEW p \in Pages
      PROVE  /\ Obs(p) \in UsedEvents
             /\ Res(p) \in UsedEvents \/ outbox[Obs(p)].billing # "UNKNOWN"
  <2>1. Received(p, "RESOLVED") \/ (Received(p, "OBSERVED") /\ outbox[Obs(p)].billing # "UNKNOWN")
    BY DEF Billed, Obs
  <2>2. CASE Received(p, "RESOLVED")
    <3>1. Res(p) \in UsedEvents
      BY <2>2, ReceivedUsed
    <3>. QED BY <3>1 DEF IInv, Numbered
  <2>3. CASE Received(p, "OBSERVED") /\ outbox[Obs(p)].billing # "UNKNOWN"
    BY <2>3, ReceivedUsed
  <2>. QED BY <2>1, <2>2, <2>3
<1>4. ASSUME NEW c \in Pages \cup {Admin}, Refresh(c) PROVE Reported'
  <2>1. CASE AddObserved(c)
    <3>1. job[c].at \in RefreshAts
      BY <2>1 DEF AddObserved, At, RefreshAts
    <3>2. Obs(Subject(c)) \in UsedEvents
      BY <1>3, <3>1, RefreshActs
    <3>3. outbox' = outbox /\ host' = host
      BY <2>1, <3>2 DEF AddObserved, AddEvent, IdentityConflict, UsedEvents, Obs
    <3>. QED BY <1>1, <3>3
  <2>2. CASE AddResolved(c)
    <3>1. job[c].at \in RefreshAts
      BY <2>2 DEF AddResolved, At, RefreshAts
    <3>2. outbox[Obs(Subject(c))].billing = "UNKNOWN" /\ Subject(c) \in Pages
      BY <2>2, <3>1, RefreshActs DEF AddResolved, ClientFits
    <3>3. Res(Subject(c)) \in UsedEvents
      BY <1>3, <3>2
    <3>4. outbox' = outbox /\ host' = host
      BY <2>2, <3>3 DEF AddResolved, AddEvent, IdentityConflict, UsedEvents, Res
    <3>. QED BY <1>1, <3>4
  <2>3. CASE Read(c) \/ Lookup(c) \/ Inspect(c) \/ MarkResult(c)
    BY <1>1, <2>3 DEF Read, Lookup, Inspect, MarkResult, KeepUsage
  <2>. QED BY <1>4, <2>1, <2>2, <2>3 DEF Refresh
<1>5. ASSUME NEW c \in {Worker, Admin}, Close(c) PROVE Reported'
  <2>1. outbox' = outbox /\ host'.ledger = host.ledger
    BY <1>5 DEF Close, CheckFinalization, ClosingPostponed, BillSettled, BillOpen, BillRefused,
                KeepMedia, KeepClosing, IInv, RowsTyped
  <2>. QED BY <1>1, <2>1
<1>6. CASE Send
  BY <1>2, <1>6 DEF Send, EventAcknowledged, EventLost, EventRejected
<1>7. ASSUME NEW p \in Pages, Submit(p) \/ ProviderEnds(p) PROVE Reported'
  BY <1>1, <1>7
     DEF Submit, ProviderEnds, Prepare, Authorize, MarkSubmitting, SendAccepted, SendRefused,
         SendDoubted, SendLost, MarkWaiting, KeepUsage
<1>8. ASSUME NEW c \in Clients, Flush(c) PROVE Reported'
  BY <1>1, <1>8 DEF Flush, FlushNothing, BeginFlush
<1>9. CASE Tick
  BY <1>1, <1>9
     DEF Tick, Advance, StartTick, JobsDone, ReconcileTerminal, AdvanceRecovery, AdvanceBlocked,
         AdvanceSubmission, Deliver, NothingToAdvance, AfterSubmission, Settle, KeepMedia
<1>10. CASE AdminNext
  BY <1>1, <1>2, <1>10
     DEF AdminNext, ReinspectPage, BeginRetryEvent, BeginRetryFinalization, RetryFinalization,
         BeginVerdict, Act, FindResolved, RetryEvent, RetriesEvent,
         ResolveAccounting, RefinalizeBatch, CompleteAction, KeepAdmin, KeepMedia
<1>11. CASE Crash \/ UNCHANGED vars
  BY <1>1, <1>11 DEF Crash, vars
<1>12. ASSUME NEW action \in UserActions, User(action) PROVE Reported'
  BY <1>1, <1>12 DEF User, KeepMedia
<1>. QED BY <1>4, <1>5, <1>6, <1>7, <1>8, <1>9, <1>10, <1>11, <1>12 DEF Next

\* A batch is finalized over pages that are reported, as far as they have an operation.
LEMMA FinalIsReported ==
  ASSUME IInv, batch # "FINAL", FinalizedBatch = "FINAL",
         \A p \in Pages : PageFinal(p) => pages[p].op
  PROVE  Reported
<1>1. OutboxDelivered /\ \A p \in Pages : PageFinal(p) /\ PageReported(p)
  BY DEF FinalizedBatch
<1>2. ASSUME NEW p \in Pages PROVE p \in Billed
  <2>1. /\ outbox[Obs(p)].state = "ACKNOWLEDGED"
        /\ outbox[Obs(p)].billing # "UNKNOWN" \/ outbox[Res(p)].state = "ACKNOWLEDGED"
    BY <1>1 DEF PageReported, Obs, Res
  <2>2. Obs(p) \in Events /\ Res(p) \in Events
    BY EventsOfPages
  <2>3. Obs(p) \in UsedEvents /\ Carried(Obs(p))
    BY <2>1, <2>2 DEF UsedEvents, IInv, LedgerFits
  <2>4. Received(p, "OBSERVED")
    BY <2>3, CarriedReceived
  <2>5. CASE outbox[Obs(p)].billing # "UNKNOWN"
    BY <2>4, <2>5 DEF Billed, Obs
  <2>6. CASE outbox[Res(p)].state = "ACKNOWLEDGED"
    <3>1. Res(p) \in UsedEvents /\ Carried(Res(p))
      BY <2>2, <2>6 DEF UsedEvents, IInv, LedgerFits
    <3>. QED BY <3>1, CarriedReceived DEF Billed
  <2>. QED BY <2>1, <2>5, <2>6
<1>3. Billed \subseteq Pages
  BY DEF Billed
<1>. QED BY <1>1, <1>2, <1>3 DEF Reported

\* A step of the worker, or of the administrator, after which the pages are not settled.
LEMMA Leaves ==
  ASSUME IInv, NEW c \in {Worker, Admin},
         \/ job' = Goto(c, "done")
         \/ \E then : job' = ThenFlush(c, then)
         \/ \E j : job' = [job EXCEPT ![Admin] = j]
         \/ job' = job
  PROVE  (AtSettle' => AtSettle) /\ \A q \in Pages : Idle(q) => Idle(q)'
<1>1. job \in [Clients -> JobRow] /\ Worker \in Clients /\ Admin \in Clients /\ Worker # Admin
      /\ \A q \in Pages : q \in Clients /\ q # Worker /\ q # Admin
  BY Distinct DEF IInv, RowsTyped
<1>2. CASE job' = Goto(c, "done")
  <2>1. PICK j : job' = [job EXCEPT ![c] = j] /\ (c = Worker => j = Resting)
    BY <1>1, <1>2 DEF Goto
  <2>. QED BY <1>1, <2>1 DEF AtSettle, At, Idle, Resting
<1>3. ASSUME NEW then, job' = ThenFlush(c, then)
      PROVE  (AtSettle' => AtSettle) /\ \A q \in Pages : Idle(q) => Idle(q)'
  <2>. DEFINE j == [job[c] EXCEPT !.at = "flushing", !.then = then]
  <2>1. job' = [job EXCEPT ![c] = j]
    BY <1>1, <1>3 DEF ThenFlush
  <2>2. j.at = "flushing"
    BY <1>1 DEF JobRow
  <2>. HIDE DEF j
  <2>. QED BY <1>1, <2>1, <2>2 DEF AtSettle, At, Idle
<1>4. CASE \E j : job' = [job EXCEPT ![Admin] = j]
  BY <1>1, <1>4 DEF AtSettle, At, Idle
<1>5. CASE job' = job
  BY <1>5 DEF AtSettle, At, Idle
<1>. QED BY <1>2, <1>3, <1>4, <1>5

LEMMA LeavesCalm ==
  ASSUME IInv, NEW c \in {Worker, Admin}, Follows(run, run'), pages' = pages,
         batch' = "FINAL" => batch = "FINAL" \/ Lost(run) \/ Reported,
         \/ job' = Goto(c, "done")
         \/ \E then : job' = ThenFlush(c, then)
         \/ \E j : job' = [job EXCEPT ![Admin] = j]
         \/ job' = job
  PROVE  Calm
<1>1. (AtSettle' => AtSettle) /\ \A q \in Pages : Idle(q) => Idle(q)'
  BY Leaves
<1>. QED BY <1>1 DEF Calm, Follows, SettleFits

LEMMA LaunchWaits ==
  ASSUME IInv, NEW ps \in SUBSET Pages, NEW at, NEW kind, NEW then, Launch(ps, at, kind, then)
  PROVE  /\ job'[Worker].at = "waiting" /\ job'[Worker].then = then
         /\ \A q \in Pages : q \notin ps => job'[q] = job[q]
<1>. DEFINE w == [job[Worker] EXCEPT !.at = "waiting", !.then = then]
<1>1. job[Worker] \in JobRow
  BY Distinct DEF IInv, RowsTyped
<1>2. w.at = "waiting" /\ w.then = then
  BY <1>1 DEF JobRow
<1>3. job'[Worker] = w /\ \A q \in Pages : q \notin ps => job'[q] = job[q]
  BY Distinct DEF Launch
<1>. QED BY <1>2, <1>3

LEMMA RunStands ==
  ASSUME IInv, run' = run PROVE Follows(run, run')
  BY StandsStill DEF Steady, IInv, RowsTyped

LEMMA LaunchCalm ==
  ASSUME IInv, run' = run, batch' = "FINAL" => batch = "FINAL", NEW ps \in SUBSET Pages, NEW at,
         NEW kind, NEW then \in {"flush", "reconcile", "submitted"}, Launch(ps, at, kind, then)
  PROVE  Calm
<1>1. ~AtSettle'
  BY LaunchWaits DEF AtSettle, At
<1>. QED BY <1>1, RunStands DEF Calm, Follows, SettleFits

LEMMA TickCalm ==
  ASSUME IInv, StartTick \/ JobsDone \/ ReconcileTerminal \/ Advance
  PROVE  Calm
<1>1. run \in RunRow /\ RunFits(run) /\ ~run.settled
  BY DEF IInv, RowsTyped
<1>2. CASE StartTick
  <2>. DEFINE then == IF Runnable THEN "flush" ELSE "reconcile"
  <2>1. Launch(PendingPages, "read", "refresh", then) /\ run' = run /\ batch' = batch
        /\ PendingPages \in SUBSET Pages /\ then \in {"flush", "reconcile", "submitted"}
    BY <1>2 DEF StartTick, PendingPages
  <2>. HIDE DEF then
  <2>. QED BY <2>1, LaunchCalm
<1>3. CASE JobsDone
  <2>1. At(Worker, "waiting") /\ (\A p \in Pages : Idle(p)) /\ run' = run /\ batch' = batch /\ pages' = pages
    BY <1>3 DEF JobsDone, KeepMedia
  <2>2. CASE job[Worker].then = "flush"
    <3>1. job' = ThenFlush(Worker, "advance")
      BY <1>3, <2>2 DEF JobsDone
    <3>. QED BY <2>1, <3>1, LeavesCalm, RunStands
  <2>3. CASE job[Worker].then # "flush"
    <3>. DEFINE at == job[Worker].then
                j == [job[Worker] EXCEPT !.at = at]
    <3>1. at # "done"
      BY <2>1 DEF IInv, PlacesFit, WorkerPlace, At
    <3>2. job[Worker] \in JobRow /\ job \in [Clients -> JobRow]
      BY Distinct DEF IInv, RowsTyped
    <3>3. job' = [job EXCEPT ![Worker] = j]
      BY <1>3, <2>3, <3>1, <3>2 DEF JobsDone, Goto
    <3>4. job'[Worker].at = at /\ (at = "waiting" => FALSE)
      <4>1. j.at = at
        BY <3>2 DEF JobRow
      <4>2. at # "waiting"
        BY <2>1 DEF IInv, PlacesFit, WorkerPlace, At
      <4>. QED BY <3>2, <3>3, <4>1, <4>2, Distinct
    <3>5. \A q \in Pages : job'[q] = job[q]
      BY <3>2, <3>3, Distinct
    <3>6. AtSettle' => AtSettle
      BY <2>1, <3>4 DEF AtSettle, At
    <3>7. Steady(run, run')
      BY <1>1, <2>1, StandsStill
    <3>. QED BY <2>1, <3>5, <3>6, <3>7, QuietIsCalm DEF Idle, At
  <2>. QED BY <2>2, <2>3
<1>4. CASE ReconcileTerminal
  <2>1. Follows(run, run')
    BY <1>1, <1>4, ConcludeIsSteady, StandsStill DEF ReconcileTerminal, Steady
  <2>2. /\ pages' = pages /\ job' = ThenFlush(Worker, "check")
        /\ batch' = "FINAL" => batch = "FINAL" \/ Lost(run)
    BY <1>4 DEF ReconcileTerminal, TerminalBatch, Lost, KeepMedia
  <2>. QED BY <2>1, <2>2, LeavesCalm
<1>5. CASE AdvanceRecovery
  <2>1. pages' = pages /\ job' = Goto(Worker, "done")
    BY <1>5 DEF AdvanceRecovery, KeepMedia
  <2>2. CASE run.pending # "NONE"
    <3>1. run' = ConcludeFailure(run, pages, batch') /\ Lost(run)
      BY <1>5, <2>2 DEF AdvanceRecovery, Lost
    <3>2. Follows(run, run')
      BY <1>1, <3>1, ConcludeIsSteady DEF Steady
    <3>. QED BY <2>1, <3>1, <3>2, LeavesCalm
  <2>3. CASE run.pending = "NONE"
    <3>1. Follows(run, run') /\ batch' = batch
      BY <1>1, <1>5, <2>3, ResumeIsSteady, StandsStill DEF AdvanceRecovery, Steady
    <3>. QED BY <2>1, <3>1, LeavesCalm
  <2>. QED BY <2>2, <2>3
<1>6. CASE AdvanceBlocked
  <2>1. Follows(run, run') /\ pages' = pages /\ batch' = batch /\ job' = Goto(Worker, "done")
    BY <1>6, RequireHumanIsSteady DEF AdvanceBlocked, KeepMedia, Steady
  <2>. QED BY <2>1, LeavesCalm
<1>7. CASE AdvanceSubmission
  <2>1. Launch(ToSubmit, "prepare", "send", "submitted") /\ run' = run
        /\ (batch' = "FINAL" => batch = "FINAL") /\ ToSubmit \in SUBSET Pages
    BY <1>7 DEF AdvanceSubmission, ToSubmit
  <2>. QED BY <2>1, LaunchCalm
<1>8. CASE Deliver
  <2>1. Follows(run, run')
    <3>1. CASE run.status = "PAGE_REVIEW"
      BY <1>1, <1>8, <3>1, DeliverIsSteady DEF Deliver, Steady
    <3>2. CASE run.status = "DELIVERING"
      <4>1. run' = Ended(run, "COMPLETED") /\ Past(run) /\ run.status \notin TerminalStates
        BY <1>8, <3>2 DEF Deliver, Past, TerminalStates
      <4>. QED BY <1>1, <4>1, EndIsSteady DEF Steady
    <3>. QED BY <1>8, <3>1, <3>2 DEF Deliver
  <2>2. pages' = pages /\ batch' = batch /\ job' = Goto(Worker, "done")
    BY <1>8 DEF Deliver, KeepMedia
  <2>. QED BY <2>1, <2>2, LeavesCalm
<1>9. CASE NothingToAdvance
  <2>1. run' = run /\ pages' = pages /\ batch' = batch /\ job' = Goto(Worker, "done")
    BY <1>9 DEF NothingToAdvance, KeepMedia
  <2>. QED BY <2>1, LeavesCalm, RunStands
<1>. QED BY <1>2, <1>3, <1>4, <1>5, <1>6, <1>7, <1>8, <1>9 DEF Advance

\* The pages that are waited for, before they are settled, were submitted.
LEMMA AfterSubmissionCalm ==
  ASSUME IInv, AfterSubmission
  PROVE  Calm
<1>. DEFINE failed == {p \in Pages : pages[p].st \in MediaFailure}
<1>1. pages' = pages /\ batch' = batch
  BY DEF AfterSubmission, KeepMedia
<1>2. CASE /\ job' = Goto(Worker, "done")
           /\ \/ run' = run
              \/ run.status \notin {"PAUSED", "CANCELLED"} /\ \E p \in failed : RequireHuman(p)
  <2>1. Follows(run, run')
    BY <1>2, RequireHumanIsSteady, RunStands DEF Steady
  <2>. QED BY <1>1, <1>2, <2>1, LeavesCalm
<1>3. CASE failed = {} /\ run' = run /\ Launch({p \in Pages : pages[p].st = "WAITING"}, "read", "refresh", "settle")
  <2>. DEFINE ps == {p \in Pages : pages[p].st = "WAITING"}
  <2>1. \A q \in Pages : q \notin ps => job'[q] = job[q]
    BY <1>3, LaunchWaits
  <2>2. At(Worker, "submitted")
    BY DEF AfterSubmission
  <2>3. ASSUME NEW q \in Pages
        PROVE  /\ (~Idle(q) => pages[q].op)'
               /\ (~pages[q].op => pages[q].st \in {"NONE", "RESERVED", "SUBMITTING"})'
    <3>1. PageFits(q) /\ Idle(q) /\ pages[q] \in PageRow
      BY <2>2 DEF IInv, PlacesFit, At, RowsTyped
    <3>2. pages[q].st \notin MediaFailure
      BY <1>3
    <3>3. pages[q].st = "WAITING" => pages[q].op
      BY <3>1 DEF PageFits, PageOK, Named
    <3>4. ~pages[q].op => pages[q].st \in {"NONE", "RESERVED", "SUBMITTING"}
      BY <3>1, <3>2, <3>3 DEF PageFits, PageOK, PageRow
    <3>. QED BY <1>1, <2>1, <3>1, <3>3, <3>4 DEF Idle, At
  <2>4. SettleFits'
    BY <2>3 DEF SettleFits
  <2>. QED BY <1>1, <1>3, <2>4, RunStands DEF Calm, Follows
<1>. QED BY <1>2, <1>3 DEF AfterSubmission

LEMMA SettleCalm ==
  ASSUME IInv, DInv, Settle
  PROVE  Calm
<1>1. pages' = pages /\ batch' = FinalizedBatch /\ job' = Goto(Worker, "done") /\ At(Worker, "settle")
  BY DEF Settle, KeepMedia
<1>2. batch' = "FINAL" => batch = "FINAL" \/ Reported
  <2>1. \A p \in Pages : PageFinal(p) => pages[p].op
    BY <1>1 DEF DInv, SettleFits, AtSettle, PageFinal, Settled, Succeeded
  <2>. QED BY <1>1, <2>1, FinalIsReported
<1>3. CASE Follows(run, run')
  BY <1>1, <1>2, <1>3, LeavesCalm
<1>4. CASE run.status = "EXECUTING" /\ \E p \in Pages : RequireHuman(p)
  BY <1>3, <1>4, RequireHumanIsSteady DEF Steady
<1>5. CASE run' = run
  BY <1>3, <1>5, RunStands
<1>6. CASE run.status = "EXECUTING" /\ batch' = "FINAL"
  <2>1. ~Lost(run)
    BY <1>6 DEF Lost
  <2>2. Reported
    BY <1>2, <1>6, <2>1 DEF DInv
  <2>3. SettleFits => SettleFits'
    <3>1. (AtSettle' => AtSettle) /\ \A q \in Pages : Idle(q) => Idle(q)'
      BY <1>1, Leaves
    <3>. QED BY <1>1, <3>1 DEF SettleFits
  <2>. QED BY <2>1, <2>2, <2>3 DEF Calm
<1>7. \/ run' = run
      \/ run.status = "EXECUTING" /\ (batch' = "FINAL" \/ \E p \in Pages : RequireHuman(p))
  BY DEF Settle
<1>. QED BY <1>4, <1>5, <1>6, <1>7

LEMMA CloseCalm ==
  ASSUME IInv, NEW c \in {Worker, Admin}, Close(c)
  PROVE  Calm
<1>1. CASE CheckFinalization(c) \/ ClosingPostponed(c)
  <2>1. run' = run /\ batch' = batch /\ pages' = pages
        /\ (job' = Goto(c, "done") \/ job' = ThenFlush(c, "closing"))
    BY <1>1 DEF CheckFinalization, ClosingPostponed, KeepMedia
  <2>. QED BY <2>1, LeavesCalm, RunStands
<1>2. CASE BillSettled(c) \/ BillOpen(c) \/ BillRefused(c)
  <2>1. Follows(run, run')
    BY <1>2, BillSettledSafe, BillOpenSafe, BillRefusedSafe
  <2>2. batch' = batch /\ pages' = pages /\ job' = Goto(c, "done")
    BY <1>2 DEF BillSettled, BillOpen, BillRefused, Closing, KeepClosing
  <2>. QED BY <2>1, <2>2, LeavesCalm
<1>. QED BY <1>1, <1>2 DEF Close

LEMMA AdminCalm ==
  ASSUME IInv, OnlyTheWorkerFinalizes, AdminNext
  PROVE  Calm
<1>1. CASE run' = run /\ batch' = batch /\ pages' = pages /\ \E j : job' = [job EXCEPT ![Admin] = j]
  BY <1>1, LeavesCalm, RunStands
<1>2. ASSUME NEW e \in Events, RetryEvent(e) PROVE Calm
  <2>1. run' = run /\ batch' = batch /\ pages' = pages /\ job' = ThenFlush(Admin, "done")
    BY <1>2 DEF RetryEvent
  <2>. QED BY <2>1, LeavesCalm, RunStands
<1>3. CASE RetryFinalization
  <2>1. Follows(run, run') /\ batch' = batch /\ pages' = pages
    BY <1>3, RetryFinalizationSafe DEF RetryFinalization
  <2>2. \E j : job' = [job EXCEPT ![Admin] = j]
    BY <1>3, AdminJobs DEF RetryFinalization, Goto
  <2>. QED BY <2>1, <2>2, LeavesCalm
<1>4. CASE RefinalizeBatch
  <2>1. /\ At(Admin, "refinalize") /\ run' = run /\ pages' = pages /\ batch' = FinalizedBatch
        /\ job' = Goto(Admin, "done")
    BY <1>4 DEF RefinalizeBatch, KeepMedia
  <2>2. /\ admin.action \in Verdicts \cap AdminActions /\ admin.on \in Pages /\ pages[admin.on].op
    <3>1. admin.action \in Verdicts
      BY <2>1 DEF IInv, PlacesFit, AdminPlace, At
    <3>2. admin.action \in PageActions /\ admin.action \in AdminActions
      BY <3>1 DEF PageActions, Verdicts, Retries, Actions, IInv, RowsTyped
    <3>. QED BY <3>1, <3>2 DEF IInv, PlacesFit, AdminPlace, AdminFits, Lawful
  <2>3. \A p \in Pages : pages[p].op
    BY <2>2 DEF OnlyTheWorkerFinalizes
  <2>4. batch' = "FINAL" => batch = "FINAL" \/ Reported
    BY <2>1, <2>3, FinalIsReported
  <2>. QED BY <2>1, <2>4, LeavesCalm, RunStands
<1>5. CASE FindResolved \/ ResolveAccounting
  BY <1>5, FindResolvedSafe, ResolveAccountingSafe DEF Safe
<1>6. CASE Act \/ CompleteAction
  BY <1>1, <1>6 DEF Act, CompleteAction, KeepMedia
<1>7. ASSUME NEW e \in Events, BeginRetryEvent(e) PROVE Calm
  BY <1>1, <1>7 DEF BeginRetryEvent
<1>8. CASE BeginRetryFinalization
  BY <1>1, <1>8 DEF BeginRetryFinalization
<1>9. ASSUME NEW p \in Pages, ReinspectPage(p) \/ \E verdict \in Verdicts : BeginVerdict(p, verdict)
      PROVE  Calm
  BY <1>1, <1>9 DEF ReinspectPage, BeginVerdict
<1>. QED BY <1>2, <1>3, <1>4, <1>5, <1>6, <1>7, <1>8, <1>9 DEF AdminNext

LEMMA StepCalm ==
  ASSUME IInv, DInv, OnlyTheWorkerFinalizes, [Next]_vars
  PROVE  Calm
<1>1. ASSUME NEW p \in Pages, Submit(p) \/ ProviderEnds(p) PROVE Calm
  BY <1>1, PrepareSafe, AuthorizeSafe, MarkSubmittingSafe, SendAcceptedSafe, SendRefusedSafe,
     SendDoubtedSafe, SendLostSafe, MarkWaitingSafe, ProviderEndsSafe DEF Submit, Safe
<1>2. ASSUME NEW c \in Pages \cup {Admin}, Refresh(c) PROVE Calm
  BY <1>2, ReadSafe, LookupSafe, InspectSafe, MarkResultSafe, AddObservedSafe, AddResolvedSafe
     DEF Refresh, Safe
<1>3. ASSUME NEW c \in Clients, Flush(c) PROVE Calm
  BY <1>3, FlushNothingSafe, BeginFlushSafe DEF Flush, Safe
<1>4. ASSUME NEW c \in {Worker, Admin}, Close(c) PROVE Calm
  BY <1>4, CloseCalm
<1>5. CASE Send
  BY <1>5, EventAcknowledgedSafe, EventLostSafe, EventRejectedSafe DEF Send, Safe
<1>6. CASE Tick
  BY <1>6, TickCalm, AfterSubmissionCalm, SettleCalm DEF Tick
<1>7. CASE AdminNext
  BY <1>7, AdminCalm
<1>8. CASE Crash
  <2>1. run' = run /\ batch' = batch /\ pages' = pages /\ job' = [c \in Clients |-> Resting]
    BY <1>8 DEF Crash
  <2>2. ~AtSettle'
    BY <2>1, Distinct DEF AtSettle, At, Resting
  <2>. QED BY <2>1, <2>2, RunStands DEF Calm, Follows, SettleFits
<1>9. ASSUME NEW action \in UserActions, User(action) PROVE Calm
  <2>1. Follows(run, run') /\ batch' = batch /\ pages' = pages /\ job' = job
    BY <1>9, UserIsSteady DEF User, KeepMedia, Steady
  <2>. QED BY <2>1, LeavesCalm
<1>10. CASE UNCHANGED vars
  <2>1. run' = run /\ batch' = batch /\ pages' = pages /\ job' = job
    BY <1>10 DEF vars
  <2>. QED BY <2>1, LeavesCalm, RunStands
<1>. QED BY <1>1, <1>2, <1>3, <1>4, <1>5, <1>6, <1>7, <1>8, <1>9, <1>10 DEF Next

\* Whichever way the drawing ends, what the provider did is on the bill: the Run goes on to
\* the reviews, and to the delivery, with every operation and its charge reported, where
\* nobody but the worker closes the batch over several pages, and the bill is closed full
\* (finalizeUsageV2GenerationBatch, reconcileTerminalRun).
THEOREM ReportsAreFull ==
  ASSUME OnlyTheWorkerFinalizes
  PROVE  Spec => []ReportedInFull
<1>1. IInv /\ Init => DInv
  <2>1. SUFFICES ASSUME Init PROVE DInv
    OBVIOUS
  <2>2. /\ run.status = "EXECUTING" /\ run.resume = "NONE" /\ run.recovery = NoRecovery
        /\ run.failed = "NONE" /\ batch = "NONE" /\ job[Worker] = Resting
    BY <2>1, Distinct DEF Init
  <2>3. ~Past(run)
    BY <2>2 DEF Past, NoRecovery, RejectedCode
  <2>4. ~AtSettle
    BY <2>2 DEF AtSettle, At, Resting
  <2>. QED BY <2>2, <2>3, <2>4 DEF DInv, SettleFits
<1>2. IInv /\ DInv /\ [Next]_vars => DInv'
  <2>1. SUFFICES ASSUME IInv, DInv, [Next]_vars PROVE DInv'
    OBVIOUS
  <2>2. Calm /\ (Reported => Reported')
    BY <2>1, StepCalm, ReportedStands
  <2>. QED BY <2>1, <2>2 DEF Calm, DInv
<1>3. IInv => BilledInFull
  <2>1. SUFFICES ASSUME IInv, host.closed, NEW p \in Pages, provider[p] \in {"running", "completed", "failed"}
                 PROVE  p \in Billed
    BY DEF BilledInFull
  <2>2. Untouched(p) \/ Obs(p) \in UsedEvents
    BY <2>1 DEF IInv, CloseFits, LastWord
  <2>. QED BY <2>1, <2>2 DEF IInv, CloseFits, Untouched
<1>4. DInv => DeliveredOnlyReported
  BY DEF DInv, Past, Reported, DeliveredOnlyReported
<1>5. IInv /\ DInv => ReportedInFull
  BY <1>3, <1>4 DEF ReportedInFull
<1>. QED BY <1>1, <1>2, <1>5, InitSafe, Invariance, PTL DEF Spec
=============================================================================

-------------------------- MODULE ImageRoutes_proofs --------------------------
(***************************************************************************)
(* Proofs about ImageRoutes for every set of pages and models and any      *)
(* number of restarts and drifts: one route for the images of a round      *)
(* (OneRoute), one place for each of them (OnePlace), and the same request *)
(* whenever a dispatch is repeated (ReplaysAgree).                         *)
(*                                                                         *)
(* A dispatch works its targets out anew, so the invariant ties three      *)
(* things together: the route of the dispatch once the batch has been      *)
(* agreed to (Agreed), the steps on record, and the accepted tasks.  That  *)
(* a replay agrees needs more: whatever build works the targets out next,  *)
(* it arrives at the stored ones (Steady, TargetsAnswer).                  *)
(***************************************************************************)
EXTENDS ImageRoutes, TLAPS

\* The worker sends only what it has put on record.
Sending ==
  dispatch.at = "send" => /\ dispatch.page \in Pages /\ step[dispatch.page] # None
                          /\ step[dispatch.page].by = "PROVIDER"

\* A dispatch that is past the batch generates along the batch's route.
Agreed ==
  /\ dispatch.at = "batch" => V4
  /\ dispatch.at \in {"pages", "send"} =>
       IF V4 THEN Stored /\ ((\E p \in Pages : ~Local(p)) => dispatch.target.route = batch.route)
             ELSE dispatch.target.route = Generative

\* So do the steps of the provider, and the tasks it has accepted.
StepsFollow ==
  \A p \in Pages : step[p] # None /\ step[p].by = "PROVIDER" =>
    IF V4 THEN Stored /\ step[p].route = batch.route ELSE step[p].route = Generative
TasksFollow ==
  \A t \in tasks : IF V4 THEN Stored /\ t.route = batch.route ELSE t.route = Generative

IInv == TypeOK /\ Sending /\ Agreed /\ StepsFollow /\ TasksFollow

USE DEF Stored, Local

-----------------------------------------------------------------------------
LEMMA IdleTyped == Idle \in Dispatch /\ Idle.at = "idle"
<1>1. Generative \in Route
  BY DEF Generative, Route
<1>2. OldBatch.strategy \in [Pages -> Strategies] /\ NoPage \in [Pages -> Nat]
  <2>1. OldBatch.strategy = [p \in Pages |-> "FULL_GENERATIVE"]
    BY DEF OldBatch
  <2>. QED BY <2>1 DEF Strategies, NoPage
<1>3. NoTarget \in Target
  BY <1>1, <1>2 DEF NoTarget, Target
<1>. QED BY <1>3 DEF Idle, Dispatch

LEMMA DeploymentsTyped == Deployments \subseteq Deployment
<1>1. [edit |-> None, raster |-> FALSE, exact |-> {}] \in Deployment
  BY DEF Deployment
<1>. QED BY <1>1 DEF Deployments

LEMMA InitTypeOK == Init => TypeOK
<1> SUFFICES ASSUME Init PROVE TypeOK
  OBVIOUS
<1>1. OldBatch \in Batch
  BY DEF OldBatch, Batch, Generative, Route, Strategies, NoPage
<1>2. batch \in Batch \cup {None}
  BY <1>1 DEF Init
<1>3. deployment \in Deployment
  BY DeploymentsTyped DEF Init
<1>4. source \in [Pages -> Source]
  BY DEF Init, Source
<1>5. dispatch \in Dispatch /\ dispatch.at # "send"
  BY IdleTyped DEF Init
<1>. QED BY <1>2, <1>3, <1>4, <1>5, ImageRoutesAssumption DEF Init, TypeOK

\* An end of the round changes the status and forgets the dispatch.
LEMMA EndTyped ==
  ASSUME TypeOK, Ends("NEEDS_HUMAN") \/ Ends("EDIT_UNAVAILABLE") \/ Ends("BROKEN") \/ Ends("CONFLICT")
                 \/ Ends("PAGE_REVIEW")
  PROVE  /\ run' \in Runs /\ dispatch' \in Dispatch /\ dispatch'.at = "idle"
         /\ V4' = V4 /\ Revising' = Revising /\ \A p \in Pages : Asset(p)' = Asset(p)
<1>1. PICK status \in {"NEEDS_HUMAN", "EDIT_UNAVAILABLE", "BROKEN", "CONFLICT", "PAGE_REVIEW"} : Ends(status)
  OBVIOUS
<1>2. run \in Runs /\ run' = [run EXCEPT !.status = status]
  BY <1>1 DEF TypeOK, Ends
<1>3. run' \in Runs /\ run'.kind = run.kind /\ run'.scope = run.scope /\ run'.asset = run.asset
  BY <1>2 DEF Runs
<1>. QED BY <1>1, <1>3, IdleTyped DEF Ends, V4, Revising, Asset

LEMMA RequestTyped ==
  ASSUME TypeOK, NEW p \in Pages
  PROVE  Requested(p) \in Step
<1>1. dispatch.target.route \in Route /\ dispatch.target.of[p] \in Nat
  BY DEF TypeOK, Dispatch, Target
<1>. QED BY <1>1 DEF Requested, Step

LEMMA ObtainedTyped ==
  ASSUME NEW by \in {"LOCAL", "WEB", "SOURCE", "NOBODY"}, NEW status \in {"COMPLETED", "FAILED"}
  PROVE  Obtained(by, status) \in Step /\ Obtained(by, status).by = by
BY DEF Obtained, Step, Generative, Route

\* The targets of a dispatch are what its type says.
LEMMA TargetTyped ==
  ASSUME TypeOK
  PROVE  Targets(TargetRoute) \in Target
<1>1. \A p \in Pages : step[p] # None => step[p] \in Step
  BY DEF TypeOK
<1>2. RoundRoute = None \/ RoundRoute \in Route
  <2>1. Generative \in Route
    BY DEF Generative, Route
  <2>2. Edited # {} => step[CHOOSE p \in Edited : TRUE].route \in Route
    BY <1>1 DEF Edited, Submitted, Step
  <2>3. Stored => batch.route \in Route
    BY DEF TypeOK, Batch
  <2>4. EditModel \in EditModels \cup {None}
    BY DEF EditModel, TypeOK, Runs, Deployment
  <2>5. EditModel # None => [model |-> EditModel, mode |-> "IMAGE_EDIT"] \in Route
    BY <2>4 DEF Route
  <2>6. PersistedRoute = None \/ PersistedRoute \in Route
    BY <2>1, <2>2, <2>3, <2>5 DEF PersistedRoute
  <2>. QED BY <2>1, <2>6 DEF RoundRoute, RevisionRoute
<1>3. TargetRoute \in Route
  BY <1>2 DEF TargetRoute, Generative, Route
<1>4. \A p \in Pages : Strategy(p) \in Strategies
  BY DEF Strategy, Resolved, Strategies
<1>5. \A p \in Pages : StartsFrom(p, TargetRoute) \in Nat
  BY DEF StartsFrom, TypeOK, Source
<1>. QED BY <1>3, <1>4, <1>5 DEF Targets, Target

LEMMA PutTyped ==
  ASSUME TypeOK, NEW p \in Pages, NEW s \in Step, PutStep(p, s)
  PROVE  /\ step' \in [Pages -> Step \cup {None}] /\ step'[p] = s
         /\ \A q \in Pages : q # p => step'[q] = step[q]
BY DEF TypeOK, PutStep

LEMMA DoneTyped ==
  ASSUME TypeOK, NEW p \in Pages, Done(p)
  PROVE  /\ dispatch' \in Dispatch /\ dispatch'.at = "pages"
         /\ dispatch'.target = dispatch.target
<1>1. dispatch \in Dispatch
  BY DEF TypeOK
<1>. QED BY <1>1 DEF Done, Dispatch

\* The routes of the provider and of the other sources are typed alike: each action
\* keeps TypeOK.
LEMMA EndStep ==
  ASSUME TypeOK, Blocked \/ EditUnavailable \/ Break \/ EndRound
  PROVE  TypeOK'
<1>1. run' \in Runs /\ dispatch' \in Dispatch /\ dispatch'.at = "idle"
  BY EndTyped DEF Blocked, EditUnavailable, Break, EndRound
<1>. QED BY <1>1 DEF TypeOK, Blocked, EditUnavailable, Break, EndRound, Rows, outside

LEMMA StartTyped ==
  ASSUME TypeOK, StartDispatch
  PROVE  /\ dispatch' \in Dispatch /\ dispatch'.at = (IF V4 THEN "batch" ELSE "pages")
         /\ dispatch'.target = Targets(TargetRoute)
<1>1. Idle \in Dispatch /\ Targets(TargetRoute) \in Target /\ Pending \in SUBSET Pages
  BY IdleTyped, TargetTyped DEF Pending
<1>. QED BY <1>1 DEF StartDispatch, Dispatch

LEMMA BatchTyped ==
  ASSUME TypeOK, EnsureBatch
  PROVE  TypeOK' /\ (Stored => batch' = batch)
<1>1. dispatch \in Dispatch /\ dispatch.target \in Target
  BY DEF TypeOK, Dispatch
<1>2. CASE Stored /\ ~SameBatch(dispatch.target)
  <2>1. Ends("CONFLICT") /\ UNCHANGED <<batch, step, tasks, outside>>
    BY <1>2 DEF EnsureBatch
  <2>2. run' \in Runs /\ dispatch' \in Dispatch /\ dispatch'.at = "idle"
    BY <2>1, EndTyped
  <2>. QED BY <2>1, <2>2 DEF TypeOK, outside
<1>3. CASE ~(Stored /\ ~SameBatch(dispatch.target))
  <2>1. /\ batch' = IF Stored THEN batch ELSE
                      [route |-> BatchRoute(dispatch.target), old |-> FALSE,
                       strategy |-> dispatch.target.strategy, of |-> dispatch.target.of]
        /\ dispatch' = [dispatch EXCEPT !.at = "pages"]
        /\ UNCHANGED <<run, step, tasks, outside>>
    BY <1>3 DEF EnsureBatch
  <2>2. BatchRoute(dispatch.target) \in Route
    BY <1>1 DEF BatchRoute, Target, Generative, Route
  <2>3. batch' \in Batch \cup {None}
    BY <1>1, <2>1, <2>2 DEF TypeOK, Batch, Target
  <2>4. dispatch' \in Dispatch /\ dispatch'.at = "pages"
    BY <1>1, <2>1 DEF Dispatch
  <2>. QED BY <2>1, <2>3, <2>4 DEF TypeOK, outside
<1>. QED BY <1>2, <1>3

LEMMA ConflictTyped ==
  ASSUME TypeOK, NEW p \in Pages, Conflict(p), dispatch.at = "pages"
  PROVE  /\ run' \in Runs /\ dispatch' \in Dispatch /\ dispatch'.at \in {"idle", "pages"}
         /\ dispatch'.at = "pages" => dispatch'.target = dispatch.target
         /\ V4' = V4 /\ Revising' = Revising /\ \A q \in Pages : Asset(q)' = Asset(q)
<1>1. dispatch \in Dispatch
  BY DEF TypeOK
<1>2. CASE V4
  BY <1>1, <1>2 DEF Conflict, TypeOK, Dispatch, V4, Revising, Asset
<1>3. CASE ~V4
  BY <1>3, EndTyped DEF Conflict
<1>. QED BY <1>2, <1>3

-----------------------------------------------------------------------------
\* The actions of a page that put no step of the provider on record where there was none.
LEMMA LocalStep ==
  ASSUME TypeOK, NEW p \in Pages,
         \/ SearchWeb(p) \/ RecordSourceAssetFailure(p) \/ CompleteSourceAssetReuse(p)
         \/ CompleteControlledRaster(p)
  PROVE  /\ TypeOK' /\ V4' = V4 /\ UNCHANGED <<batch, tasks, outside>>
         /\ dispatch'.at \in {"idle", "pages"} /\ dispatch.at = "pages"
         /\ dispatch'.at = "pages" => dispatch'.target = dispatch.target
         /\ \A q \in Pages : Asset(q)' = Asset(q)
         /\ \A q \in Pages : step'[q] = step[q] \/ (q = p /\ step'[q] \in Step /\ step'[q].by # "PROVIDER")
<1>0. dispatch \in Dispatch /\ run \in Runs
  BY DEF TypeOK
<1>1. CASE SearchWeb(p)
  <2>1. CASE PutStep(p, Obtained("WEB", "COMPLETED")) /\ Done(p)
    <3>1. Obtained("WEB", "COMPLETED") \in Step /\ Obtained("WEB", "COMPLETED").by = "WEB"
      BY ObtainedTyped
    <3>. QED BY <1>1, <2>1, <3>1, PutTyped, DoneTyped DEF SearchWeb, TypeOK, outside, V4, Asset
  <2>2. CASE dispatch' = [dispatch EXCEPT !.searched = @ \cup {p}] /\ UNCHANGED step
    <3>1. dispatch' \in Dispatch /\ dispatch'.at = dispatch.at /\ dispatch'.target = dispatch.target
      BY <1>0, <2>2 DEF Dispatch
    <3>. QED BY <1>1, <2>2, <3>1 DEF SearchWeb, TypeOK, outside, V4, Asset
  <2>. QED BY <1>1, <2>1, <2>2 DEF SearchWeb
<1>2. CASE RecordSourceAssetFailure(p)
  <2>1. Obtained("NOBODY", "FAILED") \in Step /\ Obtained("NOBODY", "FAILED").by = "NOBODY"
    BY ObtainedTyped
  <2>. QED BY <1>2, <2>1, PutTyped, IdleTyped DEF RecordSourceAssetFailure, Turn, TypeOK, outside, V4, Asset
<1>3. CASE CompleteSourceAssetReuse(p)
  <2>1. Obtained("SOURCE", "COMPLETED") \in Step /\ Obtained("SOURCE", "COMPLETED").by = "SOURCE"
    BY ObtainedTyped
  <2>. QED BY <1>3, <2>1, PutTyped, DoneTyped DEF CompleteSourceAssetReuse, Turn, TypeOK, outside, V4, Asset
<1>4. CASE CompleteControlledRaster(p)
  <2>1. CASE Conflict(p) /\ UNCHANGED step
    BY <1>4, <2>1, ConflictTyped DEF CompleteControlledRaster, Turn, TypeOK, outside
  <2>2. CASE (RasterDrawn(p) \/ PersistControlledRasterFailure(p)) /\ Done(p) /\ UNCHANGED run
    <3>1. PICK status \in {"COMPLETED", "FAILED"} : PutStep(p, Obtained("LOCAL", status))
      BY <2>2 DEF RasterDrawn, PersistControlledRasterFailure
    <3>2. Obtained("LOCAL", status) \in Step /\ Obtained("LOCAL", status).by = "LOCAL"
      BY ObtainedTyped
    <3>. QED BY <1>4, <2>2, <3>1, <3>2, PutTyped, DoneTyped
             DEF CompleteControlledRaster, Turn, TypeOK, outside, V4, Asset
  <2>. QED BY <1>4, <2>1, <2>2 DEF CompleteControlledRaster
<1>. QED BY <1>1, <1>2, <1>3, <1>4

\* The request of a page follows the dispatch, and what is on record is not changed by it.
LEMMA PrepareStep ==
  ASSUME TypeOK, NEW p \in Pages, Prepare(p)
  PROVE  /\ TypeOK' /\ V4' = V4 /\ UNCHANGED <<run, batch, tasks, outside>>
         /\ dispatch.at = "pages" /\ ~Local(p)
         /\ dispatch'.at = "send" /\ dispatch'.page = p /\ dispatch'.target = dispatch.target
         /\ step'[p] = Requested(p) /\ \A q \in Pages : q # p => step'[q] = step[q]
<1>1. dispatch \in Dispatch /\ Requested(p) \in Step
  BY RequestTyped DEF TypeOK
<1>2. /\ PutStep(p, Requested(p)) /\ dispatch' = [dispatch EXCEPT !.at = "send", !.page = p]
      /\ UNCHANGED <<run, batch, tasks, outside>>
      /\ dispatch.at = "pages" /\ ~Local(p)
  BY DEF Prepare, ForProvider, Turn
<1>3. dispatch' \in Dispatch /\ dispatch'.at = "send" /\ dispatch'.page = p /\ dispatch'.target = dispatch.target
  BY <1>1, <1>2 DEF Dispatch
<1>. QED BY <1>1, <1>2, <1>3, PutTyped DEF TypeOK, outside, V4

\* A step that is looked up, sent or refreshed changes its status alone.
LEMMA StatusTyped ==
  ASSUME TypeOK, NEW p \in Pages, step[p] # None,
         NEW status \in {"RESERVED", "SUBMITTING", "WAITING", "COMPLETED", "FAILED"}
  PROVE  /\ [step[p] EXCEPT !.status = status] \in Step
         /\ [step[p] EXCEPT !.status = status].by = step[p].by
         /\ [step[p] EXCEPT !.status = status].route = step[p].route
         /\ [step[p] EXCEPT !.status = status].of = step[p].of
<1>1. step[p] \in Step
  BY DEF TypeOK
<1>. QED BY <1>1 DEF Step

LEMMA StatusStep ==
  ASSUME TypeOK, NEW p \in Pages, Lookup(p) \/ RefreshPage(p)
  PROVE  /\ TypeOK' /\ V4' = V4 /\ UNCHANGED <<run, batch, tasks, outside>>
         /\ \/ dispatch' = dispatch
            \/ dispatch.at = "pages" /\ dispatch'.at = "pages" /\ dispatch'.target = dispatch.target
         /\ step[p] # None /\ step'[p] \in Step /\ step'[p].by = step[p].by
         /\ step'[p].route = step[p].route /\ step'[p].of = step[p].of
         /\ \A q \in Pages : q # p => step'[q] = step[q]
<1>1. PICK status \in {"WAITING", "COMPLETED", "FAILED"} : PutStep(p, [step[p] EXCEPT !.status = status])
  BY DEF Lookup, RefreshPage
<1>2. step[p] # None /\ UNCHANGED <<run, batch, tasks, outside>>
  BY DEF Lookup, RefreshPage
<1>3. /\ step'[p] \in Step /\ step'[p].by = step[p].by
      /\ step'[p].route = step[p].route /\ step'[p].of = step[p].of
      /\ step' \in [Pages -> Step \cup {None}]
      /\ \A q \in Pages : q # p => step'[q] = step[q]
  <2>1. /\ [step[p] EXCEPT !.status = status] \in Step
        /\ [step[p] EXCEPT !.status = status].by = step[p].by
        /\ [step[p] EXCEPT !.status = status].route = step[p].route
        /\ [step[p] EXCEPT !.status = status].of = step[p].of
    BY <1>2, StatusTyped
  <2>2. /\ step' \in [Pages -> Step \cup {None}] /\ step'[p] = [step[p] EXCEPT !.status = status]
        /\ \A q \in Pages : q # p => step'[q] = step[q]
    BY <1>1, <2>1, PutTyped
  <2>. QED BY <2>1, <2>2
<1>4. /\ dispatch' \in Dispatch
      /\ \/ dispatch' = dispatch
         \/ dispatch.at = "pages" /\ dispatch'.at = "pages" /\ dispatch'.target = dispatch.target
  BY DoneTyped DEF Lookup, RefreshPage, ForProvider, Turn, TypeOK
<1>. QED BY <1>2, <1>3, <1>4 DEF TypeOK, outside, V4

\* Nothing is sent but what is on record, and the record of it stays.
LEMMA SubmitStep ==
  ASSUME TypeOK, Sending, Submit, NEW p, p = dispatch.page
  PROVE  /\ TypeOK' /\ V4' = V4 /\ UNCHANGED <<run, batch, outside>>
         /\ dispatch.at = "send" /\ dispatch'.at = "pages" /\ dispatch'.target = dispatch.target
         /\ p \in Pages /\ step[p] # None /\ step[p].by = "PROVIDER"
         /\ tasks' = tasks \/ tasks' = tasks \cup {Submission(p)}
         /\ step'[p] \in Step /\ step'[p].by = step[p].by
         /\ step'[p].route = step[p].route /\ step'[p].of = step[p].of
         /\ \A q \in Pages : q # p => step'[q] = step[q]
<1>1. PICK status \in {"SUBMITTING", "WAITING"} : PutStep(p, [step[p] EXCEPT !.status = status])
  BY DEF Submit
<1>2. /\ p \in Pages /\ step[p] # None /\ step[p].by = "PROVIDER" /\ Done(p)
      /\ tasks' = tasks \/ tasks' = tasks \cup {Submission(p)}
      /\ UNCHANGED <<run, batch, outside>> /\ dispatch.at = "send"
  BY DEF Submit, Sending
<1>3. Submission(p) \in Task
  BY <1>2 DEF TypeOK, Step, Submission, Task
<1>4. /\ [step[p] EXCEPT !.status = status] \in Step
      /\ [step[p] EXCEPT !.status = status].by = step[p].by
      /\ [step[p] EXCEPT !.status = status].route = step[p].route
      /\ [step[p] EXCEPT !.status = status].of = step[p].of
  BY <1>2, StatusTyped
<1>5. /\ step' \in [Pages -> Step \cup {None}] /\ step'[p] = [step[p] EXCEPT !.status = status]
      /\ \A q \in Pages : q # p => step'[q] = step[q]
  BY <1>1, <1>2, <1>4, PutTyped
<1>6. dispatch' \in Dispatch /\ dispatch'.at = "pages" /\ dispatch'.target = dispatch.target
  BY <1>2, DoneTyped
<1>. QED BY <1>2, <1>3, <1>4, <1>5, <1>6 DEF TypeOK, outside, V4

LEMMA QuietStep ==
  ASSUME TypeOK,
         \/ EndDispatch \/ Restart \/ UNCHANGED vars
         \/ \E p \in Pages : PrepareConflict(p) \/ Drift(p)
  PROVE  /\ TypeOK' /\ V4' = V4 /\ UNCHANGED <<batch, step, tasks>>
         /\ \A q \in Pages : Asset(q)' = Asset(q)
         /\ \/ dispatch' = dispatch
            \/ dispatch'.at = "idle"
            \/ dispatch.at = "pages" /\ dispatch'.at = "pages" /\ dispatch'.target = dispatch.target
<1>1. CASE EndDispatch
  BY <1>1, EndTyped, IdleTyped DEF EndDispatch, TypeOK, Rows, outside, V4, Asset
<1>2. CASE Restart
  <2>1. deployment' \in Deployment
    BY <1>2, DeploymentsTyped DEF Restart
  <2>2. restarts' \in 0..MaxRestarts
    BY <1>2, ImageRoutesAssumption DEF Restart, TypeOK
  <2>. QED BY <1>2, <2>1, <2>2, IdleTyped DEF Restart, TypeOK, Rows, V4, Asset
<1>3. CASE UNCHANGED vars
  BY <1>3 DEF vars, TypeOK, V4, Asset
<1>4. ASSUME NEW p \in Pages, PrepareConflict(p)
      PROVE  /\ TypeOK' /\ V4' = V4 /\ UNCHANGED <<batch, step, tasks>>
             /\ \A q \in Pages : Asset(q)' = Asset(q)
             /\ \/ dispatch'.at = "idle"
                \/ dispatch.at = "pages" /\ dispatch'.at = "pages" /\ dispatch'.target = dispatch.target
  BY <1>4, ConflictTyped DEF PrepareConflict, ForProvider, Turn, TypeOK, Rows, outside
<1>5. ASSUME NEW p \in Pages, Drift(p)
      PROVE  /\ TypeOK' /\ V4' = V4 /\ UNCHANGED <<batch, step, tasks, dispatch>>
             /\ \A q \in Pages : Asset(q)' = Asset(q)
  <2>1. PICK wide \in BOOLEAN, there \in BOOLEAN :
          source' = [source EXCEPT ![p] = [there |-> there, wide |-> wide, version |-> source[p].version + 1]]
    BY <1>5 DEF Drift, TypeOK
  <2>2. source' \in [Pages -> Source]
    BY <2>1 DEF TypeOK, Source
  <2>3. drifts' \in 0..MaxDrifts
    BY <1>5, ImageRoutesAssumption DEF Drift, TypeOK
  <2>. QED BY <1>5, <2>2, <2>3 DEF Drift, TypeOK, Rows, V4, Asset
<1>. QED BY <1>1, <1>2, <1>3, <1>4, <1>5

-----------------------------------------------------------------------------
\* A batch is stored once, and a dispatch goes on with it only along its route.
LEMMA EnsureStep ==
  ASSUME IInv, EnsureBatch
  PROVE  IInv'
<1>1. TypeOK' /\ (Stored => batch' = batch)
  BY BatchTyped DEF IInv
<1>2. V4' = V4 /\ UNCHANGED <<step, tasks>>
  BY EndTyped DEF EnsureBatch, IInv, V4
<1>3. StepsFollow' /\ TasksFollow'
  BY <1>1, <1>2 DEF IInv, StepsFollow, TasksFollow
<1>4. CASE Stored /\ ~SameBatch(dispatch.target)
  <2>1. dispatch'.at = "idle"
    BY <1>4, EndTyped DEF EnsureBatch, IInv
  <2>. QED BY <1>1, <1>3, <2>1 DEF IInv, Sending, Agreed
<1>5. CASE ~(Stored /\ ~SameBatch(dispatch.target))
  <2>1. /\ batch' = IF Stored THEN batch ELSE
                      [route |-> BatchRoute(dispatch.target), old |-> FALSE,
                       strategy |-> dispatch.target.strategy, of |-> dispatch.target.of]
        /\ dispatch' = [dispatch EXCEPT !.at = "pages"]
    BY <1>5 DEF EnsureBatch
  <2>2. dispatch'.at = "pages" /\ dispatch'.target = dispatch.target
    BY <2>1 DEF IInv, TypeOK, Dispatch
  <2>3. batch'.route = BatchRoute(dispatch.target) /\ batch' \in Batch
    <3>1. CASE Stored
      BY <1>5, <2>1, <3>1 DEF SameBatch, IInv, TypeOK
    <3>2. CASE ~Stored
      <4>1. batch' = [route |-> BatchRoute(dispatch.target), old |-> FALSE,
                      strategy |-> dispatch.target.strategy, of |-> dispatch.target.of]
        BY <2>1, <3>2
      <4>2. dispatch.target \in Target /\ BatchRoute(dispatch.target) \in Route
        BY DEF IInv, TypeOK, Dispatch, Target, BatchRoute, Generative, Route
      <4>. QED BY <4>1, <4>2 DEF Batch, Target
    <3>. QED BY <3>1, <3>2
  <2>4. batch' # None
    BY <2>3, NoneAssumption
  <2>5. (\E p \in Pages : ~Local(p)) => BatchRoute(dispatch.target) = dispatch.target.route
    BY DEF BatchRoute
  <2>6. V4
    BY DEF IInv, Agreed, EnsureBatch
  <2>7. Agreed'
    BY <1>2, <2>2, <2>3, <2>4, <2>5, <2>6 DEF Agreed
  <2>. QED BY <1>1, <1>3, <2>2, <2>7 DEF IInv, Sending
<1>. QED BY <1>4, <1>5

\* The other actions keep the batch, and put on record only what follows it.
LEMMA StepIInv ==
  ASSUME IInv, [Next]_vars, ~EnsureBatch
  PROVE  IInv'
<1>1. ASSUME NEW p \in Pages,
             \/ SearchWeb(p) \/ RecordSourceAssetFailure(p) \/ CompleteSourceAssetReuse(p)
             \/ CompleteControlledRaster(p)
      PROVE  IInv'
  BY <1>1, LocalStep DEF IInv, Sending, Agreed, StepsFollow, TasksFollow
<1>2. ASSUME NEW p \in Pages, Prepare(p) PROVE IInv'
  <2>1. Requested(p).by = "PROVIDER" /\ Requested(p).route = dispatch.target.route /\ Requested(p) # None
    BY RequestTyped, NoneAssumption DEF Requested, IInv
  <2>. QED BY <1>2, <2>1, PrepareStep DEF IInv, Sending, Agreed, StepsFollow, TasksFollow
<1>3. ASSUME NEW p \in Pages, Lookup(p) \/ RefreshPage(p) PROVE IInv'
  <2>1. step'[p] # None
    BY <1>3, StatusStep, NoneAssumption DEF IInv
  <2>. QED BY <1>3, <2>1, StatusStep DEF IInv, Sending, Agreed, StepsFollow, TasksFollow
<1>4. ASSUME Submit PROVE IInv'
  <2> DEFINE p == dispatch.page
  <2>1. Submission(p).route = step[p].route
    BY DEF Submission
  <2>2. /\ TypeOK' /\ V4' = V4 /\ UNCHANGED <<run, batch>>
        /\ dispatch.at = "send" /\ dispatch'.at = "pages" /\ dispatch'.target = dispatch.target
        /\ p \in Pages /\ step[p] # None /\ step[p].by = "PROVIDER"
        /\ tasks' = tasks \/ tasks' = tasks \cup {Submission(p)}
        /\ step'[p].by = step[p].by /\ step'[p].route = step[p].route
        /\ \A q \in Pages : q # p => step'[q] = step[q]
    BY <1>4, SubmitStep DEF IInv
  <2>. QED BY <2>1, <2>2 DEF IInv, Sending, Agreed, StepsFollow, TasksFollow
<1>5. ASSUME StartDispatch PROVE IInv'
  <2>1. ~V4 => TargetRoute = Generative
    BY DEF TargetRoute, RoundRoute
  <2>2. V4' = V4 /\ UNCHANGED <<batch, step, tasks>> /\ TypeOK'
    BY <1>5, StartTyped DEF StartDispatch, IInv, TypeOK, V4, Rows, outside
  <2>. QED BY <1>5, <2>1, <2>2, StartTyped DEF IInv, Sending, Agreed, StepsFollow, TasksFollow, Targets
<1>6. ASSUME Blocked \/ EditUnavailable \/ Break \/ EndRound PROVE IInv'
  <2>1. V4' = V4 /\ UNCHANGED <<batch, step, tasks>> /\ dispatch'.at = "idle"
    BY <1>6, EndTyped DEF IInv, Blocked, EditUnavailable, Break, EndRound, Rows
  <2>. QED BY <1>6, <2>1, EndStep DEF IInv, Sending, Agreed, StepsFollow, TasksFollow
<1>7. ASSUME \/ EndDispatch \/ Restart \/ UNCHANGED vars
             \/ \E p \in Pages : PrepareConflict(p) \/ Drift(p)
      PROVE  IInv'
  BY <1>7, QuietStep DEF IInv, Sending, Agreed, StepsFollow, TasksFollow
<1>. QED BY <1>1, <1>2, <1>3, <1>4, <1>5, <1>6, <1>7 DEF Next

LEMMA Invariance == Spec => []IInv
<1>1. Init => IInv
  BY InitTypeOK, IdleTyped DEF Init, IInv, Sending, Agreed, StepsFollow, TasksFollow
<1>2. IInv /\ [Next]_vars => IInv'
  BY EnsureStep, StepIInv
<1>. QED BY <1>1, <1>2, PTL DEF Spec

\* Every variable of the round holds what the code can put into it.
THEOREM TypeCorrect == Spec => []TypeOK
<1>1. IInv => TypeOK
  BY DEF IInv
<1>. QED BY <1>1, Invariance, PTL

\* However often the process is deployed anew between two dispatches, all images of a
\* round are made by one model in one mode, the one the batch accounts for.
\* (targets, persistedRevisionRoute, ensureGenerationBatch)
THEOREM RouteIsOne == Spec => []OneRoute
<1>1. IInv => OneRoute
  BY DEF IInv, TasksFollow, OneRoute
<1>. QED BY <1>1, Invariance, PTL

-----------------------------------------------------------------------------
(* One place for each page.  A dispatch overwrites the step of a page whose source it   *)
(* misses, so the invariant says that a page with a source never loses it.              *)

\* What the provider was asked for did not need another source, or has it.
FromAsset ==
  \A p \in Pages : step[p] # None /\ step[p].by = "PROVIDER" =>
    Asset(p) # "REUSE_ORIGINAL" /\ (NeedsAsset(p) => source[p].there)

\* What a dispatch knows of the sources is still so.
SourcesKnown ==
  dispatch.at # "idle" => dispatch.target.there = {p \in Pages : source[p].there}

PlaceInv == IInv /\ OnePlace /\ FromAsset /\ SourcesKnown

LEMMA SourcesStay ==
  ASSUME TypeOK, [Next]_vars, ~MayVanish
  PROVE  \A p \in Pages : source'[p].there = source[p].there
<1>1. ASSUME NEW p \in Pages, Drift(p) PROVE \A q \in Pages : source'[q].there = source[q].there
  <2>1. PICK wide \in BOOLEAN, there \in BOOLEAN :
          /\ there = source[p].there
          /\ source' = [source EXCEPT ![p] = [there |-> there, wide |-> wide, version |-> source[p].version + 1]]
    BY <1>1 DEF Drift, TypeOK
  <2>. QED BY <2>1 DEF TypeOK
<1>2. (\A p \in Pages : ~Drift(p)) => UNCHANGED source
  BY DEF Next, vars, Blocked, StartDispatch, EditUnavailable, Break, EnsureBatch, Submit, EndDispatch,
         EndRound, Restart, SearchWeb, RecordSourceAssetFailure, CompleteSourceAssetReuse,
         CompleteControlledRaster, Prepare, PrepareConflict, Lookup, RefreshPage, outside
<1>. QED BY <1>1, <1>2

\* A page that is had from elsewhere was not asked of the provider before.
LEMMA ElsewhereIsNew ==
  ASSUME PlaceInv, NEW p \in Pages,
         \/ SearchWeb(p) \/ RecordSourceAssetFailure(p) \/ CompleteSourceAssetReuse(p)
         \/ CompleteControlledRaster(p)
  PROVE  step'[p] = step[p] \/ (\A t \in tasks : t.page # p)
<1>1. CASE SearchWeb(p)
  BY <1>1 DEF SearchWeb, SearchFirst, PlaceInv, OnePlace
<1>2. CASE RecordSourceAssetFailure(p)
  <2>1. NeedsAsset(p) /\ ~source[p].there
    BY <1>2 DEF RecordSourceAssetFailure, MissingAsset, Turn, PlaceInv, SourcesKnown
  <2>. QED BY <2>1 DEF PlaceInv, OnePlace, FromAsset
<1>3. CASE CompleteSourceAssetReuse(p)
  BY <1>3 DEF CompleteSourceAssetReuse, PlaceInv, OnePlace, FromAsset
<1>4. CASE CompleteControlledRaster(p)
  BY <1>4 DEF CompleteControlledRaster, PlaceInv, OnePlace
<1>. QED BY <1>1, <1>2, <1>3, <1>4

LEMMA StepPlaced ==
  ASSUME PlaceInv, [Next]_vars
  PROVE  OnePlace'
<1>0. \A t \in tasks : t.page \in Pages
  BY DEF PlaceInv, IInv, TypeOK, Task
<1>1. ASSUME NEW p \in Pages,
             \/ SearchWeb(p) \/ RecordSourceAssetFailure(p) \/ CompleteSourceAssetReuse(p)
             \/ CompleteControlledRaster(p)
      PROVE  OnePlace'
  <2>1. \A t \in tasks : step'[t.page] = step[t.page]
    BY <1>0, <1>1, LocalStep, ElsewhereIsNew DEF PlaceInv, IInv
  <2>. QED BY <1>1, <2>1, LocalStep DEF PlaceInv, IInv, OnePlace
<1>2. ASSUME NEW p \in Pages, Prepare(p) PROVE OnePlace'
  <2>1. step[p] # None => /\ step[p].by = Requested(p).by /\ step[p].route = Requested(p).route
                          /\ step[p].of = Requested(p).of
    <3>1. step[p] # None => [step[p] EXCEPT !.status = "RESERVED"] = Requested(p)
      BY <1>2 DEF Prepare, SameRequest
    <3>. QED BY <3>1, StatusTyped DEF PlaceInv, IInv
  <2>2. Requested(p) # None
    BY RequestTyped, NoneAssumption DEF PlaceInv, IInv
  <2>3. step'[p] = Requested(p) /\ tasks' = tasks /\ \A q \in Pages : q # p => step'[q] = step[q]
    BY <1>2, PrepareStep DEF PlaceInv, IInv
  <2>. QED BY <1>0, <2>1, <2>2, <2>3 DEF PlaceInv, OnePlace
<1>3. ASSUME NEW p \in Pages, Lookup(p) \/ RefreshPage(p) PROVE OnePlace'
  <2>1. step'[p] # None
    BY <1>3, StatusStep, NoneAssumption DEF PlaceInv, IInv
  <2>. QED BY <1>0, <1>3, <2>1, StatusStep DEF PlaceInv, IInv, OnePlace
<1>4. ASSUME Submit PROVE OnePlace'
  <2> DEFINE p == dispatch.page
  <2>1. /\ p \in Pages /\ step[p] # None /\ step[p].by = "PROVIDER"
        /\ tasks' = tasks \/ tasks' = tasks \cup {Submission(p)}
        /\ step'[p] \in Step /\ step'[p].by = step[p].by
        /\ step'[p].route = step[p].route /\ step'[p].of = step[p].of
        /\ \A q \in Pages : q # p => step'[q] = step[q]
    BY <1>4, SubmitStep DEF PlaceInv, IInv
  <2>2. step'[p] # None
    BY <2>1, NoneAssumption
  <2>3. \A t \in tasks : t.page = p => t = Submission(p)
    BY <2>1 DEF PlaceInv, IInv, TypeOK, OnePlace, Task, Submission
  <2>4. Submission(p).page = p /\ Submission(p).route = step[p].route /\ Submission(p).of = step[p].of
    BY DEF Submission
  <2>. QED BY <1>0, <2>1, <2>2, <2>3, <2>4 DEF PlaceInv, OnePlace
<1>5. ASSUME UNCHANGED <<step, tasks>> PROVE OnePlace'
  BY <1>5 DEF PlaceInv, OnePlace
<1>6. CASE \/ EnsureBatch \/ StartDispatch \/ Blocked \/ EditUnavailable \/ Break \/ EndRound
            \/ EndDispatch \/ Restart \/ UNCHANGED vars
  BY <1>5, <1>6 DEF EnsureBatch, StartDispatch, Blocked, EditUnavailable, Break, EndRound, EndDispatch,
                    Restart, Rows, vars
<1>7. ASSUME NEW p \in Pages, PrepareConflict(p) \/ Drift(p) PROVE OnePlace'
  BY <1>5, <1>7 DEF PrepareConflict, Drift, Rows
<1>. QED BY <1>1, <1>2, <1>3, <1>4, <1>5, <1>6, <1>7 DEF Next

\* Only Prepare puts a step of the provider on record.
LEMMA StepFromAsset ==
  ASSUME PlaceInv, [Next]_vars, ~MayVanish
  PROVE  FromAsset'
<1>0. \A p \in Pages : source'[p].there = source[p].there
  BY SourcesStay DEF PlaceInv, IInv
<1>1. ASSUME NEW p \in Pages,
             \/ SearchWeb(p) \/ RecordSourceAssetFailure(p) \/ CompleteSourceAssetReuse(p)
             \/ CompleteControlledRaster(p)
      PROVE  FromAsset'
  BY <1>0, <1>1, LocalStep DEF PlaceInv, IInv, FromAsset, NeedsAsset
<1>2. ASSUME NEW p \in Pages, Prepare(p) PROVE FromAsset'
  <2>1. Asset(p) # "REUSE_ORIGINAL" /\ (NeedsAsset(p) => source[p].there)
    BY <1>2 DEF Prepare, ForProvider, Turn, MissingAsset, PlaceInv, SourcesKnown
  <2>2. \A q \in Pages : Asset(q)' = Asset(q)
    BY <1>2 DEF Prepare, Asset, V4
  <2>. QED BY <1>0, <1>2, <2>1, <2>2, PrepareStep DEF PlaceInv, IInv, FromAsset, NeedsAsset
<1>3. ASSUME NEW p \in Pages, Lookup(p) \/ RefreshPage(p) PROVE FromAsset'
  <2>1. \A q \in Pages : Asset(q)' = Asset(q)
    BY <1>3 DEF Lookup, RefreshPage, Asset, V4
  <2>. QED BY <1>0, <1>3, <2>1, StatusStep DEF PlaceInv, IInv, FromAsset, NeedsAsset
<1>4. ASSUME Submit PROVE FromAsset'
  <2> DEFINE p == dispatch.page
  <2>1. /\ step[p] # None /\ step'[p].by = step[p].by
        /\ \A q \in Pages : q # p => step'[q] = step[q]
    BY <1>4, SubmitStep DEF PlaceInv, IInv
  <2>2. \A q \in Pages : Asset(q)' = Asset(q)
    BY <1>4 DEF Submit, Asset, V4
  <2>. QED BY <1>0, <2>1, <2>2 DEF PlaceInv, FromAsset, NeedsAsset
<1>5. ASSUME UNCHANGED step, \A q \in Pages : Asset(q)' = Asset(q) PROVE FromAsset'
  BY <1>0, <1>5 DEF PlaceInv, FromAsset, NeedsAsset
<1>6. CASE Blocked \/ EditUnavailable \/ Break \/ EndRound
  BY <1>5, <1>6, EndTyped DEF PlaceInv, IInv, Blocked, EditUnavailable, Break, EndRound, Rows
<1>7. CASE EnsureBatch
  <2>1. \A q \in Pages : Asset(q)' = Asset(q)
    BY <1>7, EndTyped DEF EnsureBatch, PlaceInv, IInv, Asset, V4
  <2>. QED BY <1>5, <1>7, <2>1 DEF EnsureBatch
<1>8. CASE StartDispatch
  BY <1>5, <1>8 DEF StartDispatch, Rows, Asset, V4
<1>9. CASE \/ EndDispatch \/ Restart \/ UNCHANGED vars
           \/ \E p \in Pages : PrepareConflict(p) \/ Drift(p)
  BY <1>5, <1>9, QuietStep DEF PlaceInv, IInv
<1>. QED BY <1>1, <1>2, <1>3, <1>4, <1>6, <1>7, <1>8, <1>9 DEF Next

\* A dispatch knows its sources from the start, and they stay.
LEMMA StepSources ==
  ASSUME PlaceInv, [Next]_vars, ~MayVanish
  PROVE  SourcesKnown'
<1>0. \A p \in Pages : source'[p].there = source[p].there
  BY SourcesStay DEF PlaceInv, IInv
<1>1. ASSUME dispatch.at # "idle", dispatch'.target = dispatch.target PROVE SourcesKnown'
  BY <1>0, <1>1 DEF PlaceInv, SourcesKnown
<1>2. ASSUME dispatch'.at = "idle" \/ dispatch' = dispatch PROVE SourcesKnown'
  BY <1>0, <1>2 DEF PlaceInv, SourcesKnown
<1>3. CASE StartDispatch
  BY <1>0, <1>3, StartTyped DEF PlaceInv, IInv, SourcesKnown, Targets
<1>4. CASE EnsureBatch
  <2>1. dispatch' = [dispatch EXCEPT !.at = "pages"] => dispatch'.target = dispatch.target
    BY DEF PlaceInv, IInv, TypeOK, Dispatch
  <2>. QED BY <1>1, <1>2, <1>4, <2>1, EndTyped DEF EnsureBatch, PlaceInv, IInv
<1>5. CASE \E p \in Pages :
             \/ SearchWeb(p) \/ RecordSourceAssetFailure(p) \/ CompleteSourceAssetReuse(p)
             \/ CompleteControlledRaster(p)
  BY <1>1, <1>2, <1>5, LocalStep DEF PlaceInv, IInv
<1>6. CASE \E p \in Pages : Prepare(p) \/ Lookup(p) \/ RefreshPage(p)
  BY <1>1, <1>2, <1>6, PrepareStep, StatusStep DEF PlaceInv, IInv
<1>7. CASE Submit
  BY <1>1, <1>7, SubmitStep DEF PlaceInv, IInv
<1>8. CASE Blocked \/ EditUnavailable \/ Break \/ EndRound
  BY <1>2, <1>8, EndTyped DEF PlaceInv, IInv, Blocked, EditUnavailable, Break, EndRound
<1>9. CASE \/ EndDispatch \/ Restart \/ UNCHANGED vars
           \/ \E p \in Pages : PrepareConflict(p) \/ Drift(p)
  BY <1>1, <1>2, <1>9, QuietStep DEF PlaceInv, IInv
<1>. QED BY <1>3, <1>4, <1>5, <1>6, <1>7, <1>8, <1>9 DEF Next

\* The image of a page is asked for once and in one place, as long as the material keeps
\* the assets a blueprint refers to.  (prepare, tryCompleteWebAsset,
\* completeSourceAssetReuse, completeControlledRaster)
THEOREM PlaceIsOne ==
  ASSUME ~MayVanish
  PROVE  Spec => []OnePlace
<1>1. Init => OnePlace /\ FromAsset /\ SourcesKnown
  BY IdleTyped DEF Init, OnePlace, FromAsset, SourcesKnown
<1>2. IInv /\ OnePlace /\ FromAsset /\ SourcesKnown /\ [Next]_vars
        => OnePlace' /\ FromAsset' /\ SourcesKnown'
  BY StepPlaced, StepFromAsset, StepSources DEF PlaceInv
<1>. QED BY <1>1, <1>2, Invariance, PTL DEF Spec

-----------------------------------------------------------------------------
(* A dispatch that is repeated asks for what it has stored.  Targets are worked out from *)
(* stored rows by another build, so the invariant says what those rows have in common    *)
(* with any targets a later dispatch can arrive at while nothing was replaced (Steady).  *)

\* What a request starts from, as long as nothing has been replaced: the first version
\* of what is edited or referred to.
First(route, strategy) ==
  [p \in Pages |->
     IF \/ V4 /\ route.mode = "IMAGE_EDIT" /\ strategy[p] = "FULL_GENERATIVE"
        \/ ~V4 /\ ~Revising /\ run.asset[p] = "REFERENCE_GENERATION"
     THEN 1 ELSE 0]

\* A round that can be asked for again.
Answerable(route, strategy, of) ==
  /\ route.mode = "TEXT_TO_IMAGE" => route = Generative
  /\ route.mode = "IMAGE_EDIT" =>
       V4 /\ Revising /\ \A p \in Pages : strategy[p] = "FULL_GENERATIVE" => source[p].wide
  /\ of = First(route, strategy)

BatchSteady ==
  Stored =>
    /\ V4 /\ Answerable(batch.route, batch.strategy, batch.of)
    /\ batch.old => \A p \in Pages : batch.strategy[p] = "FULL_GENERATIVE"
    /\ (\A p \in Pages : batch.strategy[p] = "CONTROLLED_RASTER") => batch.route = Generative
TargetSteady ==
  dispatch.at # "idle" =>
    /\ Answerable(dispatch.target.route, dispatch.target.strategy, dispatch.target.of)
    /\ Stored => SameBatch(dispatch.target)
    /\ ~V4 => \A p \in Pages : ~Local(p)

\* A step of the provider was put on record with what the round asks for now; the others
\* are done with.
StepSteady(p) ==
  step[p] # None =>
    /\ V4 => Stored /\ (step[p].by = "PROVIDER" <=> batch.strategy[p] = "FULL_GENERATIVE")
    /\ step[p].by = "PROVIDER" =>
         step[p].of = IF V4 THEN batch.of[p] ELSE First(Generative, OldBatch.strategy)[p]
    /\ step[p].by # "PROVIDER" => step[p].status \in {"COMPLETED", "FAILED"}
TodoSteady ==
  /\ ~dispatch.threw
  /\ \A p \in dispatch.todo : step[p] # None => step[p].by = "PROVIDER"

Steady ==
  /\ \A p \in Pages : source[p].version = 1
  /\ BatchSteady /\ TargetSteady /\ (\A p \in Pages : StepSteady(p)) /\ TodoSteady

\* The Run does not end while a dispatch is at work.
EndsRest == run.status # "OPEN" => dispatch.at = "idle"

-----------------------------------------------------------------------------
\* A round that has ended stays as it is.
LEMMA EndedStays ==
  ASSUME EndsRest, run.status # "OPEN", [Next]_vars
  PROVE  UNCHANGED vars
<1>1. dispatch.at = "idle" /\ ~Open
  BY DEF EndsRest, Open
<1>2. \A p \in Pages :
        /\ ~SearchWeb(p) /\ ~RecordSourceAssetFailure(p) /\ ~CompleteSourceAssetReuse(p)
        /\ ~CompleteControlledRaster(p) /\ ~Prepare(p) /\ ~PrepareConflict(p) /\ ~Lookup(p)
        /\ ~RefreshPage(p) /\ ~Drift(p)
  BY <1>1 DEF SearchWeb, RecordSourceAssetFailure, CompleteSourceAssetReuse, CompleteControlledRaster,
              Prepare, PrepareConflict, Lookup, RefreshPage, Drift, ForProvider, Turn, Refreshes
<1>3. /\ ~Blocked /\ ~StartDispatch /\ ~EditUnavailable /\ ~Break /\ ~EnsureBatch
      /\ ~Submit /\ ~EndDispatch /\ ~EndRound /\ ~Restart
  BY <1>1 DEF Blocked, StartDispatch, EditUnavailable, Break, EnsureBatch, Submit, EndDispatch,
              EndRound, Restart, Refreshes
<1>. QED BY <1>2, <1>3 DEF Next

LEMMA DoneKeeps ==
  ASSUME TypeOK, NEW p \in Pages, Done(p)
  PROVE  /\ dispatch'.at = "pages" /\ dispatch'.target = dispatch.target
         /\ dispatch'.threw = dispatch.threw /\ dispatch'.todo = dispatch.todo \ {p}
<1>1. dispatch \in Dispatch
  BY DEF TypeOK
<1>. QED BY <1>1 DEF Done, Dispatch

LEMMA IdleQuiet == Idle.at = "idle" /\ ~Idle.threw /\ Idle.todo = {}
BY DEF Idle

LEMMA FirstIs ==
  ASSUME NEW route, NEW strategy, NEW p \in Pages
  PROVE  First(route, strategy)[p] = IF \/ V4 /\ route.mode = "IMAGE_EDIT" /\ strategy[p] = "FULL_GENERATIVE"
                                        \/ ~V4 /\ ~Revising /\ run.asset[p] = "REFERENCE_GENERATION"
                                     THEN 1 ELSE 0
BY DEF First

LEMMA FirstAlike ==
  ASSUME NEW r, NEW s, NEW r2, NEW s2, \A p \in Pages : First(r, s)[p] = First(r2, s2)[p]
  PROVE  First(r, s) = First(r2, s2)
BY DEF First

-----------------------------------------------------------------------------
(* The targets of the next dispatch. *)

\* The steps on record agree on one route.
LEMMA RoutesAgree ==
  ASSUME IInv
  PROVE  /\ ~RouteConflict
         /\ Edited # {} => /\ V4 /\ Stored /\ PersistedRoute = batch.route
                           /\ PersistedRoute.mode = "IMAGE_EDIT"
         /\ Edited = {} /\ Submitted("TEXT_TO_IMAGE") # {} =>
              /\ PersistedRoute = Generative
              /\ V4 => Stored /\ batch.route.mode = "TEXT_TO_IMAGE"
<1>1. \A p \in Edited : /\ V4 /\ Stored /\ step[p].route = batch.route
                        /\ step[p].route.mode = "IMAGE_EDIT"
  BY DEF IInv, StepsFollow, Edited, Submitted, Generative
<1>2. \A p \in Submitted("TEXT_TO_IMAGE") : /\ step[p].route.mode = "TEXT_TO_IMAGE"
                                            /\ V4 => Stored /\ step[p].route = batch.route
  BY DEF IInv, StepsFollow, Submitted
<1>3. ~RouteConflict
  BY <1>1, <1>2 DEF RouteConflict
<1>4. Edited # {} => (CHOOSE p \in Edited : TRUE) \in Edited
  OBVIOUS
<1>. QED BY <1>1, <1>2, <1>3, <1>4 DEF PersistedRoute

\* The route of the next dispatch is the one of the batch, or the first of the round.
LEMMA RouteSettled ==
  ASSUME IInv, BatchSteady
  PROVE  /\ Stored => TargetRoute = batch.route
         /\ TargetRoute.mode = "TEXT_TO_IMAGE" => TargetRoute = Generative
         /\ TargetRoute.mode = "IMAGE_EDIT" =>
              /\ V4 /\ Revising
              /\ ~Stored /\ (\A p \in Pages : step[p] = None) => \A p \in Generated : source[p].wide
<1>0. None \notin Route /\ Generative \in Route /\ Generative.mode = "TEXT_TO_IMAGE"
  BY NoneAssumption DEF Generative, Route
<1>1. Stored => /\ V4 /\ batch.route \in Route
                /\ batch.route.mode = "TEXT_TO_IMAGE" => batch.route = Generative
                /\ batch.route.mode = "IMAGE_EDIT" => Revising
                /\ batch.route.mode \in {"TEXT_TO_IMAGE", "IMAGE_EDIT"}
  BY DEF BatchSteady, Answerable, IInv, TypeOK, Batch, Route
<1>2. CASE ~(V4 /\ Revising)
  BY <1>0, <1>1, <1>2 DEF TargetRoute, RoundRoute
<1>3. CASE V4 /\ Revising
  <2>1. Stored => PersistedRoute = batch.route
    BY <1>1, RoutesAgree DEF PersistedRoute
  <2>2. Stored => TargetRoute = batch.route
    BY <1>0, <1>1, <1>3, <2>1 DEF TargetRoute, RoundRoute, RevisionRoute
  <2>3. PersistedRoute # None /\ PersistedRoute.mode = "TEXT_TO_IMAGE" => PersistedRoute = Generative
    <3>1. EditModel # None => [model |-> EditModel, mode |-> "IMAGE_EDIT"].mode = "IMAGE_EDIT"
      OBVIOUS
    <3>. QED BY <1>1, <3>1, RoutesAgree DEF PersistedRoute
  <2>4. TargetRoute = IF PersistedRoute = None THEN Generative
                      ELSE IF /\ PersistedRoute.mode = "IMAGE_EDIT"
                              /\ ~Stored /\ \A p \in Pages : step[p] = None
                              /\ \E p \in Generated : ~source[p].wide
                           THEN Generative ELSE PersistedRoute
    BY <1>0, <1>3 DEF TargetRoute, RoundRoute, RevisionRoute
  <2>. QED BY <1>0, <1>3, <2>2, <2>3, <2>4
<1>. QED BY <1>2, <1>3

\* A page is drawn or generated as it was stored, or the build cannot draw it.
LEMMA StrategyKept ==
  ASSUME BatchSteady, Stored, ~StrategyBroken, IInv, NEW p \in Pages
  PROVE  Strategy(p) = batch.strategy[p]
<1>1. V4 /\ batch.strategy[p] \in Strategies
  BY DEF BatchSteady, IInv, TypeOK, Batch
<1>. QED BY <1>1 DEF StrategyBroken, Strategy, BatchSteady, Strategies

\* What an edit starts from is still there, in its frame and in its version.
LEMMA SourcesHold ==
  ASSUME IInv, Steady, ~StrategyBroken, V4, Revising
  PROVE  ~SourceBroken(TargetRoute)
<1> SUFFICES ASSUME TargetRoute.mode = "IMAGE_EDIT", NEW p \in Generated
             PROVE  source[p].wide /\ (step[p] # None => step[p].of = source[p].version)
  BY DEF SourceBroken
<1>0. p \in Pages /\ source[p].version = 1 /\ Strategy(p) = "FULL_GENERATIVE"
  BY DEF Generated, Steady
<1>1. CASE Stored
  <2>1. TargetRoute = batch.route
    BY <1>1, RouteSettled DEF Steady
  <2>2. batch.strategy[p] = "FULL_GENERATIVE"
    BY <1>0, <1>1, StrategyKept DEF Steady
  <2>3. source[p].wide /\ batch.of = First(batch.route, batch.strategy)
    BY <1>0, <1>1, <2>1, <2>2 DEF Steady, BatchSteady, Answerable
  <2>4. batch.of[p] = 1
    BY <1>0, <2>1, <2>2, <2>3, FirstIs
  <2>5. step[p] # None => step[p].of = batch.of[p]
    BY <1>0, <1>1, <2>2 DEF Steady, StepSteady
  <2>. QED BY <1>0, <2>3, <2>4, <2>5
<1>2. CASE ~Stored
  <2>1. \A q \in Pages : step[q] = None
    BY <1>2 DEF Steady, StepSteady
  <2>. QED BY <1>0, <1>2, <2>1, RouteSettled DEF Steady
<1>. QED BY <1>1, <1>2

\* So a dispatch that can be asked for asks for the batch that is stored.
LEMMA TargetsAnswer ==
  ASSUME IInv, Steady, StartDispatch, NEW t, t = Targets(TargetRoute)
  PROVE  /\ Answerable(t.route, t.strategy, t.of)
         /\ Stored => SameBatch(t)
         /\ ~V4 => \A p \in Pages : t.strategy[p] = "FULL_GENERATIVE"
<1>0. /\ t.route = TargetRoute /\ t.strategy = [p \in Pages |-> Strategy(p)]
      /\ t.of = [p \in Pages |-> StartsFrom(p, TargetRoute)]
  BY DEF Targets
<1>1. ~StrategyBroken /\ (V4 /\ Revising => ~SourceBroken(TargetRoute))
  BY DEF StartDispatch, Throws
<1>2. t.of = First(t.route, t.strategy)
  <2>1. \A p \in Pages : StartsFrom(p, TargetRoute) = First(t.route, t.strategy)[p]
    BY <1>0, FirstIs DEF StartsFrom, Steady
  <2>. QED BY <1>0, <2>1 DEF First
<1>3. t.route.mode = "IMAGE_EDIT" => V4 /\ Revising /\ \A p \in Pages : t.strategy[p] = "FULL_GENERATIVE" => source[p].wide
  BY <1>0, <1>1, RouteSettled DEF Steady, SourceBroken, Generated
<1>4. Answerable(t.route, t.strategy, t.of)
  BY <1>0, <1>2, <1>3, RouteSettled DEF Answerable, Steady
<1>5. ASSUME Stored PROVE SameBatch(t)
  <2>1. batch.route = t.route
    BY <1>0, <1>5, RouteSettled DEF Steady
  <2>2. batch.strategy = t.strategy
    <3>1. batch.strategy \in [Pages -> Strategies]
      BY <1>5 DEF IInv, TypeOK, Batch
    <3>. QED BY <1>0, <1>1, <1>5, <3>1, StrategyKept DEF Steady
  <2>3. batch.of = t.of
    BY <1>2, <1>5, <2>1, <2>2 DEF Steady, BatchSteady, Answerable
  <2>4. batch.route = BatchRoute(t)
    BY <1>5, <2>1, <2>2 DEF BatchRoute, Steady, BatchSteady
  <2>. QED BY <2>2, <2>3, <2>4 DEF SameBatch
<1>6. ~V4 => \A p \in Pages : t.strategy[p] = "FULL_GENERATIVE"
  BY <1>0 DEF Strategy, Resolved
<1>. QED BY <1>4, <1>5, <1>6

\* A page that is sent again is sent with what is on record.
LEMMA RequestKept ==
  ASSUME IInv, Steady, NEW p \in Pages, ForProvider(p)
  PROVE  /\ V4 => Stored /\ dispatch.target.of[p] = batch.of[p] /\ batch.strategy[p] = "FULL_GENERATIVE"
         /\ ~V4 => dispatch.target.of[p] = First(Generative, OldBatch.strategy)[p]
         /\ step[p] # None => SameRequest(p)
<1>0. dispatch.at = "pages" /\ p \in dispatch.todo /\ ~Local(p)
  BY DEF ForProvider, Turn
<1>1. ASSUME V4 PROVE Stored /\ dispatch.target.of[p] = batch.of[p] /\ batch.strategy[p] = "FULL_GENERATIVE"
  <2>1. Stored /\ SameBatch(dispatch.target)
    BY <1>0, <1>1 DEF IInv, Agreed, Steady, TargetSteady
  <2>2. batch.strategy[p] \in Strategies
    BY <2>1 DEF IInv, TypeOK, Batch
  <2>. QED BY <1>0, <2>1, <2>2 DEF SameBatch, Strategies
<1>2. ASSUME ~V4 PROVE dispatch.target.of[p] = First(Generative, OldBatch.strategy)[p]
  <2>1. dispatch.target.of = First(dispatch.target.route, dispatch.target.strategy)
    BY <1>0 DEF Steady, TargetSteady, Answerable
  <2>. QED BY <1>2, <2>1, FirstIs
<1>3. ASSUME step[p] # None PROVE SameRequest(p)
  <2>1. step[p].by = "PROVIDER"
    BY <1>0, <1>3 DEF Steady, TodoSteady
  <2>2. step[p].of = dispatch.target.of[p]
    BY <1>1, <1>2, <1>3, <2>1 DEF Steady, StepSteady
  <2>3. step[p].route = dispatch.target.route
    BY <1>0, <1>3, <2>1 DEF IInv, Agreed, StepsFollow
  <2>4. step[p] \in Step
    BY <1>3 DEF IInv, TypeOK
  <2>. QED BY <2>1, <2>2, <2>3, <2>4 DEF SameRequest, Requested, Step
<1>. QED BY <1>1, <1>2, <1>3

-----------------------------------------------------------------------------
(* The steps of the round keep all that while nothing is replaced. *)

LEMMA EndIs ==
  ASSUME TypeOK, NEW status, Ends(status)
  PROVE  /\ run'.status = status /\ run'.kind = run.kind /\ run'.scope = run.scope
         /\ run'.asset = run.asset
         /\ dispatch'.at = "idle" /\ ~dispatch'.threw /\ dispatch'.todo = {}
<1>1. run \in Runs /\ run' = [run EXCEPT !.status = status] /\ dispatch' = Idle
  BY DEF TypeOK, Ends
<1>. QED BY <1>1, IdleQuiet DEF Runs

\* What is not touched stays steady.
LEMMA SteadyKept ==
  ASSUME Steady, run'.kind = run.kind, run'.scope = run.scope, run'.asset = run.asset,
         UNCHANGED <<source, batch>>,
         dispatch'.at # "idle" => dispatch.at # "idle" /\ dispatch'.target = dispatch.target
  PROVE  /\ \A p \in Pages : source'[p].version = 1
         /\ BatchSteady' /\ TargetSteady'
         /\ \A p \in Pages : step'[p] = step[p] => StepSteady(p)'
<1>1. V4' = V4 /\ Revising' = Revising
  BY DEF V4, Revising
<1>2. First(batch.route, batch.strategy)' = First(batch.route, batch.strategy)
  BY <1>1 DEF First
<1>3. BatchSteady'
  BY <1>1, <1>2 DEF Steady, BatchSteady, Answerable
<1>4. dispatch'.at # "idle" =>
        First(dispatch.target.route, dispatch.target.strategy)' = First(dispatch.target.route, dispatch.target.strategy)
  BY <1>1 DEF First
<1>5. TargetSteady'
  BY <1>1, <1>4 DEF Steady, TargetSteady, Answerable, SameBatch, BatchRoute
<1>6. First(Generative, OldBatch.strategy)' = First(Generative, OldBatch.strategy)
  BY <1>1 DEF First
<1>7. ASSUME NEW p \in Pages, step'[p] = step[p] PROVE StepSteady(p)'
  BY <1>1, <1>6, <1>7 DEF Steady, StepSteady
<1>. QED BY <1>3, <1>5, <1>7 DEF Steady

\* A step that is steady stays so when only its status changes, if the provider has it.
LEMMA StepKept ==
  ASSUME Steady, run'.kind = run.kind, run'.scope = run.scope, run'.asset = run.asset, batch' = batch,
         NEW p \in Pages, step[p] # None, step[p].by = "PROVIDER",
         step'[p].by = step[p].by, step'[p].of = step[p].of
  PROVE  StepSteady(p)'
<1>1. V4' = V4 /\ Revising' = Revising
  BY DEF V4, Revising
<1>2. First(Generative, OldBatch.strategy)' = First(Generative, OldBatch.strategy)
  BY <1>1 DEF First
<1>. QED BY <1>1, <1>2 DEF Steady, StepSteady

LEMMA LocalSteady ==
  ASSUME IInv, Steady, NEW p \in Pages,
         \/ SearchWeb(p) \/ RecordSourceAssetFailure(p) \/ CompleteSourceAssetReuse(p)
         \/ CompleteControlledRaster(p)
  PROVE  Steady' /\ run' = run
<1>0. TypeOK /\ dispatch \in Dispatch
  BY DEF IInv, TypeOK
<1>1. ASSUME NEW by \in {"LOCAL", "WEB", "SOURCE", "NOBODY"}, NEW status \in {"COMPLETED", "FAILED"},
             PutStep(p, Obtained(by, status)), run' = run, UNCHANGED <<batch, outside>>,
             V4 => by = "LOCAL" /\ Stored /\ batch.strategy[p] = "CONTROLLED_RASTER",
             Done(p) \/ dispatch' = Idle, dispatch.at = "pages"
      PROVE  Steady'
  <2>1. Obtained(by, status).by = by /\ Obtained(by, status).status = status /\ Obtained(by, status) \in Step
    BY ObtainedTyped DEF Obtained
  <2>2. step'[p] = Obtained(by, status) /\ \A q \in Pages : q # p => step'[q] = step[q]
    BY <1>0, <1>1, <2>1, PutTyped
  <2>3. \/ /\ dispatch'.at = "pages" /\ dispatch'.target = dispatch.target
           /\ dispatch'.threw = dispatch.threw /\ dispatch'.todo = dispatch.todo \ {p}
        \/ dispatch'.at = "idle" /\ ~dispatch'.threw /\ dispatch'.todo = {}
    BY <1>0, <1>1, DoneKeeps, IdleQuiet
  <2>4. /\ \A q \in Pages : source'[q].version = 1
        /\ BatchSteady' /\ TargetSteady'
        /\ \A q \in Pages : step'[q] = step[q] => StepSteady(q)'
    BY <1>1, <2>3, SteadyKept DEF outside
  <2>5. StepSteady(p)'
    BY <1>1, <2>1, <2>2 DEF StepSteady, V4
  <2>6. \A q \in Pages : StepSteady(q)'
    BY <2>2, <2>4, <2>5
  <2>7. dispatch.todo \subseteq Pages
    BY <1>0 DEF Dispatch
  <2>8. TodoSteady'
    BY <2>2, <2>3, <2>7 DEF Steady, TodoSteady
  <2>. QED BY <2>4, <2>6, <2>8 DEF Steady
<1>2. CASE SearchWeb(p)
  <2>1. ~V4 /\ UNCHANGED <<run, batch, outside>> /\ dispatch.at = "pages"
    BY <1>2 DEF SearchWeb
  <2>2. CASE PutStep(p, Obtained("WEB", "COMPLETED")) /\ Done(p)
    BY <1>1, <2>1, <2>2
  <2>3. CASE dispatch' = [dispatch EXCEPT !.searched = @ \cup {p}] /\ UNCHANGED step
    <3>1. /\ dispatch'.at = dispatch.at /\ dispatch'.target = dispatch.target
          /\ dispatch'.threw = dispatch.threw /\ dispatch'.todo = dispatch.todo
      BY <1>0, <2>3 DEF Dispatch
    <3>. QED BY <2>1, <2>3, <3>1, SteadyKept DEF outside, Steady, TodoSteady
  <2>. QED BY <1>2, <2>1, <2>2, <2>3 DEF SearchWeb
<1>3. CASE RecordSourceAssetFailure(p)
  BY <1>1, <1>3 DEF RecordSourceAssetFailure, Turn, MissingAsset, NeedsAsset, Asset
<1>4. CASE CompleteSourceAssetReuse(p)
  BY <1>1, <1>4 DEF CompleteSourceAssetReuse, Turn, Asset
<1>5. CASE CompleteControlledRaster(p)
  <2>1. dispatch.at = "pages" /\ p \in dispatch.todo /\ Local(p)
    BY <1>5 DEF CompleteControlledRaster, Turn
  <2>2. V4 /\ Stored /\ batch.strategy[p] = "CONTROLLED_RASTER"
    BY <2>1 DEF IInv, Agreed, Steady, TargetSteady, SameBatch
  <2>3. step[p] = None
    BY <2>1, <2>2 DEF Steady, TodoSteady, StepSteady
  <2>4. /\ RasterDrawn(p) \/ PersistControlledRasterFailure(p)
        /\ Done(p) /\ run' = run /\ UNCHANGED <<batch, outside>>
    BY <1>5, <2>3 DEF CompleteControlledRaster
  <2>. QED BY <1>1, <2>1, <2>2, <2>4 DEF RasterDrawn, PersistControlledRasterFailure
<1>. QED BY <1>2, <1>3, <1>4, <1>5
       DEF SearchWeb, RecordSourceAssetFailure, CompleteSourceAssetReuse

LEMMA ProviderSteady ==
  ASSUME IInv, Steady,
         Submit \/ \E p \in Pages : Prepare(p) \/ Lookup(p) \/ RefreshPage(p)
  PROVE  Steady' /\ run' = run
<1>0. TypeOK /\ dispatch \in Dispatch /\ dispatch.todo \subseteq Pages
  BY DEF IInv, TypeOK, Dispatch
<1>1. ASSUME NEW p \in Pages, run' = run, UNCHANGED <<batch, outside>>, StepSteady(p)', step'[p].by = "PROVIDER",
             \A q \in Pages : q # p => step'[q] = step[q],
             dispatch'.at # "idle" => dispatch.at # "idle" /\ dispatch'.target = dispatch.target,
             dispatch'.threw = dispatch.threw, dispatch'.todo \subseteq dispatch.todo
      PROVE  Steady'
  <2>1. /\ \A q \in Pages : source'[q].version = 1
        /\ BatchSteady' /\ TargetSteady'
        /\ \A q \in Pages : step'[q] = step[q] => StepSteady(q)'
    BY <1>1, SteadyKept DEF outside
  <2>2. \A q \in Pages : StepSteady(q)'
    BY <1>1, <2>1
  <2>3. TodoSteady'
    BY <1>0, <1>1 DEF Steady, TodoSteady
  <2>. QED BY <2>1, <2>2, <2>3 DEF Steady
<1>2. ASSUME Submit PROVE Steady' /\ run' = run
  <2>0. PICK p : p = dispatch.page
    OBVIOUS
  <2>1. /\ UNCHANGED <<run, batch, outside>>
        /\ dispatch.at = "send" /\ dispatch'.at = "pages" /\ dispatch'.target = dispatch.target
        /\ p \in Pages /\ step[p] # None /\ step[p].by = "PROVIDER"
        /\ step'[p].by = step[p].by /\ step'[p].of = step[p].of
        /\ \A q \in Pages : q # p => step'[q] = step[q]
    BY <1>2, <2>0, SubmitStep DEF IInv
  <2>2. Done(p)
    BY <1>2, <2>0 DEF Submit
  <2>3. dispatch'.threw = dispatch.threw /\ dispatch'.todo \subseteq dispatch.todo
    BY <1>0, <2>1, <2>2, DoneKeeps
  <2>4. StepSteady(p)'
    BY <2>1, StepKept
  <2>. QED BY <1>1, <2>1, <2>3, <2>4
<1>3. ASSUME NEW p \in Pages, Lookup(p) \/ RefreshPage(p) PROVE Steady' /\ run' = run
  <2>1. /\ UNCHANGED <<run, batch, outside>>
        /\ \/ dispatch' = dispatch
           \/ dispatch.at = "pages" /\ dispatch'.at = "pages" /\ dispatch'.target = dispatch.target
        /\ step[p] # None /\ step'[p].by = step[p].by /\ step'[p].of = step[p].of
        /\ \A q \in Pages : q # p => step'[q] = step[q]
    BY <1>0, <1>3, StatusStep
  <2>2. step[p].by = "PROVIDER"
    <3>1. CASE Lookup(p)
      BY <2>1, <3>1 DEF Lookup, ForProvider, Turn, Steady, TodoSteady
    <3>2. CASE RefreshPage(p)
      BY <2>1, <3>2 DEF RefreshPage, Steady, StepSteady
    <3>. QED BY <1>3, <3>1, <3>2
  <2>3. StepSteady(p)'
    BY <2>1, <2>2, StepKept
  <2>4. dispatch'.threw = dispatch.threw /\ dispatch'.todo \subseteq dispatch.todo
    BY <1>0, <1>3, DoneKeeps DEF Lookup, RefreshPage
  <2>. QED BY <1>1, <2>1, <2>2, <2>3, <2>4
<1>4. ASSUME NEW p \in Pages, Prepare(p) PROVE Steady' /\ run' = run
  <2>1. /\ UNCHANGED <<run, batch, outside>>
        /\ dispatch.at = "pages"
        /\ dispatch'.at = "send" /\ dispatch'.target = dispatch.target
        /\ step'[p] = Requested(p) /\ \A q \in Pages : q # p => step'[q] = step[q]
    BY <1>0, <1>4, PrepareStep
  <2>2. Requested(p).by = "PROVIDER" /\ Requested(p).of = dispatch.target.of[p]
    BY DEF Requested
  <2>3. /\ V4 => Stored /\ dispatch.target.of[p] = batch.of[p] /\ batch.strategy[p] = "FULL_GENERATIVE"
        /\ ~V4 => dispatch.target.of[p] = First(Generative, OldBatch.strategy)[p]
    BY <1>4, RequestKept DEF Prepare
  <2>4. V4' = V4 /\ First(Generative, OldBatch.strategy)' = First(Generative, OldBatch.strategy)
    BY <2>1 DEF V4, Revising, First
  <2>5. StepSteady(p)'
    BY <2>1, <2>2, <2>3, <2>4 DEF StepSteady
  <2>6. dispatch'.threw = dispatch.threw /\ dispatch'.todo = dispatch.todo
    BY <1>0, <1>4 DEF Prepare, Dispatch
  <2>. QED BY <1>1, <2>1, <2>2, <2>5, <2>6
<1>. QED BY <1>2, <1>3, <1>4

LEMMA StartSteady ==
  ASSUME IInv, Steady, StartDispatch
  PROVE  Steady' /\ run' = run
<1> DEFINE t == Targets(TargetRoute)
<1>1. /\ UNCHANGED <<run, batch, step, source>> /\ dispatch'.target = t
      /\ ~dispatch'.threw /\ dispatch'.todo = Pending
  <2>1. dispatch' = [Idle EXCEPT !.at = IF V4 THEN "batch" ELSE "pages", !.target = t, !.todo = Pending]
    BY DEF StartDispatch
  <2>. QED BY <2>1 DEF StartDispatch, Idle, Rows, outside
<1>2. /\ Answerable(t.route, t.strategy, t.of)
      /\ Stored => SameBatch(t)
      /\ ~V4 => \A p \in Pages : t.strategy[p] = "FULL_GENERATIVE"
  BY TargetsAnswer
<1> HIDE DEF t
<1>3. V4' = V4 /\ Revising' = Revising
  BY <1>1 DEF V4, Revising
<1>4. TargetSteady'
  <2>1. First(dispatch.target.route, dispatch.target.strategy)' = First(t.route, t.strategy)
    BY <1>1, <1>3 DEF First
  <2>. QED BY <1>1, <1>2, <1>3, <2>1 DEF TargetSteady, Answerable, SameBatch, BatchRoute
<1>5. BatchSteady'
  <2>1. First(batch.route, batch.strategy)' = First(batch.route, batch.strategy)
    BY <1>1, <1>3 DEF First
  <2>. QED BY <1>1, <1>3, <2>1 DEF Steady, BatchSteady, Answerable
<1>6. \A p \in Pages : StepSteady(p)'
  <2>1. First(Generative, OldBatch.strategy)' = First(Generative, OldBatch.strategy)
    BY <1>1, <1>3 DEF First
  <2>. QED BY <1>1, <1>3, <2>1 DEF Steady, StepSteady
<1>7. TodoSteady'
  BY <1>1 DEF TodoSteady, Pending, Steady, StepSteady
<1>. QED BY <1>1, <1>4, <1>5, <1>6, <1>7 DEF Steady

LEMMA EnsureSteady ==
  ASSUME IInv, Steady, EnsureBatch
  PROVE  Steady' /\ run' = run
<1> DEFINE t == dispatch.target
           new == [route |-> BatchRoute(t), old |-> FALSE, strategy |-> t.strategy, of |-> t.of]
<1>0. /\ dispatch.at = "batch" /\ V4 /\ dispatch \in Dispatch /\ t \in Target
      /\ Answerable(t.route, t.strategy, t.of) /\ (Stored => SameBatch(t))
  BY DEF EnsureBatch, IInv, Agreed, Steady, TargetSteady, TypeOK, Dispatch
<1>1. /\ batch' = IF Stored THEN batch ELSE new
      /\ dispatch' = [dispatch EXCEPT !.at = "pages"] /\ UNCHANGED <<run, step, source>>
  BY <1>0 DEF EnsureBatch, outside
<1>2. /\ dispatch'.at = "pages" /\ dispatch'.target = t
      /\ dispatch'.threw = dispatch.threw /\ dispatch'.todo = dispatch.todo
  BY <1>0, <1>1 DEF Dispatch
<1>3. CASE Stored
  <2>1. TodoSteady'
    BY <1>1, <1>2 DEF Steady, TodoSteady
  <2>. QED BY <1>0, <1>1, <1>2, <1>3, <2>1, SteadyKept DEF Steady
<1>4. CASE ~Stored
  <2>1. /\ batch' = new /\ new.route = BatchRoute(t) /\ new.strategy = t.strategy /\ new.of = t.of
        /\ ~new.old
    BY <1>1, <1>4
  <2>2. new # None
    <3>1. BatchRoute(t) \in Route
      BY <1>0 DEF BatchRoute, Target, Generative, Route
    <3>2. new \in Batch
      BY <1>0, <3>1 DEF Batch, Target
    <3>. QED BY <3>2, NoneAssumption
  <2>3. \A p \in Pages : step[p] = None
    BY <1>0, <1>4 DEF Steady, StepSteady
  <2>4. V4' = V4 /\ Revising' = Revising
    BY <1>1 DEF V4, Revising
  <2>5. First(t.route, t.strategy)' = First(t.route, t.strategy)
    BY <1>1, <1>2, <2>4 DEF First
  <2>6. First(BatchRoute(t), t.strategy) = First(t.route, t.strategy)
    <3>1. ASSUME NEW p \in Pages
          PROVE  First(BatchRoute(t), t.strategy)[p] = First(t.route, t.strategy)[p]
      BY <1>0, FirstIs DEF BatchRoute
    <3>. QED BY <3>1, FirstAlike
  <2>7. First(batch.route, batch.strategy)' = First(BatchRoute(t), t.strategy)
    <3>1. batch'.route = BatchRoute(t) /\ batch'.strategy = t.strategy
      BY <2>1
    <3>. QED BY <1>1, <2>4, <3>1 DEF First
  <2>8. /\ BatchRoute(t).mode = "TEXT_TO_IMAGE" => BatchRoute(t) = Generative
        /\ BatchRoute(t).mode = "IMAGE_EDIT" => BatchRoute(t) = t.route
    BY <1>0 DEF BatchRoute, Answerable, Generative
  <2>9. (\A p \in Pages : t.strategy[p] = "CONTROLLED_RASTER") => BatchRoute(t) = Generative
    BY DEF BatchRoute
  <2> HIDE DEF new
  <2>10. BatchSteady'
    BY <1>0, <1>1, <2>1, <2>2, <2>4, <2>6, <2>7, <2>8, <2>9 DEF BatchSteady, Answerable
  <2>11. SameBatch(dispatch.target)'
    BY <1>2, <2>1 DEF SameBatch, BatchRoute
  <2>12. TargetSteady'
    BY <1>0, <1>1, <1>2, <2>4, <2>5, <2>11 DEF TargetSteady, Answerable
  <2>13. (\A p \in Pages : StepSteady(p)') /\ TodoSteady'
    BY <1>1, <1>2, <2>3 DEF StepSteady, TodoSteady, Steady
  <2>. QED BY <1>1, <2>10, <2>12, <2>13 DEF Steady
<1>. QED BY <1>1, <1>3, <1>4

LEMMA QuietSteady ==
  ASSUME IInv, Steady,
         \/ Blocked \/ EditUnavailable \/ Break \/ EndRound \/ EndDispatch \/ Restart \/ UNCHANGED vars
         \/ \E p \in Pages : PrepareConflict(p)
  PROVE  /\ Steady'
         /\ EndDispatch => run' = run
         /\ \A p \in Pages : ~PrepareConflict(p)
<1>0. TypeOK /\ ~dispatch.threw
  BY DEF IInv, Steady, TodoSteady
<1>1. \A p \in Pages : ~PrepareConflict(p)
  BY RequestKept DEF PrepareConflict
<1>2. ASSUME run'.kind = run.kind, run'.scope = run.scope, run'.asset = run.asset,
             UNCHANGED <<source, batch, step>>, dispatch'.at = "idle", ~dispatch'.threw, dispatch'.todo = {}
      PROVE  Steady'
  BY <1>2, SteadyKept DEF Steady, TodoSteady
<1>3. ASSUME Blocked \/ EditUnavailable \/ Break \/ EndRound PROVE Steady'
  <2>1. \E status : Ends(status)
    BY <1>3 DEF Blocked, EditUnavailable, Break, EndRound
  <2>2. UNCHANGED <<source, batch, step>>
    BY <1>3 DEF Blocked, EditUnavailable, Break, EndRound, Rows, outside
  <2>. QED BY <1>0, <1>2, <2>1, <2>2, EndIs
<1>4. ASSUME EndDispatch \/ Restart PROVE Steady'
  <2>1. UNCHANGED <<run, source, batch, step>> /\ dispatch' = Idle
    BY <1>0, <1>4 DEF EndDispatch, Restart, Rows, outside
  <2>. QED BY <1>2, <2>1, IdleQuiet
<1>5. ASSUME UNCHANGED vars PROVE Steady'
  <2>1. UNCHANGED <<run, source, batch, step, dispatch>>
    BY <1>5 DEF vars
  <2>2. /\ \A p \in Pages : source'[p].version = 1
        /\ BatchSteady' /\ TargetSteady' /\ \A p \in Pages : StepSteady(p)'
    BY <2>1, SteadyKept
  <2>3. TodoSteady'
    BY <2>1 DEF Steady, TodoSteady
  <2>. QED BY <2>2, <2>3 DEF Steady
<1>6. EndDispatch => run' = run
  BY <1>0 DEF EndDispatch
<1>. QED BY <1>1, <1>3, <1>4, <1>5, <1>6

-----------------------------------------------------------------------------
\* While nothing is replaced, the rows stay steady.
LEMMA StepSteadies ==
  ASSUME IInv, drifts = 0 => Steady, [Next]_vars, drifts' = 0
  PROVE  drifts = 0 /\ Steady'
<1>1. \A p \in Pages : ~Drift(p)
  BY DEF Drift, IInv, TypeOK
<1>2. drifts = 0
  <2>1. CASE UNCHANGED drifts
    BY <2>1
  <2>2. CASE ~UNCHANGED drifts
    BY <1>1, <2>2 DEF Next, vars, outside, Blocked, StartDispatch, EditUnavailable, Break, EnsureBatch,
       Submit, EndDispatch, EndRound, Restart, SearchWeb, RecordSourceAssetFailure,
       CompleteSourceAssetReuse, CompleteControlledRaster, Prepare, PrepareConflict, Lookup, RefreshPage
  <2>. QED BY <2>1, <2>2
<1>3. Steady
  BY <1>2
<1>. QED BY <1>1, <1>2, <1>3, LocalSteady, ProviderSteady, StartSteady, EnsureSteady, QuietSteady DEF Next

\* A Run without an edit model has stored and sent nothing.
LEMMA UnavailableIsFree ==
  ASSUME IInv, Unavailable
  PROVE  tasks = {} /\ ~Stored
<1>0. None \notin Route /\ Generative \in Route
  BY NoneAssumption DEF Generative, Route
<1>1. V4 /\ PersistedRoute = None
  BY <1>0 DEF Unavailable, RoundRoute, RevisionRoute
<1>2. ~Stored
  <2> SUFFICES ASSUME Stored PROVE FALSE
    OBVIOUS
  <2>1. batch.route \in Route
    BY DEF IInv, TypeOK, Batch
  <2>2. PersistedRoute \in Route
    BY <1>0, <2>1, RoutesAgree DEF PersistedRoute
  <2>. QED BY <1>0, <1>1, <2>2
<1>. QED BY <1>1, <1>2 DEF IInv, TasksFollow

\* How a round can end.
LEMMA StepEnds ==
  ASSUME IInv, EndsRest, drifts = 0 => Steady, ReplaysAgree, [Next]_vars
  PROVE  EndsRest' /\ ReplaysAgree'
<1>0. TypeOK /\ run \in Runs
  BY DEF IInv, TypeOK
<1>a. CASE run.status # "OPEN"
  <2>1. UNCHANGED vars
    BY <1>a, EndedStays
  <2>. QED BY <2>1 DEF vars, EndsRest, ReplaysAgree, StrategyBroken, Strategy, Resolved, V4
<1>b. CASE run.status = "OPEN"
  <2>1. ASSUME run'.status = "OPEN" PROVE EndsRest' /\ ReplaysAgree'
    BY <2>1 DEF EndsRest, ReplaysAgree
  <2>2. CASE Blocked \/ EndRound
    <3>1. Ends("NEEDS_HUMAN") \/ Ends("PAGE_REVIEW")
      BY <2>2 DEF Blocked, EndRound
    <3>. QED BY <1>0, <3>1, EndIs DEF EndsRest, ReplaysAgree
  <2>3. CASE EditUnavailable
    <3>1. Ends("EDIT_UNAVAILABLE") /\ UNCHANGED <<batch, tasks>>
      BY <2>3 DEF EditUnavailable, Rows
    <3>2. tasks = {} /\ ~Stored
      BY <2>3, UnavailableIsFree DEF EditUnavailable
    <3>. QED BY <1>0, <3>1, <3>2, EndIs DEF EndsRest, ReplaysAgree
  <2>4. CASE Break
    <3>1. Ends("BROKEN") /\ UNCHANGED <<batch, deployment, drifts>> /\ Throws
      BY <2>4 DEF Break, Rows, outside
    <3>2. run'.status = "BROKEN" /\ dispatch'.at = "idle" /\ run'.kind = run.kind
      BY <1>0, <3>1, EndIs
    <3>3. drifts = 0 => StrategyBroken
      BY <3>1, SourcesHold, RoutesAgree DEF Throws
    <3>4. drifts = 0 \/ drifts > 0
      BY ImageRoutesAssumption DEF IInv, TypeOK
    <3>5. StrategyBroken' <=> StrategyBroken
      BY <3>1, <3>2 DEF StrategyBroken, Strategy, Resolved, V4
    <3>. QED BY <3>1, <3>2, <3>3, <3>4, <3>5 DEF EndsRest, ReplaysAgree
  <2>5. ASSUME Ends("CONFLICT"), drifts' > 0 PROVE EndsRest' /\ ReplaysAgree'
    BY <1>0, <2>5, EndIs DEF EndsRest, ReplaysAgree
  <2>6. ASSUME drifts # 0, drifts' = drifts PROVE drifts' > 0
    BY <2>6, ImageRoutesAssumption DEF IInv, TypeOK
  <2>7. CASE EnsureBatch
    <3>1. drifts' = drifts /\ (Ends("CONFLICT") \/ run' = run)
      BY <2>7 DEF EnsureBatch, outside
    <3>2. drifts = 0 => run' = run
      BY <2>7, EnsureSteady
    <3>. QED BY <1>b, <2>1, <2>5, <2>6, <3>1, <3>2
  <2>8. CASE EndDispatch
    <3>1. drifts' = drifts /\ (Ends("CONFLICT") \/ run' = run)
      BY <2>8 DEF EndDispatch, outside
    <3>2. drifts = 0 => run' = run
      BY <2>8, QuietSteady
    <3>. QED BY <1>b, <2>1, <2>5, <2>6, <3>1, <3>2
  <2>9. ASSUME NEW p \in Pages, CompleteControlledRaster(p) \/ PrepareConflict(p)
        PROVE  EndsRest' /\ ReplaysAgree'
    <3>1. drifts' = drifts /\ (Ends("CONFLICT") \/ run' = run)
      BY <2>9 DEF CompleteControlledRaster, PrepareConflict, Conflict, outside
    <3>2. drifts = 0 => run' = run
      BY <2>9, LocalSteady, QuietSteady
    <3>. QED BY <1>b, <2>1, <2>5, <2>6, <3>1, <3>2
  <2>10. CASE StartDispatch \/ Submit \/ Restart \/ UNCHANGED vars
    <3>1. run' = run
      BY <2>10 DEF StartDispatch, Submit, Restart, vars
    <3>. QED BY <1>b, <2>1, <3>1
  <2>11. ASSUME NEW p \in Pages,
                \/ SearchWeb(p) \/ RecordSourceAssetFailure(p) \/ CompleteSourceAssetReuse(p)
                \/ Prepare(p) \/ Lookup(p) \/ RefreshPage(p) \/ Drift(p)
         PROVE  EndsRest' /\ ReplaysAgree'
    <3>1. run' = run
      BY <2>11 DEF SearchWeb, RecordSourceAssetFailure, CompleteSourceAssetReuse, Prepare, Lookup,
                   RefreshPage, Drift
    <3>. QED BY <1>b, <2>1, <3>1
  <2>. QED BY <2>2, <2>3, <2>4, <2>7, <2>8, <2>9, <2>10, <2>11 DEF Next
<1>. QED BY <1>a, <1>b

\* A round begins with a batch of an earlier release, or with none.
LEMMA InitSteady == Init => EndsRest /\ Steady /\ ReplaysAgree
<1> SUFFICES ASSUME Init PROVE EndsRest /\ Steady /\ ReplaysAgree
  OBVIOUS
<1>1. /\ run.status = "OPEN" /\ dispatch = Idle /\ \A p \in Pages : step[p] = None
      /\ Stored => V4 /\ batch = OldBatch
      /\ \A p \in Pages : source[p].version = 1
  BY DEF Init
<1>2. /\ OldBatch.route = Generative /\ OldBatch.of = NoPage
      /\ OldBatch.strategy = [p \in Pages |-> "FULL_GENERATIVE"]
  BY DEF OldBatch
<1>3. V4 => First(Generative, OldBatch.strategy) = NoPage
  BY DEF First, NoPage, Generative
<1>4. BatchSteady
  BY <1>1, <1>2, <1>3 DEF BatchSteady, Answerable, Generative
<1>. QED BY <1>1, <1>4, IdleQuiet
       DEF EndsRest, Steady, TargetSteady, StepSteady, TodoSteady, ReplaysAgree

\* A dispatch that is repeated asks for what it has stored, under every deployment: only a
\* page the new build cannot draw, or an image that was replaced, ends the round, and a
\* round refused for want of an edit model has cost nothing.  (targets,
\* persistedRevisionRoute, ensureGenerationBatch, MediaStepRunner.prepare,
\* failV4ImageEditUnavailable)
THEOREM ReplaysAreAnswered == Spec => []ReplaysAgree
<1>1. Init => EndsRest /\ (drifts = 0 => Steady) /\ ReplaysAgree
  BY InitSteady
<1>2. IInv /\ EndsRest /\ (drifts = 0 => Steady) /\ ReplaysAgree /\ [Next]_vars
        => EndsRest' /\ (drifts = 0 => Steady)' /\ ReplaysAgree'
  BY StepSteadies, StepEnds
<1>. QED BY <1>1, <1>2, Invariance, PTL DEF Spec

===============================================================================

------------------------------ MODULE ImageRoutes ------------------------------
(***************************************************************************)
(* Where the image of a page comes from.  Every dispatch and every refresh *)
(* of a round of images works that out again from what is stored: which    *)
(* pages a local renderer draws, by which model and in which mode the      *)
(* others are generated, which come from the web or from the material      *)
(* (src/src/core/revision-media-coordinator.ts targets,                    *)
(* src/src/core/slide-generation-coordinator.ts, ensureGenerationBatch of  *)
(* src/src/core/generation-batch.ts).  Between two dispatches the process  *)
(* may be deployed anew with another configuration or another compiler,    *)
(* and an image the round starts from may be replaced by a late one.       *)
(*                                                                         *)
(* One round of one Run.  Budgets, reservations, failures of the provider  *)
(* and their recovery are the subject of GenerationBatch and UsageV2;      *)
(* prompts and sizes are left out.  Several elements of one page, the      *)
(* candidates of a search and their reviews are one choice each.           *)
(***************************************************************************)
EXTENDS Naturals, FiniteSets

CONSTANTS
  Pages,
  EditModels,   \* models a deployment may name for editing images
  Gen,          \* run.imageModel, also the image model of the Run's snapshot
  None,
  MaxRestarts,  \* bound: crashes, each followed by a new deployment
  MaxDrifts,    \* bound: images or documents that change under the round
  MayVanish     \* a document may lose an asset the blueprint refers to, once read

ASSUME ImageRoutesAssumption ==
  /\ MaxRestarts \in Nat /\ MaxDrifts \in Nat /\ MayVanish \in BOOLEAN
  /\ IsFiniteSet(Pages) /\ Pages # {}
  /\ Gen \notin EditModels /\ None \notin EditModels \cup {Gen}

VARIABLES
  run,         \* the Run and its blueprint; only its status changes
  deployment,  \* configuration and build of the running process
  source,      \* what the image of each page starts from
  batch,       \* the generate_image_batch step of the round
  step,        \* the generate_slide_image step of each page
  tasks,       \* external: the image tasks the provider has accepted
  dispatch,    \* what the worker is doing, with the targets it worked out
  drifts, restarts

vars == <<run, deployment, source, batch, step, tasks, dispatch, drifts, restarts>>
outside == <<deployment, source, drifts, restarts>>

Route == [model: EditModels \cup {Gen}, mode: {"TEXT_TO_IMAGE", "IMAGE_EDIT"}]
Generative == [model |-> Gen, mode |-> "TEXT_TO_IMAGE"]

\* old: the batch was stored by a release without models and strategies.
Strategies == {"FULL_GENERATIVE", "CONTROLLED_RASTER"}
Batch == [route: Route, strategy: [Pages -> Strategies], of: [Pages -> Nat], old: BOOLEAN]
NoPage == [p \in Pages |-> 0]
OldBatch == [route |-> Generative, strategy |-> [p \in Pages |-> "FULL_GENERATIVE"],
             of |-> NoPage, old |-> TRUE]

\* by: how the image is obtained.  of: the version of the image or asset it starts
\* from, which is part of the key of an edit and of the input hash.
Step == [by: {"PROVIDER", "LOCAL", "WEB", "SOURCE", "NOBODY"}, route: Route, of: Nat,
         status: {"RESERVED", "SUBMITTING", "WAITING", "COMPLETED", "FAILED"}]
Task == [page: Pages, route: Route, of: Nat]

ASSUME NoneAssumption == None \notin Batch \cup Step \cup Route

Assets == {"REGENERATE", "SEARCH_WEB", "REUSE_ORIGINAL", "REFERENCE_GENERATION"}
Runs == [kind: {"V4", "EARLIER"}, scope: {"INITIAL", "REVISION"},
         pinned: BOOLEAN, edit: EditModels \cup {None},
         asset: [Pages -> Assets], searchFirst: BOOLEAN,
         status: {"OPEN", "PAGE_REVIEW", "NEEDS_HUMAN", "EDIT_UNAVAILABLE",
                  "BROKEN", "CONFLICT"}]
Deployment == [edit: EditModels \cup {None}, raster: BOOLEAN, exact: SUBSET Pages]
Source == [there: BOOLEAN, wide: BOOLEAN, version: Nat]
Target == [strategy: [Pages -> Strategies], route: Route, of: [Pages -> Nat],
           there: SUBSET Pages]
NoTarget == [strategy |-> OldBatch.strategy, route |-> Generative, of |-> NoPage,
             there |-> {}]
Dispatch == [at: {"idle", "batch", "pages", "send"}, target: Target, threw: BOOLEAN,
             todo: SUBSET Pages, searched: SUBSET Pages, page: Pages \cup {None}]
Idle == [at |-> "idle", target |-> NoTarget, threw |-> FALSE, todo |-> {}, searched |-> {}, page |-> None]

V4 == run.kind = "V4"
Revising == run.scope = "REVISION"
Stored == batch # None

\* A Run in another mode uses nothing of the deployment: one is as good as all.
Deployments ==
  IF V4 THEN Deployment ELSE {[edit |-> None, raster |-> FALSE, exact |-> {}]}
-------------------------------------------------------------------------------
(* What a dispatch works out from the stored rows and its deployment. *)

\* A page the compiler of this build can prove exact is drawn by the local renderer.
Resolved(p) ==
  IF V4 /\ p \in deployment.exact THEN "CONTROLLED_RASTER" ELSE "FULL_GENERATIVE"
\* Variant: every dispatch asks the compiler of the day.
StrategyOfTheBuild(p) == Resolved(p)

\* A stored batch keeps the strategy of a page it left to the provider.
Strategy(p) ==
  IF Stored /\ (batch.old \/ batch.strategy[p] = "FULL_GENERATIVE")
  THEN "FULL_GENERATIVE" ELSE Resolved(p)
\* CONTROLLED_RASTER_CONTRACT_MISSING, CONTROLLED_RASTER_PORT_REQUIRED
StrategyBroken ==
  V4 /\ \E p \in Pages :
    \/ Stored /\ ~batch.old /\ batch.strategy[p] = "CONTROLLED_RASTER" /\ Strategy(p) # batch.strategy[p]
    \/ Strategy(p) = "CONTROLLED_RASTER" /\ ~deployment.raster

Generated == {p \in Pages : Strategy(p) = "FULL_GENERATIVE"}
\* The pages of the round that have a step of the provider, by mode.
Submitted(mode) == {p \in Pages : step[p] # None /\ step[p].by = "PROVIDER" /\ step[p].route.mode = mode}
Edited == Submitted("IMAGE_EDIT")

\* V4_REVISION_ROUTE_CONFLICT: the stored steps do not agree on one route.
RouteConflict ==
  /\ Edited # {}
  /\ \/ Submitted("TEXT_TO_IMAGE") # {}
     \/ \E p, q \in Edited : step[p].route # step[q].route

\* The model of the Run's snapshot, or of the deployment for a Run without one.
EditModel == IF run.pinned THEN run.edit ELSE deployment.edit

\* Steps decide, then the batch, then the configuration.
PersistedRoute ==
  IF Edited # {} THEN step[CHOOSE p \in Edited : TRUE].route
  ELSE IF Submitted("TEXT_TO_IMAGE") # {} THEN Generative
  ELSE IF Stored THEN batch.route
  ELSE IF EditModel = None THEN None
  ELSE [model |-> EditModel, mode |-> "IMAGE_EDIT"]

\* An edit keeps the frame of its source: one source that is not a slide's makes
\* the whole round a generation, unless the round has been stored already.
RevisionRoute ==
  IF /\ PersistedRoute # None /\ PersistedRoute.mode = "IMAGE_EDIT"
     /\ ~Stored /\ \A p \in Pages : step[p] = None
     /\ \E p \in Generated : ~source[p].wide
  THEN Generative ELSE PersistedRoute

\* A Run in another mode, and an initial round, generate with the Run's model.
RoundRoute == IF V4 /\ Revising THEN RevisionRoute ELSE Generative

\* The version of what is edited or referred to is part of the request.
StartsFrom(p, route) ==
  IF \/ V4 /\ route.mode = "IMAGE_EDIT" /\ Strategy(p) = "FULL_GENERATIVE"
     \/ ~V4 /\ ~Revising /\ run.asset[p] = "REFERENCE_GENERATION"
  THEN source[p].version ELSE 0

\* An edit whose source has lost its frame, or is not the one its step was made from
\* (V4_REPAIR_SOURCE_ASPECT_RATIO_INVALID, V4_REPAIR_PERSISTED_IDENTITY_CONFLICT).
SourceBroken(route) ==
  /\ V4 /\ Revising /\ route.mode = "IMAGE_EDIT"
  /\ \E p \in Generated :
       \/ ~source[p].wide
       \/ step[p] # None /\ step[p].of # source[p].version

Targets(route) ==
  [strategy |-> [p \in Pages |-> Strategy(p)], route |-> route,
   of |-> [p \in Pages |-> StartsFrom(p, route)],
   there |-> {p \in Pages : source[p].there}]

Unavailable == RoundRoute = None /\ Generated # {}
\* All pages are drawn locally: nothing needs the route, the batch gets the Run's.
TargetRoute == IF RoundRoute = None THEN Generative ELSE RoundRoute
Throws == StrategyBroken \/ (V4 /\ Revising /\ (RouteConflict \/ (~Unavailable /\ SourceBroken(TargetRoute))))

\* Where a round can be found by this code: nothing stored, or the batch of an earlier
\* release.
Init ==
  /\ run \in {r \in Runs :
       /\ r.status = "OPEN"
       /\ r.kind = "V4" => r.asset = [p \in Pages |-> "REGENERATE"] /\ ~r.searchFirst
       /\ r.kind = "EARLIER" => r.pinned /\ r.edit = None
       /\ r.kind = "EARLIER" /\ r.scope = "REVISION" =>
            r.asset = [p \in Pages |-> "REGENERATE"] /\ ~r.searchFirst
       /\ ~r.pinned => r.edit = None}
  /\ deployment \in Deployments
  /\ source \in [Pages -> {s \in [there: BOOLEAN, wide: BOOLEAN, version: {1}] :
                              (s.wide \/ (V4 /\ Revising)) /\ (s.there \/ ~V4)}]
  /\ \A p \in Pages : ~source[p].there => run.asset[p] # "REGENERATE"
  /\ batch \in IF V4 THEN {None, OldBatch} ELSE {None}
  /\ step = [p \in Pages |-> None]
  /\ tasks = {}
  /\ dispatch = Idle
  /\ drifts = 0 /\ restarts = 0
-------------------------------------------------------------------------------
Ends(status) == run' = [run EXCEPT !.status = status] /\ dispatch' = Idle
Rows == <<batch, step, tasks>>

Open == run.status = "OPEN" /\ dispatch.at = "idle"
\* Steps a dispatch takes up: not there yet, or left behind before their answer.
Pending == {p \in Pages : step[p] = None \/ step[p].status \in {"RESERVED", "SUBMITTING"}}
Failed == \E p \in Pages : step[p] # None /\ step[p].status = "FAILED"

\* submitBlueprintImages and submit up to the batch: once the targets are worked out, a
\* failed step blocks the round.
Blocked == Open /\ Failed /\ ~Throws /\ Ends("NEEDS_HUMAN") /\ UNCHANGED <<Rows, outside>>

StartDispatch ==
  /\ Open /\ ~Failed /\ (Pending # {} \/ (V4 /\ Revising))
  /\ ~Throws /\ ~Unavailable
  /\ dispatch' = [Idle EXCEPT !.at = IF V4 THEN "batch" ELSE "pages",
                              !.target = Targets(TargetRoute), !.todo = Pending]
  /\ UNCHANGED <<run, Rows, outside>>

\* failV4ImageEditUnavailable: there is no model to edit with.
EditUnavailable ==
  /\ Open /\ ~Throws /\ Unavailable
  /\ Ends("EDIT_UNAVAILABLE") /\ UNCHANGED <<Rows, outside>>

\* The targets cannot be worked out: the tick throws and the Run ends.
Break == Open /\ Throws /\ Ends("BROKEN") /\ UNCHANGED <<Rows, outside>>

\* Variant: the batch is stored under the Run's model whatever its route.
BatchRouteOfTheRun(target) == Generative

\* ensureGenerationBatch: the round is stored once, and a later dispatch must ask for
\* the same.  A round drawn locally throughout is stored under the Run's model.
BatchRoute(target) ==
  IF \A p \in Pages : target.strategy[p] = "CONTROLLED_RASTER" THEN Generative ELSE target.route
SameBatch(target) ==
  /\ batch.strategy = target.strategy /\ batch.of = target.of
  /\ batch.route = BatchRoute(target)
EnsureBatch ==
  /\ dispatch.at = "batch"
  /\ IF Stored /\ ~SameBatch(dispatch.target)
     THEN Ends("CONFLICT") /\ UNCHANGED batch
     ELSE /\ batch' = IF Stored THEN batch ELSE
                        [route |-> BatchRoute(dispatch.target), old |-> FALSE,
                         strategy |-> dispatch.target.strategy, of |-> dispatch.target.of]
          /\ dispatch' = [dispatch EXCEPT !.at = "pages"] /\ UNCHANGED run
  /\ UNCHANGED <<step, tasks, outside>>
-------------------------------------------------------------------------------
(* The pages of one dispatch; those of a V4 Run in any order, side by side. *)

Asset(p) == IF V4 THEN "REGENERATE" ELSE run.asset[p]
SearchFirst(p) ==
  Asset(p) = "SEARCH_WEB" /\ run.searchFirst /\ step[p] = None /\ p \notin dispatch.searched
\* The search goes over all pages before anything else is done.
Searching == ~V4 /\ \E p \in dispatch.todo : SearchFirst(p)

\* The web phase is over, and the page is the next one to be obtained.
Turn(p) == dispatch.at = "pages" /\ p \in dispatch.todo /\ ~Searching
Local(p) == dispatch.target.strategy[p] = "CONTROLLED_RASTER"
NeedsAsset(p) == Asset(p) \in {"REUSE_ORIGINAL", "REFERENCE_GENERATION"}
MissingAsset(p) == NeedsAsset(p) /\ p \notin dispatch.target.there
Requested(p) == [by |-> "PROVIDER", route |-> dispatch.target.route,
                 of |-> dispatch.target.of[p], status |-> "RESERVED"]
Obtained(by, status) == [by |-> by, route |-> Generative, of |-> 0, status |-> status]

\* Variant: the dispatch stays with the page it has sent.
NotDone(p) == dispatch' = [dispatch EXCEPT !.page = None, !.todo = @ \ {p}]

Done(p) == dispatch' = [dispatch EXCEPT !.at = "pages", !.page = None, !.todo = @ \ {p}]
PutStep(p, s) == step' = [step EXCEPT ![p] = s]

\* tryCompleteWebAsset: nothing suitable, or no answer, leaves the page to the provider.
SearchWeb(p) ==
  /\ dispatch.at = "pages" /\ p \in dispatch.todo /\ ~V4 /\ SearchFirst(p)
  /\ \/ PutStep(p, Obtained("WEB", "COMPLETED")) /\ Done(p)
     \/ dispatch' = [dispatch EXCEPT !.searched = @ \cup {p}] /\ UNCHANGED step
  /\ UNCHANGED <<run, batch, tasks, outside>>

\* recordSourceAssetFailure, which stores the step whatever was there.
RecordSourceAssetFailure(p) ==
  /\ Turn(p) /\ MissingAsset(p)
  /\ PutStep(p, Obtained("NOBODY", "FAILED"))
  /\ dispatch' = Idle
  /\ UNCHANGED <<run, batch, tasks, outside>>

CompleteSourceAssetReuse(p) ==
  /\ Turn(p) /\ Asset(p) = "REUSE_ORIGINAL" /\ ~MissingAsset(p)
  /\ PutStep(p, Obtained("SOURCE", "COMPLETED")) /\ Done(p)
  /\ UNCHANGED <<run, batch, tasks, outside>>

\* Another request is stored under the key: the page's error is raised when the other
\* pages are done, or at once where pages are taken one by one.
Conflict(p) ==
  IF V4 THEN /\ dispatch' = [dispatch EXCEPT !.todo = @ \ {p}, !.threw = TRUE]
             /\ UNCHANGED run
        ELSE Ends("CONFLICT")

\* The page is drawn, or the failure is its result, at no cost either way.
RasterDrawn(p) == PutStep(p, Obtained("LOCAL", "COMPLETED"))
PersistControlledRasterFailure(p) == PutStep(p, Obtained("LOCAL", "FAILED"))

CompleteControlledRaster(p) ==
  /\ Turn(p) /\ Local(p)
  /\ IF step[p] # None THEN Conflict(p) /\ UNCHANGED step
     ELSE /\ RasterDrawn(p) \/ PersistControlledRasterFailure(p)
          /\ Done(p) /\ UNCHANGED run
  /\ UNCHANGED <<batch, tasks, outside>>

ForProvider(p) == Turn(p) /\ ~Local(p) /\ ~MissingAsset(p) /\ Asset(p) # "REUSE_ORIGINAL"
SameRequest(p) == [step[p] EXCEPT !.status = "RESERVED"] = Requested(p)

\* Variant: what is stored under the key of the page is taken over by the new request.
PrepareAgain(p) ==
  /\ ForProvider(p)
  /\ PutStep(p, Requested(p))
  /\ dispatch' = [dispatch EXCEPT !.at = "send", !.page = p]
  /\ UNCHANGED <<run, batch, tasks, outside>>

\* MediaStepRunner.prepare
Prepare(p) ==
  /\ ForProvider(p)
  /\ step[p] # None => SameRequest(p) /\ step[p].status = "RESERVED"
  /\ PutStep(p, Requested(p))
  /\ dispatch' = [dispatch EXCEPT !.at = "send", !.page = p]
  /\ UNCHANGED <<run, batch, tasks, outside>>
PrepareConflict(p) ==
  /\ ForProvider(p) /\ step[p] # None /\ ~SameRequest(p)
  /\ Conflict(p) /\ UNCHANGED <<Rows, outside>>

\* recoverUnacknowledgedSubmission: a submission without its answer is looked up.
Submission(p) == [page |-> p, route |-> step[p].route, of |-> step[p].of]
Lookup(p) ==
  /\ ForProvider(p) /\ step[p] # None /\ SameRequest(p) /\ step[p].status = "SUBMITTING"
  /\ PutStep(p, [step[p] EXCEPT !.status = IF Submission(p) \in tasks THEN "WAITING" ELSE "FAILED"])
  /\ Done(p) /\ UNCHANGED <<run, batch, tasks, outside>>

\* markSubmitting and images.submit; the answer may be lost on its way back, and so
\* may the request.
Submit ==
  LET p == dispatch.page IN
  /\ dispatch.at = "send"
  /\ \/ tasks' = tasks \cup {Submission(p)} /\ PutStep(p, [step[p] EXCEPT !.status = "WAITING"])
     \/ tasks' \in {tasks, tasks \cup {Submission(p)}} /\ PutStep(p, [step[p] EXCEPT !.status = "SUBMITTING"])
  /\ Done(p) /\ UNCHANGED <<run, batch, outside>>

EndDispatch ==
  /\ dispatch.at = "pages" /\ dispatch.todo = {}
  /\ IF dispatch.threw THEN Ends("CONFLICT") ELSE dispatch' = Idle /\ UNCHANGED run
  /\ UNCHANGED <<Rows, outside>>
-------------------------------------------------------------------------------
\* refresh of a revision works out its targets first; refreshBlueprintImages does not.
Refreshes == Open /\ ~Failed /\ (V4 /\ Revising => ~Throws)
RefreshPage(p) ==
  /\ Refreshes /\ step[p] # None /\ step[p].status = "WAITING"
  /\ PutStep(p, [step[p] EXCEPT !.status = "COMPLETED"])
  /\ UNCHANGED <<run, batch, tasks, dispatch, outside>>
EndRound ==
  /\ Refreshes /\ \A p \in Pages : step[p] # None /\ step[p].status = "COMPLETED"
  /\ Ends("PAGE_REVIEW") /\ UNCHANGED <<Rows, outside>>

\* The process stops and comes back with this or another deployment.
Restart ==
  /\ run.status = "OPEN" /\ restarts < MaxRestarts
  /\ restarts' = restarts + 1
  /\ deployment' \in Deployments /\ dispatch' = Idle
  /\ UNCHANGED <<run, source, Rows, drifts>>

\* A late image of an earlier round becomes the latest one; a document is read anew.
Drift(p) ==
  /\ run.status = "OPEN" /\ drifts < MaxDrifts /\ (V4 <=> Revising)
  /\ drifts' = drifts + 1
  /\ \E wide, there \in BOOLEAN :
       /\ there = source[p].there \/ (MayVanish /\ ~V4)
       /\ wide \/ V4
       /\ source' = [source EXCEPT ![p] = [there |-> there, wide |-> wide, version |-> @.version + 1]]
  /\ UNCHANGED <<run, deployment, Rows, dispatch, restarts>>

Next ==
  \/ Blocked \/ StartDispatch \/ EditUnavailable \/ Break \/ EnsureBatch
  \/ Submit \/ EndDispatch \/ EndRound \/ Restart
  \/ \E p \in Pages :
       \/ SearchWeb(p) \/ RecordSourceAssetFailure(p) \/ CompleteSourceAssetReuse(p)
       \/ CompleteControlledRaster(p) \/ Prepare(p) \/ PrepareConflict(p) \/ Lookup(p)
       \/ RefreshPage(p) \/ Drift(p)

Spec == Init /\ [][Next]_vars
-------------------------------------------------------------------------------
TypeOK ==
  /\ run \in Runs /\ deployment \in Deployment /\ source \in [Pages -> Source]
  /\ batch \in Batch \cup {None} /\ step \in [Pages -> Step \cup {None}]
  /\ tasks \subseteq Task /\ dispatch \in Dispatch
  /\ drifts \in 0 .. MaxDrifts /\ restarts \in 0 .. MaxRestarts
  /\ dispatch.at = "send" => dispatch.page \in Pages

\* All images of a round come from one model in one mode, the one its batch accounts
\* for, however often the process is deployed anew between two dispatches.
OneRoute ==
  /\ \A s, t \in tasks : s.route = t.route
  /\ V4 => \A t \in tasks : Stored /\ t.route = batch.route

\* The image of a page is asked for once and in one place: a page that is drawn, found
\* or reused was never sent to the provider, and one that was sent is on record.
OnePlace ==
  \A t \in tasks :
    /\ \A s \in tasks : s.page = t.page => s = t
    /\ step[t.page] # None /\ step[t.page].by = "PROVIDER"
    /\ step[t.page].route = t.route /\ step[t.page].of = t.of

\* A dispatch that is repeated asks for what it has stored, under every deployment:
\* only a page to be drawn that the new build cannot draw, or an image that was replaced,
\* ends the round; and a round refused for want of an edit model has cost nothing.
ReplaysAgree ==
  /\ run.status = "CONFLICT" => drifts > 0
  /\ run.status = "BROKEN" => drifts > 0 \/ StrategyBroken
  /\ run.status = "EDIT_UNAVAILABLE" => tasks = {} /\ ~Stored
===============================================================================

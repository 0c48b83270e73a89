---------------------------- MODULE SharedTracks ----------------------------
(***************************************************************************)
(* The media routes of the API server for one room                         *)
(* (crates/services/api-server/src/routes/media.rs,                        *)
(* services/media_orchestration.rs and                                     *)
(* crates/media/transcode-bridge/src/lib.rs).                              *)
(*                                                                         *)
(* One source track, the subscriptions of one viewer, and the transcodes   *)
(* that subscriptions with the same specification share.  The API keeps    *)
(* its own lists and counts references; the media node and the workers     *)
(* hold what the lists stand for.  Every handler is a chain of calls with  *)
(* an await between them, so handlers interleave at every step.  The lock  *)
(* of the transcode registry is held across the whole of a provisioning.   *)
(*                                                                         *)
(* A call is answered, refused, or carried out without an answer.          *)
(***************************************************************************)
EXTENDS Naturals, FiniteSets, FiniteSetsExt

CONSTANTS
  Handlers,      \* requests, each served once
  Subscriptions, \* subscription identifiers of the viewer
  Specs,         \* transcode specifications
  Keys,          \* Idempotency-Key values of registrations
  Wishes,        \* what subscribers ask for
  Quota,         \* TRANSCODE quota: distinct jobs
  MaxFaults,     \* bound: calls that fail or lose their answer
  Begins         \* the situations a run begins in

ASSUME SharedAssumption ==
  /\ Quota \in Nat \ {0} /\ MaxFaults \in Nat
  /\ Keys \cap Subscriptions = {}
  /\ Wishes \subseteq [critical : BOOLEAN, hls : BOOLEAN, decodes : BOOLEAN,
                       transcodes : BOOLEAN, valid : BOOLEAN]
  /\ Begins \subseteq {"empty", "published", "shared"}

MaxJob == Cardinality(Handlers) + 1
Jobs == 1 .. MaxJob

VARIABLES
  registered, \* tracks: the source is registered
  listed,     \* subscriptions of the API
  jobs,       \* coordinator: the job of each specification, its references
  nextJobId,  \* next_job_id
  running,    \* registry.active
  uses,       \* registry.subscriptions: the job each subscription holds
  locked,     \* the handler that holds the registry across awaits
  done,       \* side effects remembered
  member,     \* the viewer is in the room
  node,       \* the media node and the workers
  req,        \* the handlers
  faults,     \* calls that failed or lost their answer
  leaked,     \* history: a call was carried out unanswered, a delete lost
  crossed,    \* history: subscriptions made and undone at once
  overtaken,  \* history: the source was published and removed at once
  late        \* history: the viewer left while subscribing

apiState == <<registered, listed, jobs, nextJobId, running, uses, locked, done,
              member>>
histories == <<faults, leaked, crossed, overtaken, late>>
sharedVars == <<apiState, node, req, histories>>

NewRequest == [op |-> "none", pc |-> "new", s |-> {}, spec |-> {}, job |-> 0,
               cmd |-> {}, todo |-> {}]

EmptyNode == [source |-> FALSE, outputs |-> {}, workers |-> {}, feeds |-> {},
              subs |-> [s \in Subscriptions |-> {}]]

\* A room with nothing, with a source, or with a source and one subscription
\* that is served by a transcode.
SharedInit ==
  \E b \in Begins, s \in Subscriptions, spec \in Specs :
    LET shared == b = "shared" IN
    /\ registered = (b # "empty")
    /\ listed = IF shared THEN {s} ELSE {}
    /\ jobs = [p \in Specs |-> IF shared /\ p = spec
                               THEN {[id |-> 1, refs |-> 1]} ELSE {}]
    /\ nextJobId = IF shared THEN 2 ELSE 1
    /\ running = IF shared THEN {1} ELSE {}
    /\ uses = [t \in Subscriptions |-> IF shared /\ t = s THEN {1} ELSE {}]
    /\ locked = {} /\ done = {} /\ member = TRUE
    /\ node = [EmptyNode EXCEPT
                 !.source = registered, !.outputs = running,
                 !.workers = running, !.feeds = running, !.subs = uses]
    /\ req = [q \in Handlers |-> NewRequest]
    /\ faults = 0 /\ leaked = FALSE /\ crossed = {}
    /\ overtaken = FALSE /\ late = FALSE

-----------------------------------------------------------------------------
(* Calls to the media node and the workers.                                *)

AtStep(q, pc) == req[q].pc = pc

Goto(q, pc) == req' = [req EXCEPT ![q].pc = pc]

\* A call that succeeds.
Answered(to) ==
  /\ node' = to
  /\ UNCHANGED <<faults, leaked>>

\* A call that fails before it does anything.
Refused ==
  /\ faults < MaxFaults /\ faults' = faults + 1
  /\ UNCHANGED <<node, leaked>>

\* A call whose answer is lost, or a clean-up that is: the caller goes on as
\* after a refusal.
Unanswered(to) ==
  /\ faults < MaxFaults /\ faults' = faults + 1
  /\ node' = to /\ leaked' = TRUE

\* The node turns the call down by itself.
Declined == UNCHANGED <<node, faults, leaked>>

CallFails(to, allowed) ==
  IF allowed THEN Refused \/ Unanswered(to) ELSE Declined

\* unpublish of the source (0) or of a transcode's output: its subscriptions
\* go with it, and the sinks of the source too.
Unpublished(target) ==
  LET subs == [s \in Subscriptions |-> node.subs[s] \ {target}]
  IN IF target = 0
     THEN [node EXCEPT !.source = FALSE, !.feeds = {}, !.subs = subs]
     ELSE [node EXCEPT !.outputs = @ \ {target}, !.subs = subs]

Detached(s) == [node EXCEPT !.subs[s] = {}]

InFlight == {"acquire", "ingress", "worker", "sink", "post", "hold", "record"}

\* Subscriptions that a handler is making, and that one is undoing.
Making(pcs) == UNION {req[q].s : q \in {h \in Handlers :
                        req[h].op = "subscribe" /\ req[h].pc \in pcs}}

Undoing == UNION {req[q].s : q \in {h \in Handlers :
                    /\ req[h].op \in {"unsubscribe", "leave"}
                    /\ req[h].pc \notin {"unsub", "over"}}}

-----------------------------------------------------------------------------
(* Registering and removing the source.                                    *)

RegisterTrack(q, c) ==
  /\ AtStep(q, "new")
  /\ req' = [req EXCEPT ![q] =
       [@ EXCEPT !.op = "register", !.cmd = {c},
                 !.pc = IF c \in done THEN "over" ELSE "publish"]]
  /\ UNCHANGED <<apiState, node, histories>>

PublishAtNode(q) ==
  LET published == [node EXCEPT !.source = TRUE]
      removing == \E h \in Handlers : req[h].op = "remove"
                                      /\ req[h].pc \in {"clear", "tearall"}
  IN /\ AtStep(q, "publish")
     /\ UNCHANGED <<apiState, crossed, late>>
     /\ \/ /\ ~node.source /\ Answered(published)
           /\ overtaken' = (overtaken \/ removing)
           /\ Goto(q, "enter")
        \/ /\ CallFails(published, ~node.source)
           /\ Goto(q, "over") /\ UNCHANGED overtaken

\* The insertion, then remember_side_effect, which may fail.
EnterTrack(q) ==
  /\ AtStep(q, "enter")
  /\ registered' = TRUE
  /\ done' \in {done, done \cup req[q].cmd}
  /\ Goto(q, "over")
  /\ UNCHANGED <<listed, jobs, nextJobId, running, uses, locked, member, node,
                 histories>>

\* unpublish_track and cleanup_publisher_tracks.
RemoveTrack(q) ==
  /\ AtStep(q, "new") /\ registered
  /\ req' = [req EXCEPT ![q] =
       [@ EXCEPT !.op = "remove", !.pc = "unpublish"]]
  /\ UNCHANGED <<apiState, node, histories>>

UnpublishAtNode(q) ==
  LET entering == \E h \in Handlers : AtStep(h, "enter") IN
  /\ AtStep(q, "unpublish")
  /\ \/ /\ node.source /\ Answered(Unpublished(0)) /\ Goto(q, "clear")
     \/ /\ CallFails(Unpublished(0), node.source) /\ Goto(q, "over")
  /\ crossed' = crossed \cup Making(InFlight)
  /\ overtaken' = (overtaken \/ entering)
  /\ UNCHANGED <<apiState, late>>

ClearTrack(q) ==
  /\ AtStep(q, "clear")
  /\ registered' = FALSE /\ listed' = {}
  /\ crossed' = crossed \cup Making(InFlight)
  /\ Goto(q, "tearall")
  /\ UNCHANGED <<jobs, nextJobId, running, uses, locked, done, member, node,
                 faults, leaked, overtaken, late>>

\* teardown_transcodes_for_source: under the lock of the registry.
TearAll(q) ==
  /\ AtStep(q, "tearall") /\ locked = {}
  /\ uses' = [s \in Subscriptions |-> uses[s] \ running]
  /\ jobs' = [p \in Specs |-> {j \in jobs[p] : j.id \notin running}]
  /\ running' = {}
  /\ req' = [req EXCEPT ![q].pc = "next", ![q].todo = running]
  /\ UNCHANGED <<registered, listed, nextJobId, locked, done, member, node,
                 histories>>

NextTeardown(q) ==
  /\ AtStep(q, "next")
  /\ \/ req[q].todo = {} /\ Goto(q, "over")
     \/ \E j \in req[q].todo :
          req' = [req EXCEPT ![q].pc = "stop", ![q].job = j,
                             ![q].todo = @ \ {j}]
  /\ UNCHANGED <<apiState, node, histories>>

-----------------------------------------------------------------------------
(* Subscribing.                                                            *)

\* negotiate: w says whether the network is critical, an HLS fallback was
\* given, the viewer decodes the source's codec, transcoding is allowed, and
\* the output would be a valid specification.
Negotiate(w) ==
  IF w.critical /\ w.hls THEN "hls"
  ELSE IF w.decodes THEN "direct"
  ELSE IF w.transcodes /\ w.valid THEN "transcode"
  ELSE IF w.hls THEN "hls" ELSE "reject"

\* select_media_path: where the handler goes on.
SelectMediaPath(w) ==
  CASE Negotiate(w) = "hls" -> "remember"
    [] Negotiate(w) = "direct" -> "post"
    [] Negotiate(w) = "transcode" -> "acquire"
    [] Negotiate(w) = "reject" -> "over"

\* subscribe_track up to its first call.  The client has one key per
\* subscription, and uses it again when it tries again.
SubscribeTrack(q, s, w, spec) ==
  LET next == IF s \in done \/ ~registered THEN "over"
              ELSE SelectMediaPath(w)
  IN /\ AtStep(q, "new") /\ member
     /\ req' = [req EXCEPT ![q] =
          [@ EXCEPT !.op = "subscribe", !.s = {s}, !.cmd = {s}, !.pc = next,
                    !.spec = IF next = "acquire" THEN {spec} ELSE {}]]
     /\ UNCHANGED <<apiState, node, histories>>

RememberHls(q) ==
  /\ AtStep(q, "remember")
  /\ done' \in {done, done \cup req[q].cmd}
  /\ Goto(q, "over")
  /\ UNCHANGED <<registered, listed, jobs, nextJobId, running, uses, locked,
                 member, node, histories>>

JobCount == Cardinality({p \in Specs : jobs[p] # {}})

\* Mutant of Reuse: the reference is not counted.
ReuseUncounted(q, spec, j) ==
  /\ jobs' = jobs
  /\ req' = [req EXCEPT ![q].job = j.id,
                        ![q].pc = IF j.id \in running THEN "post" ELSE "over"]
  /\ UNCHANGED <<nextJobId, locked>>

\* An allocation that is reused and not active is an error, and keeps its
\* reference.
Reuse(q, spec, j) ==
  /\ jobs' = [jobs EXCEPT ![spec] = {[j EXCEPT !.refs = @ + 1]}]
  /\ req' = [req EXCEPT ![q].job = j.id,
                        ![q].pc = IF j.id \in running THEN "post" ELSE "over"]
  /\ UNCHANGED <<nextJobId, locked>>

\* A new job; the registry stays locked until it is provisioned.
Allocate(q, spec) ==
  /\ JobCount < Quota
  /\ jobs' = [jobs EXCEPT ![spec] = {[id |-> nextJobId, refs |-> 1]}]
  /\ nextJobId' = nextJobId + 1 /\ locked' = {q}
  /\ req' = [req EXCEPT ![q].job = nextJobId, ![q].pc = "ingress"]

\* acquire_transcode up to provision_transcode.
AcquireTranscode(q) ==
  /\ AtStep(q, "acquire") /\ locked = {}
  /\ \E spec \in req[q].spec :
       \/ \E j \in jobs[spec] : Reuse(q, spec, j)
       \/ jobs[spec] = {} /\ Allocate(q, spec)
       \/ /\ jobs[spec] = {} /\ JobCount >= Quota
          /\ Goto(q, "over") /\ UNCHANGED <<jobs, nextJobId, locked>>
  /\ UNCHANGED <<registered, listed, running, uses, done, member, node,
                 histories>>

\* coordinator.release: one reference less, no job without references.
Released(id) ==
  [p \in Specs |-> {IF j.id = id THEN [j EXCEPT !.refs = @ - 1] ELSE j :
                      j \in {k \in jobs[p] : ~(k.id = id /\ k.refs = 1)}}]

\* Provisioning gave up: the allocation is released with the lock.
GiveUp(q) ==
  /\ jobs' = Released(req[q].job) /\ locked' = {}
  /\ Goto(q, "over")
  /\ UNCHANGED <<registered, listed, nextJobId, running, uses, done, member>>

CreateSharedIngress(q) ==
  LET created == [node EXCEPT !.outputs = @ \cup {req[q].job}]
  IN /\ AtStep(q, "ingress")
     /\ \/ Answered(created) /\ Goto(q, "worker") /\ UNCHANGED apiState
        \/ CallFails(created, TRUE) /\ GiveUp(q)
     /\ UNCHANGED <<crossed, overtaken, late>>

\* A failure deletes the ingress, not the worker's job.
StartWorker(q) ==
  LET started == [node EXCEPT !.workers = @ \cup {req[q].job}]
  IN /\ AtStep(q, "worker")
     /\ \/ Answered(started) /\ Goto(q, "sink")
        \/ CallFails(started, TRUE) /\ Goto(q, "unwire")
     /\ UNCHANGED <<apiState, crossed, overtaken, late>>

\* The recording sink that feeds the worker.  The node wants the source.
FeedWorker(q) ==
  LET fed == [node EXCEPT !.feeds = @ \cup {req[q].job}]
  IN /\ AtStep(q, "sink")
     /\ \/ /\ node.source /\ Answered(fed)
           /\ running' = running \cup {req[q].job} /\ locked' = {}
           /\ Goto(q, "post")
           /\ UNCHANGED <<registered, listed, jobs, nextJobId, uses, done,
                          member>>
        \/ /\ CallFails(fed, node.source) /\ Goto(q, "stop")
           /\ UNCHANGED apiState
     /\ UNCHANGED <<crossed, overtaken, late>>

\* The subscription at the node, on the source or on the transcode's output.
PostSubscription(q) ==
  \E s \in req[q].s :
    LET job == req[q].job
        allowed == /\ node.subs[s] = {}
                   /\ IF job = 0 THEN node.source ELSE job \in node.outputs
        made == [node EXCEPT !.subs[s] = {job}]
    IN /\ AtStep(q, "post")
       /\ \/ /\ allowed /\ Answered(made)
             /\ Goto(q, IF job = 0 THEN "record" ELSE "hold")
          \/ /\ CallFails(made, allowed)
             /\ Goto(q, IF job = 0 THEN "over" ELSE "release")
       /\ crossed' = crossed \cup ({s} \cap Undoing)
       /\ UNCHANGED <<apiState, overtaken, late>>

HoldJob(q) ==
  \E s \in req[q].s :
    /\ AtStep(q, "hold") /\ locked = {}
    /\ uses' = [uses EXCEPT ![s] = {req[q].job}]
    /\ Goto(q, "record")
    /\ UNCHANGED <<registered, listed, jobs, nextJobId, running, locked, done,
                   member, node, histories>>

RecordSubscription(q) ==
  /\ AtStep(q, "record")
  /\ listed' = listed \cup req[q].s
  /\ done' \in {done, done \cup req[q].cmd}
  /\ Goto(q, "over")
  /\ UNCHANGED <<registered, jobs, nextJobId, running, uses, locked, member,
                 node, histories>>

-----------------------------------------------------------------------------
(* Unsubscribing, leaving, releasing.                                      *)

\* Where a handler goes on after release_transcode.
Resume(op) ==
  CASE op = "subscribe" -> "over"
    [] op = "unsubscribe" -> "forget"
    [] op = "leave" -> "clean"
    [] op = "remove" -> "next"

UnsubscribeTrack(q, s) ==
  /\ AtStep(q, "new") /\ member
  /\ req' = [req EXCEPT ![q] =
       [@ EXCEPT !.op = "unsubscribe", !.s = {s}, !.pc = "unsub"]]
  /\ UNCHANGED <<apiState, node, histories>>

UnsubscribeAtNode(q) ==
  \E s \in req[q].s :
    LET there == node.subs[s] # {} IN
    /\ AtStep(q, "unsub")
    /\ \/ there /\ Answered(Detached(s)) /\ Goto(q, "drop")
       \/ CallFails(Detached(s), there) /\ Goto(q, "over")
    /\ crossed' = crossed \cup ({s} \cap Making(InFlight))
    /\ UNCHANGED <<apiState, overtaken, late>>

\* cleanup_participant_media, for a viewer that left.
LeaveRoom(q) ==
  /\ AtStep(q, "new") /\ member
  /\ member' = FALSE /\ late' = (Making(InFlight) # {})
  /\ req' = [req EXCEPT ![q] = [@ EXCEPT !.op = "leave", !.pc = "clean",
                                         !.todo = listed]]
  /\ UNCHANGED <<registered, listed, jobs, nextJobId, running, uses, locked,
                 done, node, faults, leaked, crossed, overtaken>>

\* cleanup_subscription: an error of the node is logged.
CleanSubscription(q) ==
  /\ AtStep(q, "clean") /\ UNCHANGED <<apiState, overtaken, late>>
  /\ \/ /\ req[q].todo = {} /\ Goto(q, "over")
        /\ UNCHANGED <<node, faults, leaked, crossed>>
     \/ \E s \in req[q].todo :
          /\ \/ Answered(Detached(s))
             \/ node.subs[s] # {} /\ Unanswered(node)
          /\ crossed' = crossed \cup ({s} \cap Making(InFlight))
          /\ req' = [req EXCEPT ![q].pc = "drop", ![q].s = {s},
                                ![q].todo = @ \ {s}]

\* The job the subscription held, taken out of the registry.  Cleaning up
\* forgets the subscription at once, unsubscribing after the release.
DropJob(q) ==
  \E s \in req[q].s :
    /\ AtStep(q, "drop") /\ locked = {}
    /\ uses' = [uses EXCEPT ![s] = {}]
    /\ listed' = IF req[q].op = "leave" THEN listed \ {s} ELSE listed
    /\ \/ uses[s] = {} /\ Goto(q, Resume(req[q].op))
       \/ \E j \in uses[s] :
            req' = [req EXCEPT ![q].pc = "release", ![q].job = j]
    /\ UNCHANGED <<registered, jobs, nextJobId, running, locked, done, member,
                   node, histories>>

ForgetSubscription(q) ==
  /\ AtStep(q, "forget")
  /\ listed' = listed \ req[q].s
  /\ Goto(q, "over")
  /\ UNCHANGED <<registered, jobs, nextJobId, running, uses, locked, done,
                 member, node, histories>>

\* release_transcode: the last reference takes the job out of the registry
\* and tears it down.
ReleaseTranscode(q) ==
  LET id == req[q].job
      last == \E p \in Specs : [id |-> id, refs |-> 1] \in jobs[p]
  IN /\ AtStep(q, "release") /\ locked = {}
     /\ jobs' = Released(id)
     /\ running' = IF last THEN running \ {id} ELSE running
     /\ Goto(q, IF last /\ id \in running THEN "stop"
                ELSE Resume(req[q].op))
     /\ UNCHANGED <<registered, listed, nextJobId, uses, locked, done, member,
                    node, histories>>

\* The first calls of teardown_active_transcode: the sink and the worker's
\* job.  A provisioning that failed at the sink deletes the job only.
StopWorker(q) ==
  LET id == req[q].job
      gone == [node EXCEPT !.workers = @ \ {id},
                           !.feeds = IF locked = {q} THEN @ ELSE @ \ {id}]
  IN /\ AtStep(q, "stop")
     /\ Answered(gone) \/ Unanswered(node)
     /\ Goto(q, "unwire")
     /\ UNCHANGED <<apiState, crossed, overtaken, late>>

\* Its last call: the ingress, and the output track with it.
Unwire(q) ==
  /\ AtStep(q, "unwire")
  /\ Answered(Unpublished(req[q].job)) \/ Unanswered(node)
  /\ IF locked = {q} THEN GiveUp(q)
     ELSE Goto(q, Resume(req[q].op)) /\ UNCHANGED apiState
  /\ UNCHANGED <<crossed, overtaken, late>>

-----------------------------------------------------------------------------

SourceSteps(q) ==
  \/ \E c \in Keys : RegisterTrack(q, c)
  \/ PublishAtNode(q) \/ EnterTrack(q) \/ RemoveTrack(q)
  \/ UnpublishAtNode(q) \/ ClearTrack(q) \/ TearAll(q) \/ NextTeardown(q)

SubscribeSteps(q) ==
  \/ \E s \in Subscriptions, w \in Wishes, spec \in Specs :
       SubscribeTrack(q, s, w, spec)
  \/ RememberHls(q) \/ AcquireTranscode(q) \/ CreateSharedIngress(q)
  \/ StartWorker(q) \/ FeedWorker(q) \/ PostSubscription(q) \/ HoldJob(q)
  \/ RecordSubscription(q)

UndoSteps(q) ==
  \/ \E s \in Subscriptions : UnsubscribeTrack(q, s)
  \/ UnsubscribeAtNode(q) \/ LeaveRoom(q) \/ CleanSubscription(q)
  \/ DropJob(q) \/ ForgetSubscription(q) \/ ReleaseTranscode(q)
  \/ StopWorker(q) \/ Unwire(q)

Resting == \A q \in Handlers : req[q].pc \in {"new", "over"}

SharedNext ==
  \/ \E q \in Handlers : SourceSteps(q) \/ SubscribeSteps(q) \/ UndoSteps(q)
  \/ Resting /\ UNCHANGED sharedVars

SharedSpec == SharedInit /\ [][SharedNext]_sharedVars

-----------------------------------------------------------------------------
(* Properties.                                                             *)

\* The tables have their types, there are no more jobs than the quota, and
\* the registry is locked by a handler that provisions.
SharedTypeOK ==
  /\ registered \in BOOLEAN /\ listed \subseteq Subscriptions
  /\ \A p \in Specs : jobs[p] \subseteq [id : Jobs, refs : Jobs]
  /\ JobCount <= Quota /\ nextJobId \in 1 .. (MaxJob + 1)
  /\ running \subseteq Jobs /\ uses \in [Subscriptions -> SUBSET Jobs]
  /\ done \subseteq Keys \cup Subscriptions /\ member \in BOOLEAN
  /\ \A q \in locked : req[q].pc \in {"ingress", "worker", "sink", "stop",
                                      "unwire"}
  /\ node.subs \in [Subscriptions -> SUBSET (0 .. MaxJob)]
  /\ faults \in 0 .. MaxFaults

KnownJobs == {j.id : j \in UNION {jobs[p] : p \in Specs}}

\* The coordinator and the registry know the same transcodes whenever the
\* registry is unlocked (acquire_transcode, release_transcode,
\* teardown_transcodes_for_source): a subscriber is never told that a shared
\* allocation is not ready.
RegistryAgrees == locked = {} => KnownJobs = running

\* A job has as many references as there are subscriptions that hold it and
\* handlers that are about to hold or to release it: it ends when the last
\* one goes, and not before.  Two handlers that make and undo the same
\* subscription at once, or an answer that is lost, leave a reference that
\* nobody releases.
ReferencesAreHeld ==
  ~leaked /\ crossed = {} => \A p \in Specs : \A j \in jobs[p] :
    LET holders == {s \in Subscriptions : j.id \in uses[s]}
        busy == {q \in Handlers : /\ req[q].job = j.id
                                  /\ \/ locked = {q}
                                     \/ AtStep(q, "post") \/ AtStep(q, "hold")
                                     \/ AtStep(q, "release")}
    IN j.refs = Cardinality(holders) + Cardinality(busy)

\* When the handlers rest, the node and the workers run exactly the
\* transcodes of the registry, whatever subscribed, failed and left in
\* between: no encoder without a viewer, no viewer without an encoder.
NothingIsLeft ==
  Resting /\ ~leaked =>
    node.outputs = running /\ node.workers = running /\ node.feeds = running

\* When the handlers rest, a subscription of the API is one of the node, on
\* the output of the job it holds or on the source.  A removal that overlaps
\* the subscribing, or a new publication, takes away what was just made.
SubscriptionsAreServed ==
  Resting /\ ~leaked /\ ~overtaken => \A s \in listed \ crossed :
    /\ node.subs[s] # {}
    /\ uses[s] = node.subs[s] \ {0} /\ uses[s] \subseteq running

\* When the handlers rest, the source is registered where it is published,
\* unless it was published while a removal was under way.
SourceAgrees ==
  Resting /\ ~leaked /\ ~overtaken => registered = node.source

\* A viewer that left has no subscription, no share of a transcode, and
\* nothing at the node, unless it was still subscribing when it left.
LeavingLeavesNothing ==
  Resting /\ ~leaked /\ ~late /\ ~member => \A s \in Subscriptions \ crossed :
    s \notin listed /\ uses[s] = {} /\ node.subs[s] = {}

\* The registry, the coordinator, the node and the workers agree on who uses
\* which transcode, whatever overlaps or fails.
TranscodesAreShared ==
  /\ SharedTypeOK /\ RegistryAgrees /\ ReferencesAreHeld /\ NothingIsLeft
  /\ SubscriptionsAreServed /\ SourceAgrees /\ LeavingLeavesNothing
=============================================================================

------------------------- MODULE WorkerAssignments -------------------------
(***************************************************************************)
(* One media worker: the handlers that create VOD, live and realtime jobs, *)
(* the assignment registry with its durable generation fences, the encoder *)
(* slots, and the tasks that run the encoders.                             *)
(*                                                                         *)
(* Handlers run on several threads.  Between insert_job, the registry's    *)
(* lock, cancel_replaced_job and the registration of the new cancellation  *)
(* other handlers may run.  A restart loses everything but the fences,     *)
(* which are on disk before an assignment is accepted.                     *)
(***************************************************************************)
EXTENDS Integers, FiniteSets

CONSTANTS
  Handlers,       \* requests served at the same time
  Resources,      \* assignment ids, "<kind>:<resource_id>"
  Vod,            \* those of kind vod
  MaxGeneration,  \* model bound: placement generations
  Slots,          \* concurrency_limit
  MaxJobs,        \* MAX_JOBS_RETAINED (10,000 in the code)
  LastJob         \* model bound: job ids handed out

JobIds == 1 .. LastJob
Generations == 1 .. MaxGeneration
Requests == [res : Resources, gen : Generations]

ASSUME KindAssumption == Resources # {} /\ Vod \subseteq Resources
ASSUME LimitsAssumption ==
  /\ MaxGeneration \in Nat \ {0} /\ Slots \in Nat /\ MaxJobs \in Nat
  /\ LastJob \in Nat

VARIABLES
  handler,    \* handler[h]: where the request is, its job, the job it replaces
  request,    \* request[j]: what job id j was allocated for
  nextJob,    \* next_job_id; its seed differs in every process
  fence,      \* fence[a]: generation in the newest fence snapshot on disk
  active,     \* active[a]: the job the registry holds for a, if any
  jobs,       \* jobs[j]: state in the job registry
  task,       \* task[j]: the tokio task that runs the encoder
  cancels,    \* jobs with a sender in cancellations
  signalled,  \* jobs whose cancellation was sent
  held,       \* jobs that hold a permit of the semaphore
  accepted    \* history: jobs whose assignment was ever accepted

workerVars == <<handler, request, nextJob, fence, active, jobs, task, cancels,
          signalled, held, accepted>>

Idle == [pc |-> "idle", job |-> 0, replaced |-> {}]
Steps == {"insert", "commit", "cancel", "start"}

\* Every variable has the shape of the field it stands for, and permits are
\* within the semaphore's limit.
WorkerTypeOK ==
  /\ handler \in [Handlers -> [pc : Steps \cup {"idle"}, job : 0 .. LastJob,
                               replaced : SUBSET JobIds]]
  /\ \A h \in Handlers : handler[h].pc # "idle" => handler[h].job \in JobIds
  /\ request \in [JobIds -> Requests]
  /\ nextJob \in 1 .. (LastJob + 1)
  /\ fence \in [Resources -> 0 .. MaxGeneration]
  /\ active \in [Resources -> SUBSET JobIds]
  /\ jobs \in [JobIds -> {"none", "queued", "running", "succeeded", "failed",
                          "stopped"}]
  /\ task \in [JobIds -> {"none", "waiting", "encoding"}]
  /\ cancels \in SUBSET JobIds /\ signalled \in SUBSET JobIds
  /\ held \in SUBSET JobIds /\ Cardinality(held) <= Slots
  /\ accepted \in SUBSET JobIds

\* A worker on an empty state directory.
WorkerInit ==
  /\ handler = [h \in Handlers |-> Idle]
  /\ request = [j \in JobIds |-> CHOOSE r \in Requests : TRUE]
  /\ nextJob = 1
  /\ fence = [a \in Resources |-> 0]
  /\ active = [a \in Resources |-> {}]
  /\ jobs = [j \in JobIds |-> "none"]
  /\ task = [j \in JobIds |-> "none"]
  /\ cancels = {} /\ signalled = {} /\ held = {} /\ accepted = {}

Resource(j) == request[j].res
Generation(j) == request[j].gen
NeedsPermitFirst(a) == a \notin Vod

-----------------------------------------------------------------------------
(* create_job, create_live_job and create_realtime_job.                    *)

\* A live or realtime request takes a permit or is refused; a job id is
\* allocated.
Begin(h, r) ==
  /\ handler[h].pc = "idle" /\ nextJob \in JobIds
  /\ NeedsPermitFirst(r.res) => Cardinality(held) < Slots
  /\ handler' = [handler EXCEPT ![h] = [pc |-> "insert", job |-> nextJob,
                                        replaced |-> {}]]
  /\ request' = [request EXCEPT ![nextJob] = r]
  /\ nextJob' = nextJob + 1
  /\ held' = IF NeedsPermitFirst(r.res) THEN held \cup {nextJob} ELSE held
  /\ UNCHANGED <<fence, active, jobs, task, cancels, signalled, accepted>>

\* A full job registry, an error before insert_job, or a client that leaves at
\* one of the awaits before it: the permit is dropped with the handler.
Abandon(h) ==
  /\ handler[h].pc = "insert"
  /\ handler' = [handler EXCEPT ![h] = Idle]
  /\ held' = held \ {handler[h].job}
  /\ UNCHANGED <<request, nextJob, fence, active, jobs, task, cancels,
                 signalled, accepted>>

\* insert_job, unless the registry is full.
InsertJob(h) ==
  /\ handler[h].pc = "insert"
  /\ Cardinality({j \in JobIds : jobs[j] # "none"}) < MaxJobs
  /\ jobs' = [jobs EXCEPT ![handler[h].job] = "queued"]
  /\ handler' = [handler EXCEPT ![h].pc = "commit"]
  /\ UNCHANGED <<request, nextJob, fence, active, task, cancels, signalled,
                 held, accepted>>

\* Mutant of NewerThanFence: fences are not read back after a restart.
NewerThanActive(j) ==
  \A i \in active[Resource(j)] : Generation(j) > Generation(i)

\* The comparisons of commit_assignment that let a generation pass.
NewerThanFence(j) ==
  /\ \A i \in active[Resource(j)] : Generation(j) > Generation(i)
  /\ Generation(j) > fence[Resource(j)]

\* commit_assignment accepts: the fence is on disk, the registry holds the
\* job, the handler learns which job it replaced.
Accept(h) ==
  LET j == handler[h].job a == Resource(j) IN
    /\ handler[h].pc = "commit"
    /\ NewerThanFence(j)
    /\ fence' = [fence EXCEPT ![a] = Generation(j)]
    /\ active' = [active EXCEPT ![a] = {j}]
    /\ accepted' = accepted \cup {j}
    /\ handler' = [handler EXCEPT ![h] = [@ EXCEPT !.pc = "cancel",
                                                   !.replaced = active[a]]]
    /\ UNCHANGED <<request, nextJob, jobs, task, cancels, signalled, held>>

\* Mutant of Refuse: the permit stays taken.
RefuseKeepingPermit(h) ==
  /\ handler[h].pc = "commit"
  /\ jobs' = [jobs EXCEPT ![handler[h].job] = "none"]
  /\ handler' = [handler EXCEPT ![h] = Idle]
  /\ UNCHANGED <<request, nextJob, fence, active, task, cancels, signalled,
                 held, accepted>>

\* commit_assignment answers with the existing job (the generation and job key
\* of the active one), or with an error: a stale, conflicting or consumed
\* generation, or a fence that could not be written, which may befall any
\* request.  In each case remove_job, and the permit is dropped.
Refuse(h) ==
  /\ handler[h].pc = "commit"
  /\ jobs' = [jobs EXCEPT ![handler[h].job] = "none"]
  /\ handler' = [handler EXCEPT ![h] = Idle]
  /\ held' = held \ {handler[h].job}
  /\ UNCHANGED <<request, nextJob, fence, active, task, cancels, signalled,
                 accepted>>

\* Mutant of CancelReplaced: the replaced encoder is left alone.
CancelReplacedNever(h) ==
  /\ handler[h].pc = "cancel"
  /\ handler' = [handler EXCEPT ![h].pc = "start"]
  /\ UNCHANGED <<request, nextJob, fence, active, jobs, task, cancels,
                 signalled, held, accepted>>

\* cancel_replaced_job: nothing happens when no sender is registered.
CancelReplaced(h) ==
  LET found == handler[h].replaced \cap cancels IN
    /\ handler[h].pc = "cancel"
    /\ cancels' = cancels \ found
    /\ signalled' = signalled \cup found
    /\ handler' = [handler EXCEPT ![h].pc = "start"]
    /\ UNCHANGED <<request, nextJob, fence, active, jobs, task, held,
                   accepted>>

\* The cancellation is registered and the task spawned.
StartJob(h) ==
  /\ handler[h].pc = "start"
  /\ cancels' = cancels \cup {handler[h].job}
  /\ task' = [task EXCEPT ![handler[h].job] = "waiting"]
  /\ handler' = [handler EXCEPT ![h] = Idle]
  /\ UNCHANGED <<request, nextJob, fence, active, jobs, signalled, held,
                 accepted>>

-----------------------------------------------------------------------------
(* run_job and run_live_job.                                               *)

\* finish_job_task, finish_live_task and the end of the task.
Finish(j, state) ==
  /\ jobs' = [jobs EXCEPT ![j] = state]
  /\ task' = [task EXCEPT ![j] = "none"]
  /\ cancels' = cancels \ {j}
  /\ signalled' = signalled \ {j}
  /\ held' = held \ {j}
  /\ UNCHANGED <<handler, request, nextJob, fence, active, accepted>>

\* The encoder starts; a VOD job waits for its permit first.
RunStarts(j) ==
  /\ task[j] = "waiting"
  /\ j \notin held => Cardinality(held) < Slots
  /\ held' = held \cup {j}
  /\ jobs' = [jobs EXCEPT ![j] = "running"]
  /\ task' = [task EXCEPT ![j] = "encoding"]
  /\ UNCHANGED <<handler, request, nextJob, fence, active, cancels,
                 signalled, accepted>>

\* The encoder cannot be spawned.
SpawnFails(j) ==
  /\ task[j] = "waiting"
  /\ j \notin held => Cardinality(held) < Slots
  /\ Finish(j, "failed")

\* A VOD job is cancelled while it waits for a permit.
CancelledWaiting(j) ==
  /\ task[j] = "waiting" /\ Resource(j) \in Vod /\ j \in signalled
  /\ Finish(j, "stopped")

\* The encoder exits by itself.
Exits(j) ==
  /\ task[j] = "encoding"
  /\ \E state \in {"succeeded", "failed"} : Finish(j, state)

\* The select sees the cancellation and kills the encoder.
Stops(j) ==
  /\ task[j] = "encoding" /\ j \in signalled
  /\ Finish(j, "stopped")

\* stop_live_job: DELETE of a job with a registered sender.
StopJob(j) ==
  /\ j \in cancels
  /\ cancels' = cancels \ {j}
  /\ signalled' = signalled \cup {j}
  /\ UNCHANGED <<handler, request, nextJob, fence, active, jobs, task, held,
                 accepted>>

\* The process ends, with its encoders, and load_assignment_registry reads
\* the fences back.
Restart ==
  /\ handler' = [h \in Handlers |-> Idle]
  /\ active' = [a \in Resources |-> {}]
  /\ jobs' = [j \in JobIds |-> "none"]
  /\ task' = [j \in JobIds |-> "none"]
  /\ cancels' = {} /\ signalled' = {} /\ held' = {}
  /\ UNCHANGED <<request, nextJob, fence, accepted>>

-----------------------------------------------------------------------------
HandlerStep(h) ==
  Abandon(h) \/ InsertJob(h) \/ Accept(h) \/ Refuse(h) \/ CancelReplaced(h)
    \/ StartJob(h)

TaskStep(j) ==
  RunStarts(j) \/ SpawnFails(j) \/ CancelledWaiting(j) \/ Exits(j) \/ Stops(j)

WorkerNext ==
  \/ \E h \in Handlers : (\E r \in Requests : Begin(h, r)) \/ HandlerStep(h)
  \/ \E j \in JobIds : TaskStep(j) \/ StopJob(j)
  \/ Restart

WorkerSpec == WorkerInit /\ [][WorkerNext]_workerVars

\* The runtime polls every handler and every task that is ready.  An encoder
\* need not exit by itself.
WorkerFairness ==
  /\ \A h \in Handlers : WF_workerVars(HandlerStep(h))
  /\ \A j \in JobIds : /\ WF_workerVars(RunStarts(j) \/ SpawnFails(j))
                       /\ WF_workerVars(CancelledWaiting(j))
                       /\ WF_workerVars(Stops(j))

WorkerFairSpec == WorkerSpec /\ WorkerFairness

-----------------------------------------------------------------------------
(* Properties.                                                             *)

\* A step that accepts a job.
AcceptedNewer ==
  \A j \in accepted' \ accepted : \A i \in accepted :
    Resource(i)' = Resource(j)' => Generation(i)' < Generation(j)'

\* Across any restarts, a worker accepts a placement generation once and
\* never after a newer one ("same generation must not revive a job after
\* restart").
NoGenerationRevived == [][AcceptedNewer]_workerVars

InFlight == {handler[h].job : h \in {x \in Handlers : handler[x].pc # "idle"}}
Running == {j \in JobIds : task[j] # "none"}

\* Every encoder has a permit, and every permit belongs to a request in
\* progress or to a task: no refusal, failure or cancellation leaks one.
PermitsAreAccountedFor ==
  /\ \A j \in JobIds : task[j] = "encoding" => j \in held
  /\ held \subseteq InFlight \cup Running

\* A task can be stopped as long as it runs: its sender is registered, or was
\* used.
RunningCanBeStopped == Running \subseteq cancels \cup signalled

\* A resource has one encoder task that was not told to stop: "an old fencing
\* generation must never regain write permission".
OneEncoderPerResource ==
  \A i, j \in Running \ signalled : Resource(i) = Resource(j) => i = j

\* A job that is running when a newer generation replaces it stops, whatever
\* handlers and tasks do meanwhile.
ReplacedStops ==
  \A j \in JobIds :
    (/\ j \in Running
     /\ \E h \in Handlers : handler[h].pc = "cancel"
                              /\ j \in handler[h].replaced)
      ~> j \notin Running

\* The worker's books are right at every moment, through refusals, failures
\* and restarts: no permit beyond the limit, none leaked, no encoder without
\* one, and no task that cannot be stopped.
TasksAreAccountedFor ==
  /\ WorkerTypeOK /\ PermitsAreAccountedFor /\ RunningCanBeStopped
=============================================================================

---------------------------- MODULE WorkerProofs ----------------------------
(***************************************************************************)
(* Proofs about WorkerAssignments, for any handlers, resources, slots,     *)
(* retained jobs and numbers of generations and jobs.                      *)
(***************************************************************************)
EXTENDS WorkerAssignments, FiniteSetTheorems, TLAPS

HandlerState == [pc : Steps \cup {"idle"}, job : 0 .. LastJob,
                 replaced : SUBSET JobIds]

JobState == {"none", "queued", "running", "succeeded", "failed", "stopped"}

-----------------------------------------------------------------------------
(* Encoder slots.                                                          *)

\* Giving a permit back never exceeds the limit.
LEMMA ReleasePermit ==
  ASSUME WorkerTypeOK, NEW j
  PROVE  (held \ {j}) \in SUBSET JobIds /\ Cardinality(held \ {j}) <= Slots
<1>1. IsFiniteSet(JobIds)
  BY FS_Interval, LimitsAssumption DEF JobIds
<1>2. IsFiniteSet(held) /\ held \in SUBSET JobIds /\ Cardinality(held) <= Slots
  BY <1>1, FS_Subset DEF WorkerTypeOK
<1>3. /\ Cardinality(held) \in Nat
      /\ Cardinality(held \ {j}) =
           IF j \in held THEN Cardinality(held) - 1 ELSE Cardinality(held)
  BY <1>2, FS_RemoveElement, FS_CardinalityType
<1> QED
  BY <1>2, <1>3, LimitsAssumption

\* A permit is taken only while one is left, or kept by its holder.
LEMMA TakePermit ==
  ASSUME WorkerTypeOK, NEW j \in JobIds,
         j \notin held => Cardinality(held) < Slots
  PROVE  held \cup {j} \in SUBSET JobIds /\ Cardinality(held \cup {j}) <= Slots
<1>1. IsFiniteSet(JobIds)
  BY FS_Interval, LimitsAssumption DEF JobIds
<1>2. IsFiniteSet(held) /\ held \in SUBSET JobIds /\ Cardinality(held) <= Slots
  BY <1>1, FS_Subset DEF WorkerTypeOK
<1>3. /\ Cardinality(held) \in Nat
      /\ Cardinality(held \cup {j}) =
           IF j \in held THEN Cardinality(held) ELSE Cardinality(held) + 1
  BY <1>2, FS_AddElement, FS_CardinalityType
<1> QED
  BY <1>2, <1>3, LimitsAssumption

-----------------------------------------------------------------------------
(* Type correctness.                                                       *)

LEMMA InitType == WorkerInit => WorkerTypeOK
<1> SUFFICES ASSUME WorkerInit PROVE WorkerTypeOK
  OBVIOUS
<1>1. \E r : r \in Requests
  <2>1. PICK a \in Resources : TRUE
    BY KindAssumption
  <2>2. 1 \in Generations
    BY LimitsAssumption DEF Generations
  <2>3. [res |-> a, gen |-> 1] \in Requests
    BY <2>2 DEF Requests
  <2> QED
    BY <2>3
<1>2. (CHOOSE r \in Requests : TRUE) \in Requests
  BY <1>1
<1>3. Idle \in HandlerState
  BY LimitsAssumption DEF Idle, HandlerState, Steps
<1>4. Cardinality({}) = 0
  BY FS_EmptySet
<1> QED
  BY <1>2, <1>3, <1>4, LimitsAssumption
     DEF WorkerInit, WorkerTypeOK, Idle, HandlerState, JobIds

\* The entry of a handler, and the job of a handler at work.
LEMMA HandlerTypes ==
  ASSUME WorkerTypeOK, NEW h \in Handlers
  PROVE  /\ Idle \in HandlerState /\ handler[h] \in HandlerState
         /\ handler[h].pc # "idle" => handler[h].job \in JobIds
  BY LimitsAssumption DEF WorkerTypeOK, Idle, HandlerState, Steps

\* What a step of h may do to the handlers' entries.
HandlerWell(h) ==
  /\ handler' \in [Handlers -> HandlerState]
  /\ \A g \in Handlers : g # h => handler'[g] = handler[g]
  /\ handler'[h].pc # "idle" => handler'[h].job \in JobIds

LEMMA WellIsTyped ==
  ASSUME WorkerTypeOK, NEW h \in Handlers, HandlerWell(h)
  PROVE  /\ handler' \in [Handlers -> HandlerState]
         /\ \A g \in Handlers :
              handler'[g].pc # "idle" => handler'[g].job \in JobIds
<1>1. \A g \in Handlers : handler[g].pc # "idle" => handler[g].job \in JobIds
  BY DEF WorkerTypeOK
<1> QED
  BY <1>1 DEF HandlerWell

LEMMA BeginType ==
  ASSUME WorkerTypeOK, NEW h \in Handlers, NEW r \in Requests, Begin(h, r)
  PROVE  WorkerTypeOK'
<1>1. nextJob \in JobIds /\ nextJob \in 0 .. LastJob
  BY LimitsAssumption DEF Begin, JobIds
<1> DEFINE new == [pc |-> "insert", job |-> nextJob, replaced |-> {}]
<1>2. new \in HandlerState
  BY <1>1 DEF HandlerState, Steps
<1>3. HandlerWell(h)
  BY <1>1, <1>2 DEF Begin, HandlerWell, WorkerTypeOK, HandlerState
<1>4. held' \in SUBSET JobIds /\ Cardinality(held') <= Slots
  BY <1>1, TakePermit DEF Begin, WorkerTypeOK
<1>5. nextJob' \in 1 .. (LastJob + 1)
  BY <1>1, LimitsAssumption DEF Begin, JobIds
<1> QED
  BY <1>3, <1>4, <1>5, WellIsTyped DEF Begin, WorkerTypeOK, HandlerState

LEMMA HandlerStepType ==
  ASSUME WorkerTypeOK, NEW h \in Handlers, HandlerStep(h)
  PROVE  WorkerTypeOK'
<1> DEFINE j == handler[h].job
<1>1. /\ Idle \in HandlerState /\ handler[h] \in HandlerState
      /\ handler[h].pc # "idle" => j \in JobIds
      /\ handler \in [Handlers -> HandlerState]
  BY HandlerTypes DEF WorkerTypeOK, HandlerState
<1>2. /\ (held \ {j}) \in SUBSET JobIds
      /\ Cardinality(held \ {j}) <= Slots
  BY ReleasePermit
<1>3. CASE Abandon(h) \/ Refuse(h)
  <2>1. HandlerWell(h)
    <3>1. handler' = [handler EXCEPT ![h] = Idle]
      BY <1>3 DEF Abandon, Refuse
    <3>2. Idle.pc = "idle"
      BY DEF Idle
    <3> QED
      BY <1>1, <3>1, <3>2 DEF HandlerWell
  <2>2. jobs' \in [JobIds -> JobState]
    BY <1>3 DEF Abandon, Refuse, WorkerTypeOK, JobState
  <2> QED
    BY <1>2, <1>3, <2>1, <2>2, WellIsTyped
       DEF Abandon, Refuse, WorkerTypeOK, HandlerState, JobState
<1>4. ASSUME NEW p \in Steps,
             handler' = [handler EXCEPT ![h].pc = p], handler[h].pc # "idle"
      PROVE  HandlerWell(h)
  <2>1. [handler[h] EXCEPT !.pc = p] \in HandlerState
    BY <1>1 DEF HandlerState
  <2>2. [handler[h] EXCEPT !.pc = p].job = j
    BY <1>1 DEF HandlerState
  <2> QED
    BY <1>1, <1>4, <2>1, <2>2 DEF HandlerWell
<1>5. CASE InsertJob(h)
  <2>1. HandlerWell(h)
    BY <1>4, <1>5 DEF InsertJob, Steps
  <2> QED
    BY <1>5, <2>1, WellIsTyped DEF InsertJob, WorkerTypeOK, HandlerState
<1>6. CASE CancelReplaced(h)
  <2>1. HandlerWell(h)
    BY <1>4, <1>6 DEF CancelReplaced, Steps
  <2> QED
    BY <1>6, <2>1, WellIsTyped DEF CancelReplaced, WorkerTypeOK, HandlerState
<1>7. CASE StartJob(h)
  <2>1. HandlerWell(h)
    BY <1>1, <1>7 DEF StartJob, HandlerWell, Idle
  <2> QED
    BY <1>1, <1>7, <2>1, WellIsTyped DEF StartJob, WorkerTypeOK, HandlerState
<1>8. CASE Accept(h)
  <2>1. /\ j \in JobIds /\ Resource(j) \in Resources
        /\ Generation(j) \in Generations
    BY <1>1, <1>8 DEF Accept, WorkerTypeOK, Resource, Generation, Requests
  <2>2. active[Resource(j)] \in SUBSET JobIds
    BY <2>1 DEF WorkerTypeOK
  <2> DEFINE new == [handler[h] EXCEPT !.pc = "cancel",
                                       !.replaced = active[Resource(j)]]
  <2>3. new \in HandlerState /\ new.job = j
    BY <1>1, <2>2 DEF HandlerState, Steps
  <2>4. handler' = [handler EXCEPT ![h] = new]
    BY <1>8 DEF Accept
  <2>5. HandlerWell(h)
    <3> HIDE DEF new
    <3> QED
      BY <1>1, <2>1, <2>3, <2>4 DEF HandlerWell
  <2>6. fence' \in [Resources -> 0 .. MaxGeneration]
    BY <1>8, <2>1, LimitsAssumption DEF Accept, WorkerTypeOK, Generations
  <2>7. active' \in [Resources -> SUBSET JobIds]
    BY <1>8, <2>1 DEF Accept, WorkerTypeOK
  <2> QED
    BY <1>8, <2>1, <2>5, <2>6, <2>7, WellIsTyped
       DEF Accept, WorkerTypeOK, HandlerState
<1> QED
  BY <1>3, <1>5, <1>6, <1>7, <1>8 DEF HandlerStep

LEMMA TaskStepType ==
  ASSUME WorkerTypeOK, NEW j \in JobIds, TaskStep(j) \/ StopJob(j)
  PROVE  WorkerTypeOK'
<1>1. ASSUME NEW s \in JobState, Finish(j, s)
      PROVE  WorkerTypeOK'
  <2>1. held' \in SUBSET JobIds /\ Cardinality(held') <= Slots
    BY <1>1, ReleasePermit DEF Finish
  <2> QED
    BY <1>1, <2>1 DEF Finish, WorkerTypeOK, JobState
<1>2. CASE RunStarts(j)
  <2>1. held' \in SUBSET JobIds /\ Cardinality(held') <= Slots
    BY <1>2, TakePermit DEF RunStarts
  <2> QED
    BY <1>2, <2>1 DEF RunStarts, WorkerTypeOK
<1>3. CASE StopJob(j)
  BY <1>3 DEF StopJob, WorkerTypeOK
<1>4. CASE SpawnFails(j) \/ CancelledWaiting(j) \/ Exits(j) \/ Stops(j)
  BY <1>1, <1>4 DEF SpawnFails, CancelledWaiting, Exits, Stops, JobState
<1> QED
  BY <1>2, <1>3, <1>4 DEF TaskStep

LEMMA RestartType == WorkerTypeOK /\ Restart => WorkerTypeOK'
<1> SUFFICES ASSUME WorkerTypeOK, Restart PROVE WorkerTypeOK'
  OBVIOUS
<1>1. Idle \in HandlerState
  BY LimitsAssumption DEF Idle, HandlerState, Steps
<1>2. Cardinality({}) = 0
  BY FS_EmptySet
<1> QED
  BY <1>1, <1>2, LimitsAssumption DEF Restart, WorkerTypeOK, HandlerState, Idle

LEMMA NextType == WorkerTypeOK /\ [WorkerNext]_workerVars => WorkerTypeOK'
<1> SUFFICES ASSUME WorkerTypeOK, [WorkerNext]_workerVars PROVE WorkerTypeOK'
  OBVIOUS
<1>1. CASE UNCHANGED workerVars
  BY <1>1 DEF workerVars, WorkerTypeOK
<1> QED
  BY <1>1, BeginType, HandlerStepType, TaskStepType, RestartType DEF WorkerNext

\* Type correctness: the worker's tables keep their shape and no more permits
\* are out than the semaphore has, through any failures and restarts.
THEOREM TypeCorrect == WorkerSpec => []WorkerTypeOK
  BY InitType, NextType, PTL DEF WorkerSpec

-----------------------------------------------------------------------------
(* The handlers at work, and what a step does to their jobs.               *)

Busy == {g \in Handlers : handler[g].pc # "idle"}

LEMMA BeginEnters ==
  ASSUME WorkerTypeOK, NEW h \in Handlers, NEW r \in Requests, Begin(h, r)
  PROVE  /\ h \notin Busy /\ Busy' = Busy \cup {h}
         /\ handler'[h].job = nextJob
         /\ \A g \in Busy : handler'[g] = handler[g]
<1> DEFINE new == [pc |-> "insert", job |-> nextJob, replaced |-> {}]
<1>1. new.pc = "insert" /\ new.job = nextJob
  OBVIOUS
<1>2. handler' = [handler EXCEPT ![h] = new] /\ handler[h].pc = "idle"
  BY DEF Begin
<1>3. handler \in [Handlers -> HandlerState]
  BY DEF WorkerTypeOK, HandlerState
<1> HIDE DEF new
<1> QED
  BY <1>1, <1>2, <1>3 DEF Busy

\* Steps after which the handler goes on with the same job.
LEMMA StepProceeds ==
  ASSUME WorkerTypeOK, NEW h \in Handlers,
         InsertJob(h) \/ Accept(h) \/ CancelReplaced(h)
  PROVE  /\ h \in Busy /\ Busy' = Busy
         /\ \A g \in Handlers : handler'[g].job = handler[g].job
<1>1. handler \in [Handlers -> HandlerState]
  BY DEF WorkerTypeOK, HandlerState
<1>2. handler[h].pc # "idle"
  BY DEF InsertJob, Accept, CancelReplaced
<1>3. ASSUME NEW p \in Steps, handler' = [handler EXCEPT ![h].pc = p]
      PROVE  /\ handler'[h].pc # "idle" /\ handler'[h].job = handler[h].job
             /\ \A g \in Handlers \ {h} : handler'[g] = handler[g]
  <2> DEFINE new == [handler[h] EXCEPT !.pc = p]
  <2>1. new.pc # "idle" /\ new.job = handler[h].job
    BY <1>1 DEF HandlerState, Steps
  <2>2. handler' = [handler EXCEPT ![h] = new]
    BY <1>3
  <2> HIDE DEF new
  <2> QED
    BY <1>1, <2>1, <2>2
<1>4. /\ handler'[h].pc # "idle" /\ handler'[h].job = handler[h].job
      /\ \A g \in Handlers \ {h} : handler'[g] = handler[g]
  <2>1. CASE InsertJob(h) \/ CancelReplaced(h)
    BY <1>3, <2>1 DEF InsertJob, CancelReplaced, Steps
  <2>2. CASE Accept(h)
    <3> DEFINE new == [handler[h] EXCEPT !.pc = "cancel",
                         !.replaced = active[Resource(handler[h].job)]]
    <3>1. new.pc # "idle" /\ new.job = handler[h].job
      BY <1>1 DEF HandlerState
    <3>2. handler' = [handler EXCEPT ![h] = new]
      BY <2>2 DEF Accept
    <3> HIDE DEF new
    <3> QED
      BY <1>1, <3>1, <3>2
  <2> QED
    BY <2>1, <2>2
<1> QED
  BY <1>2, <1>4 DEF Busy

\* Steps that end the request.
LEMMA StepLeaves ==
  ASSUME WorkerTypeOK, NEW h \in Handlers,
         Abandon(h) \/ Refuse(h) \/ StartJob(h)
  PROVE  /\ h \in Busy /\ Busy' = Busy \ {h}
         /\ \A g \in Handlers \ {h} : handler'[g] = handler[g]
<1>1. handler' = [handler EXCEPT ![h] = Idle] /\ handler[h].pc # "idle"
  BY DEF Abandon, Refuse, StartJob
<1>2. handler \in [Handlers -> HandlerState] /\ Idle.pc = "idle"
  BY DEF WorkerTypeOK, HandlerState, Idle
<1> QED
  BY <1>1, <1>2 DEF Busy

LEMMA RestartEnds == Restart => Busy' = {}
  BY DEF Restart, Busy, Idle

-----------------------------------------------------------------------------
(* The inductive invariant.                                                *)

\* Nothing in the worker knows a job id that was not handed out.
Fresh ==
  /\ \A g \in Busy : handler[g].job < nextJob
  /\ \A j \in JobIds : task[j] # "none" \/ j \in accepted => j < nextJob

\* A job belongs to one handler, and to a task only when no handler has it.
Apart ==
  /\ \A g, h \in Busy : handler[g].job = handler[h].job => g = h
  /\ \A g \in Busy : task[handler[g].job] = "none"

\* The fence of a resource is at or above every generation accepted for it.
Fenced == \A i \in accepted : Generation(i) <= fence[Resource(i)]

Inv ==
  /\ WorkerTypeOK /\ Fresh /\ Apart /\ Fenced
  /\ PermitsAreAccountedFor /\ RunningCanBeStopped

LEMMA InitInv == WorkerInit => Inv
<1> SUFFICES ASSUME WorkerInit PROVE Inv
  OBVIOUS
<1>1. WorkerTypeOK
  BY InitType
<1>2. Busy = {} /\ Running = {}
  BY DEF WorkerInit, Busy, Running, Idle
<1>3. Fresh /\ Apart /\ Fenced
  BY <1>2 DEF Fresh, Apart, Fenced, WorkerInit
<1>4. PermitsAreAccountedFor /\ RunningCanBeStopped
  BY <1>2 DEF PermitsAreAccountedFor, RunningCanBeStopped, WorkerInit
<1> QED
  BY <1>1, <1>3, <1>4 DEF Inv

LEMMA JobsOfBusy ==
  ASSUME WorkerTypeOK
  PROVE  /\ \A g \in Busy : g \in Handlers /\ handler[g].job \in JobIds
         /\ InFlight = {handler[g].job : g \in Busy}
         /\ JobIds \subseteq Nat /\ nextJob \in Nat
         /\ \A i \in JobIds : /\ Resource(i) \in Resources
                             /\ Generation(i) \in Nat
         /\ \A a \in Resources : fence[a] \in Nat
  BY LimitsAssumption
     DEF WorkerTypeOK, Busy, InFlight, JobIds, Requests, Resource, Generation,
         Generations

LEMMA BeginInv ==
  ASSUME Inv, NEW h \in Handlers, NEW r \in Requests, Begin(h, r)
  PROVE  Inv'
<1>1. WorkerTypeOK /\ WorkerTypeOK'
  BY BeginType DEF Inv
<1>2. /\ h \notin Busy /\ Busy' = Busy \cup {h} /\ handler'[h].job = nextJob
      /\ \A g \in Busy : handler'[g] = handler[g]
  BY <1>1, BeginEnters
<1>3. /\ nextJob \in JobIds /\ nextJob' = nextJob + 1
      /\ task' = task /\ accepted' = accepted /\ fence' = fence
      /\ cancels' = cancels /\ signalled' = signalled
      /\ held' \subseteq held \cup {nextJob} /\ held \subseteq held'
      /\ request' = [request EXCEPT ![nextJob] = r]
  BY DEF Begin
<1>4. Fresh'
  BY <1>1, <1>2, <1>3, JobsOfBusy DEF Inv, Fresh
<1>5. Apart'
  BY <1>1, <1>2, <1>3, JobsOfBusy DEF Inv, Apart, Fresh
<1>6. Fenced'
  <2>1. \A i \in accepted : i \in JobIds /\ i # nextJob
    <3>1. accepted \subseteq JobIds
      BY <1>1 DEF WorkerTypeOK
    <3>2. nextJob \in Nat /\ JobIds \subseteq Nat
      BY <1>1, JobsOfBusy
    <3> QED
      BY <3>1, <3>2 DEF Inv, Fresh
  <2>2. \A i \in accepted : request'[i] = request[i]
    BY <1>1, <1>3, <2>1 DEF WorkerTypeOK
  <2> QED
    BY <1>3, <2>2 DEF Inv, Fenced, Generation, Resource
<1>7. PermitsAreAccountedFor'
  <2>1. InFlight \cup {nextJob} \subseteq InFlight'
    BY <1>1, <1>2 DEF InFlight, Busy, WorkerTypeOK
  <2> QED
    BY <1>3, <2>1 DEF Inv, PermitsAreAccountedFor, Running
<1>8. RunningCanBeStopped'
  BY <1>3 DEF Inv, RunningCanBeStopped, Running
<1> QED
  BY <1>1, <1>4, <1>5, <1>6, <1>7, <1>8 DEF Inv

LEMMA ProceedInv ==
  ASSUME Inv, NEW h \in Handlers,
         InsertJob(h) \/ Accept(h) \/ CancelReplaced(h)
  PROVE  Inv'
<1>1. WorkerTypeOK /\ WorkerTypeOK'
  BY HandlerStepType DEF Inv, HandlerStep
<1>2. /\ h \in Busy /\ Busy' = Busy
      /\ \A g \in Handlers : handler'[g].job = handler[g].job
  BY <1>1, StepProceeds
<1>3. /\ nextJob' = nextJob /\ task' = task /\ held' = held
      /\ request' = request
      /\ cancels' \cup signalled' = cancels \cup signalled
  BY DEF InsertJob, Accept, CancelReplaced
<1>4. accepted' \subseteq accepted \cup {handler[h].job}
  BY DEF InsertJob, Accept, CancelReplaced
<1>5. Fresh'
  BY <1>1, <1>2, <1>3, <1>4, JobsOfBusy DEF Inv, Fresh
<1>6. Apart'
  BY <1>1, <1>2, <1>3, JobsOfBusy DEF Inv, Apart
<1>7. Fenced'
  <2>1. CASE InsertJob(h) \/ CancelReplaced(h)
    BY <2>1 DEF InsertJob, CancelReplaced, Inv, Fenced, Generation, Resource
  <2>2. CASE Accept(h)
    <3> DEFINE j == handler[h].job
    <3>1. /\ Generation(j) > fence[Resource(j)] /\ j \in JobIds
          /\ accepted \subseteq JobIds
          /\ accepted' = accepted \cup {j}
          /\ fence' = [fence EXCEPT ![Resource(j)] = Generation(j)]
          /\ fence \in [Resources -> 0 .. MaxGeneration]
      BY <1>1, <1>2, <2>2, JobsOfBusy DEF Accept, NewerThanFence, WorkerTypeOK
    <3>2. \A i \in JobIds : Resource(i)' = Resource(i)
                           /\ Generation(i)' = Generation(i)
      BY <1>3 DEF Resource, Generation
    <3> HIDE DEF j
    <3>3. \A i \in accepted \cup {j} : Generation(i) <= fence'[Resource(i)]
      BY <1>1, <3>1, JobsOfBusy DEF Inv, Fenced
    <3> QED
      BY <3>1, <3>2, <3>3 DEF Fenced
  <2> QED
    BY <2>1, <2>2
<1>8. PermitsAreAccountedFor'
  <2>1. InFlight' = InFlight
    BY <1>1, <1>2, JobsOfBusy DEF InFlight, Busy
  <2> QED
    BY <1>3, <2>1 DEF Inv, PermitsAreAccountedFor, Running
<1>9. RunningCanBeStopped'
  BY <1>3 DEF Inv, RunningCanBeStopped, Running
<1> QED
  BY <1>1, <1>5, <1>6, <1>7, <1>8, <1>9 DEF Inv

LEMMA LeaveInv ==
  ASSUME Inv, NEW h \in Handlers, Abandon(h) \/ Refuse(h) \/ StartJob(h)
  PROVE  Inv'
<1> DEFINE j == handler[h].job
<1>1. WorkerTypeOK /\ WorkerTypeOK'
  BY HandlerStepType DEF Inv, HandlerStep
<1>2. /\ h \in Busy /\ Busy' = Busy \ {h}
      /\ \A g \in Handlers \ {h} : handler'[g] = handler[g]
      /\ j \in JobIds
  BY <1>1, StepLeaves, JobsOfBusy
<1>3. /\ nextJob' = nextJob /\ request' = request /\ fence' = fence
      /\ accepted' = accepted /\ signalled' = signalled
  BY DEF Abandon, Refuse, StartJob
<1>4. \/ task' = task /\ held' = held \ {j} /\ cancels' = cancels
      \/ /\ task' = [task EXCEPT ![j] = "waiting"] /\ held' = held
         /\ cancels' = cancels \cup {j}
  BY DEF Abandon, Refuse, StartJob
<1>5. /\ task \in [JobIds -> {"none", "waiting", "encoding"}]
      /\ task[j] = "none" /\ j < nextJob
  BY <1>1, <1>2 DEF WorkerTypeOK, Inv, Apart, Fresh
<1> HIDE DEF j
<1>6. Fresh'
  BY <1>1, <1>2, <1>3, <1>4, <1>5, JobsOfBusy DEF Inv, Fresh
<1>7. Apart'
  <2>1. \A g \in Busy' : handler'[g].job # j
    BY <1>1, <1>2, JobsOfBusy DEF Inv, Apart, j
  <2> QED
    BY <1>1, <1>2, <1>4, <1>5, <2>1, JobsOfBusy DEF Inv, Apart
<1>8. Fenced'
  BY <1>3 DEF Inv, Fenced, Generation, Resource
<1>9. PermitsAreAccountedFor'
  <2>1. InFlight \subseteq InFlight' \cup {j}
    BY <1>1, <1>2 DEF InFlight, Busy, j
  <2>2. Running \subseteq Running'
    BY <1>2, <1>4, <1>5 DEF Running
  <2>3. held' \subseteq InFlight' \cup Running'
    BY <1>2, <1>4, <1>5, <2>1, <2>2
       DEF Inv, PermitsAreAccountedFor, Running
  <2>4. \A i \in JobIds : task'[i] = "encoding" => i \in held'
    BY <1>2, <1>4, <1>5 DEF Inv, PermitsAreAccountedFor
  <2> QED
    BY <2>3, <2>4 DEF PermitsAreAccountedFor
<1>10. RunningCanBeStopped'
  BY <1>2, <1>3, <1>4, <1>5 DEF Inv, RunningCanBeStopped, Running
<1> QED
  BY <1>1, <1>6, <1>7, <1>8, <1>9, <1>10 DEF Inv

LEMMA TaskInv ==
  ASSUME Inv, NEW j \in JobIds, TaskStep(j) \/ StopJob(j)
  PROVE  Inv'
<1>1. WorkerTypeOK /\ WorkerTypeOK'
  BY TaskStepType DEF Inv
<1>2. UNCHANGED <<handler, request, nextJob, fence, accepted>>
  BY DEF TaskStep, StopJob, RunStarts, SpawnFails, CancelledWaiting, Exits,
         Stops, Finish
<1>3. Busy' = Busy /\ InFlight' = InFlight
  BY <1>2 DEF Busy, InFlight
<1>4. \/ /\ task' = [task EXCEPT ![j] = "none"] /\ held' = held \ {j}
         /\ cancels' \cup signalled' = (cancels \cup signalled) \ {j}
      \/ /\ task[j] = "waiting" /\ task' = [task EXCEPT ![j] = "encoding"]
         /\ held' = held \cup {j}
         /\ cancels' \cup signalled' = cancels \cup signalled
      \/ /\ task' = task /\ held' = held
         /\ cancels' \cup signalled' = cancels \cup signalled
  BY DEF TaskStep, StopJob, RunStarts, SpawnFails, CancelledWaiting, Exits,
         Stops, Finish
<1>5. task \in [JobIds -> {"none", "waiting", "encoding"}]
  BY <1>1 DEF WorkerTypeOK
<1>6. \A i \in JobIds : task'[i] # "none" => task[i] # "none"
  BY <1>4, <1>5
<1>7. Fresh'
  BY <1>2, <1>3, <1>6 DEF Inv, Fresh
<1>8. Apart'
  BY <1>1, <1>2, <1>3, <1>6, JobsOfBusy DEF Inv, Apart
<1>9. Fenced'
  BY <1>2 DEF Inv, Fenced, Generation, Resource
<1>10. PermitsAreAccountedFor'
  BY <1>3, <1>4, <1>5 DEF Inv, PermitsAreAccountedFor, Running
<1>11. RunningCanBeStopped'
  BY <1>4, <1>5 DEF Inv, RunningCanBeStopped, Running
<1> QED
  BY <1>1, <1>7, <1>8, <1>9, <1>10, <1>11 DEF Inv

LEMMA RestartInv == Inv /\ Restart => Inv'
<1> SUFFICES ASSUME Inv, Restart PROVE Inv'
  OBVIOUS
<1>1. WorkerTypeOK /\ WorkerTypeOK'
  BY RestartType DEF Inv
<1>2. Busy' = {} /\ Running' = {}
  BY RestartEnds DEF Restart, Running
<1>3. Fresh' /\ Apart'
  BY <1>2 DEF Inv, Fresh, Apart, Restart
<1>4. Fenced'
  BY DEF Inv, Fenced, Restart, Generation, Resource
<1>5. PermitsAreAccountedFor' /\ RunningCanBeStopped'
  BY <1>2 DEF PermitsAreAccountedFor, RunningCanBeStopped, Restart
<1> QED
  BY <1>1, <1>3, <1>4, <1>5 DEF Inv

LEMMA NextInv == Inv /\ [WorkerNext]_workerVars => Inv'
<1> SUFFICES ASSUME Inv, [WorkerNext]_workerVars PROVE Inv'
  OBVIOUS
<1>1. CASE UNCHANGED workerVars
  <2>1. /\ WorkerTypeOK' /\ Busy' = Busy
        /\ InFlight' = InFlight /\ Running' = Running
    BY <1>1 DEF Inv, WorkerTypeOK, Busy, InFlight, Running, workerVars
  <2> QED
    BY <1>1, <2>1 DEF Inv, Fresh, Apart, Fenced, PermitsAreAccountedFor,
                      RunningCanBeStopped, Generation, Resource, workerVars
<1>2. ASSUME NEW h \in Handlers, HandlerStep(h) PROVE Inv'
  BY <1>2, ProceedInv, LeaveInv DEF HandlerStep
<1> QED
  BY <1>1, <1>2, BeginInv, TaskInv, RestartInv DEF WorkerNext

LEMMA Invariance == WorkerSpec => []Inv
  BY InitInv, NextInv, PTL DEF WorkerSpec

-----------------------------------------------------------------------------
(* Theorems.                                                               *)

\* No permit leaks: through refusals, failures, cancellations and restarts,
\* every encoder has a permit and every permit has a request or a task.
THEOREM NoPermitLeaks == WorkerSpec => []PermitsAreAccountedFor
<1>1. Inv => PermitsAreAccountedFor
  BY DEF Inv
<1> QED
  BY <1>1, Invariance, PTL

\* A task never loses its sender: as long as it runs, cancel_replaced_job and
\* stop_live_job can reach it, or one of them has.
THEOREM EveryTaskCanBeStopped == WorkerSpec => []RunningCanBeStopped
<1>1. Inv => RunningCanBeStopped
  BY DEF Inv
<1> QED
  BY <1>1, Invariance, PTL

\* commit_assignment accepts a generation once and never after a newer one,
\* across any number of restarts.
THEOREM GenerationsNeverRevive == WorkerSpec => NoGenerationRevived
<1>1. Inv /\ [WorkerNext]_workerVars => [AcceptedNewer]_workerVars
  <2> SUFFICES ASSUME Inv, WorkerNext PROVE AcceptedNewer
    OBVIOUS
  <2>1. CASE accepted' \subseteq accepted
    BY <2>1 DEF AcceptedNewer
  <2>2. ASSUME NEW h \in Handlers, Accept(h) PROVE AcceptedNewer
    <3> DEFINE k == handler[h].job
    <3>1. /\ request' = request /\ accepted' = accepted \cup {k}
          /\ Generation(k) > fence[Resource(k)]
          /\ h \in Busy /\ k \in JobIds /\ accepted \subseteq JobIds
      BY <2>2, StepProceeds, JobsOfBusy
         DEF Accept, NewerThanFence, Inv, WorkerTypeOK
    <3> HIDE DEF k
    <3>2. \A i \in accepted :
            Resource(i) = Resource(k) => Generation(i) < Generation(k)
      BY <3>1, JobsOfBusy DEF Inv, Fenced
    <3> QED
      BY <3>1, <3>2 DEF AcceptedNewer, Resource, Generation
  <2>3. \/ accepted' \subseteq accepted
        \/ \E h \in Handlers : Accept(h)
    BY DEF WorkerNext, HandlerStep, TaskStep, Begin, Abandon, InsertJob,
           Refuse, CancelReplaced, StartJob, RunStarts, SpawnFails,
           CancelledWaiting, Exits, Stops, Finish, StopJob, Restart
  <2> QED
    BY <2>1, <2>2, <2>3
<1> QED
  BY <1>1, Invariance, PTL DEF WorkerSpec, NoGenerationRevived

\* Every task is accounted for: its permit has a holder and its cancellation
\* an owner, and the worker's tables keep their types.
THEOREM TasksStayAccountedFor == WorkerSpec => []TasksAreAccountedFor
<1>1. Inv => TasksAreAccountedFor
  BY DEF Inv, TasksAreAccountedFor
<1> QED
  BY <1>1, Invariance, PTL
=============================================================================

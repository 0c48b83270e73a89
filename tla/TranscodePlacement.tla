------------------------- MODULE TranscodePlacement -------------------------
(***************************************************************************)
(* One shared transcode of one API server: its entry in the transcode      *)
(* registry, its row in the placement table, and the jobs on the media     *)
(* workers.  Three activities work on them: acquire_transcode provisions,  *)
(* the reconciler replaces a worker that died, release_transcode tears     *)
(* down.  The registry's lock is held while provisioning, and only for the *)
(* comparison and the update while restarting.                             *)
(*                                                                         *)
(* A worker is what WorkerAssignments says of one resource: a fence, the   *)
(* assignment its registry holds, and the encoder.                         *)
(***************************************************************************)
EXTENDS Integers, FiniteSets

CONSTANTS
  Nodes,          \* media-worker nodes
  MaxGeneration,  \* model bound: generations in the placement table
  LastJob         \* model bound: worker job ids

ASSUME PlacementBounds ==
  /\ MaxGeneration \in Nat \ {0} /\ LastJob \in Nat

Generations == 1 .. MaxGeneration
JobIds == 1 .. LastJob
Placement == [node : Nodes, gen : Generations]
Active == [node : Nodes, gen : Generations, job : JobIds]

VARIABLES
  row,      \* the placement row, if any
  active,   \* the ActiveTranscode in the registry, if any
  started,  \* the transcode was ever acquired
  prov,     \* provision_transcode: its step, placement and job
  rec,      \* restart_transcode: its step, the entry it saw, placement, job
  tear,     \* teardown_active_transcode: its step and the entry
  fresh,    \* nodes that are healthy and have heartbeats and capacity
  fence,    \* fence[n]: the worker's fence
  held,     \* held[n]: the assignment in the worker's registry
  encoder,  \* encoder[n]: the job that is running
  nextJob,  \* next worker job id (unique across workers in the model)
  lost      \* history: a request was lost, or the answer of one that worked

transcodeVars ==
  <<row, active, started, prov, rec, tear, fresh, fence, held, encoder,
    nextJob, lost>>

apiVars == <<row, active, started, tear>>
workerVars == <<fence, held, encoder, nextJob, lost>>

NoTask == [pc |-> "idle", old |-> {}, at |-> {}, job |-> 0]

\* Every variable has the shape of the structure it stands for.
TranscodeTypeOK ==
  /\ row \in SUBSET Placement /\ Cardinality(row) <= 1
  /\ active \in SUBSET Active /\ Cardinality(active) <= 1
  /\ started \in BOOLEAN
  /\ prov.pc \in {"idle", "post", "record", "remove"}
  /\ rec.pc \in {"idle", "place", "advance", "post", "record", "install",
                 "delete", "rollback", "remove"}
  /\ \A t \in {prov, rec} : t.at \in SUBSET Placement
                            /\ t.job \in 0 .. LastJob
  /\ tear.pc \in {"idle", "delete", "remove"}
  /\ fresh \in SUBSET Nodes
  /\ fence \in [Nodes -> 0 .. MaxGeneration]
  /\ encoder \in [Nodes -> SUBSET JobIds]
  /\ \A n \in Nodes : Cardinality(encoder[n]) <= 1
  /\ nextJob \in 1 .. (LastJob + 1)
  /\ lost \in BOOLEAN

TranscodeInit ==
  /\ row = {} /\ active = {} /\ started = FALSE
  /\ prov = NoTask /\ rec = NoTask /\ tear = NoTask
  /\ fresh = Nodes
  /\ fence = [n \in Nodes |-> 0]
  /\ held = [n \in Nodes |-> {}]
  /\ encoder = [n \in Nodes |-> {}]
  /\ nextJob = 1
  /\ lost = FALSE

-----------------------------------------------------------------------------
(* The placement table.                                                    *)

\* place_service_resource: the row if its node is still eligible, else a new
\* node and the next generation.  There must be an eligible node.
Placed(p) ==
  \/ /\ \E r \in row : r.node \in fresh
     /\ row = {p} /\ UNCHANGED row
  \/ /\ \A r \in row : r.node \notin fresh
     /\ p.node \in fresh
     /\ IF row = {} THEN p.gen = 1 ELSE \A r \in row : p.gen = r.gen + 1
     /\ row' = {p}

\* remove_service_placement_generation.
RemovedGeneration(gen) == row' = {r \in row : r.gen # gen}

-----------------------------------------------------------------------------
(* The worker, for the resource of this transcode.                         *)

\* POST /v1/realtime-jobs accepts: the fence moves, the encoder of the
\* replaced job is cancelled.
WorkerAccepts(p, key, runs) ==
  /\ p.gen > fence[p.node] /\ nextJob \in JobIds
  /\ fence' = [fence EXCEPT ![p.node] = p.gen]
  /\ held' = [held EXCEPT ![p.node] = {[gen |-> p.gen, key |-> key,
                                        job |-> nextJob]}]
  /\ encoder' = [encoder EXCEPT ![p.node] = IF runs THEN {nextJob} ELSE {}]
  /\ nextJob' = nextJob + 1

\* The answer is a job: a new one, or the one already held for the
\* generation and key.
PostSucceeds(p, key, job) ==
  \/ WorkerAccepts(p, key, TRUE) /\ job = nextJob /\ UNCHANGED lost
  \/ /\ \E w \in held[p.node] : w = [gen |-> p.gen, key |-> key, job |-> job]
     /\ UNCHANGED workerVars

\* The answer is an error: no slot or a refused generation; an encoder that
\* did not start; or a timeout after the job was started.
PostFails(p, key) ==
  \/ UNCHANGED workerVars
  \/ WorkerAccepts(p, key, FALSE) /\ UNCHANGED lost
  \/ WorkerAccepts(p, key, TRUE) /\ lost' = TRUE

\* DELETE /v1/realtime-jobs/{job}, best effort.
Deleted(n, job) ==
  \/ encoder' = [encoder EXCEPT ![n] = @ \ {job}] /\ UNCHANGED lost
  \/ lost' = TRUE /\ UNCHANGED encoder

-----------------------------------------------------------------------------
(* acquire_transcode and provision_transcode, under the registry's lock.   *)

ProvPlace(p) ==
  /\ ~started /\ started' = TRUE
  /\ Placed(p)
  /\ prov' = [NoTask EXCEPT !.pc = "post", !.at = {p}]
  /\ UNCHANGED <<active, rec, tear, fresh, workerVars>>

ProvPost(p) ==
  /\ prov.pc = "post" /\ prov.at = {p}
  /\ \/ \E job \in JobIds : /\ PostSucceeds(p, "rtc", job)
                            /\ prov' = [prov EXCEPT !.pc = "record",
                                                    !.job = job]
     \/ PostFails(p, "rtc") /\ prov' = [prov EXCEPT !.pc = "remove"]
  /\ UNCHANGED <<apiVars, rec, fresh>>

\* The recording sink is registered and the entry installed.
ProvInstall(p) ==
  /\ prov.pc = "record" /\ prov.at = {p}
  /\ active' = {[node |-> p.node, gen |-> p.gen, job |-> prov.job]}
  /\ prov' = NoTask
  /\ UNCHANGED <<row, started, tear, rec, fresh, workerVars>>

\* The recording sink is refused: the job is deleted, then the placement.
ProvUndo(p) ==
  /\ prov.pc = "record" /\ prov.at = {p}
  /\ Deleted(p.node, prov.job)
  /\ prov' = [prov EXCEPT !.pc = "remove"]
  /\ UNCHANGED <<apiVars, rec, fresh, fence, held, nextJob>>

ProvRemove(p) ==
  /\ prov.pc = "remove" /\ prov.at = {p}
  /\ RemovedGeneration(p.gen)
  /\ prov' = NoTask
  /\ UNCHANGED <<active, started, tear, rec, fresh, workerVars>>

-----------------------------------------------------------------------------
(* reconcile_worker_probe and restart_transcode.                           *)

\* The probe of the current entry is terminal (the job does not run) or the
\* worker was unavailable for long.
RecBegin(a) ==
  /\ rec.pc = "idle" /\ prov.pc = "idle" /\ active = {a}
  /\ a.job \notin encoder[a.node] \/ a.node \notin fresh
  /\ rec' = [NoTask EXCEPT !.pc = "place", !.old = {a}]
  /\ UNCHANGED <<apiVars, prov, fresh, workerVars>>

\* advance_service_placement, its first transaction.
RecPlace(p) ==
  /\ rec.pc = "place"
  /\ Placed(p)
  /\ rec' = [rec EXCEPT !.pc = "advance", !.at = {p}]
  /\ UNCHANGED <<active, started, tear, prov, fresh, workerVars>>

\* No eligible node.
RecNoCapacity ==
  /\ rec.pc = "place" /\ fresh = {}
  /\ rec' = NoTask
  /\ UNCHANGED <<apiVars, prov, fresh, workerVars>>

\* Its second statement, an UPDATE of the row if it is still at that node.
RecAdvance(p) ==
  LET next == [p EXCEPT !.gen = p.gen + 1] IN
    /\ rec.pc = "advance" /\ rec.at = {p}
    /\ \/ /\ row = {p} /\ next \in Placement
          /\ row' = {next}
          /\ rec' = [rec EXCEPT !.pc = "post", !.at = {next}]
       \/ /\ \A r \in row : r.node # p.node
          /\ rec' = NoTask /\ UNCHANGED row
    /\ UNCHANGED <<active, started, tear, prov, fresh, workerVars>>

RecPost(p) ==
  /\ rec.pc = "post" /\ rec.at = {p}
  /\ \/ \E job \in JobIds : /\ PostSucceeds(p, "restart", job)
                            /\ rec' = [rec EXCEPT !.pc = "record",
                                                  !.job = job]
     \/ PostFails(p, "restart") /\ rec' = [rec EXCEPT !.pc = "remove"]
  /\ UNCHANGED <<apiVars, prov, fresh>>

\* The new recording sink is registered, or refused.
RecRecord(p) ==
  /\ rec.pc = "record" /\ rec.at = {p}
  /\ \/ rec' = [rec EXCEPT !.pc = "install"]
        /\ UNCHANGED <<encoder, lost>>
     \/ rec' = [rec EXCEPT !.pc = "remove"] /\ Deleted(p.node, rec.job)
  /\ UNCHANGED <<apiVars, prov, fresh, fence, held, nextJob>>

\* The registry still has the job that restart_transcode saw.
Unchanged == \E a \in active, old \in rec.old : a.job = old.job

RecInstall(p) ==
  /\ rec.pc = "install" /\ rec.at = {p} /\ prov.pc = "idle"
  /\ \/ /\ Unchanged
        /\ active' = {[node |-> p.node, gen |-> p.gen, job |-> rec.job]}
        /\ rec' = [rec EXCEPT !.pc = "delete"]
     \/ /\ ~Unchanged
        /\ rec' = [rec EXCEPT !.pc = "rollback"]
        /\ UNCHANGED active
  /\ UNCHANGED <<row, started, tear, prov, fresh, workerVars>>

\* The replaced job is deleted at its old worker.
RecDeleteOld ==
  /\ rec.pc = "delete"
  /\ \E old \in rec.old : Deleted(old.node, old.job)
  /\ rec' = NoTask
  /\ UNCHANGED <<apiVars, prov, fresh, fence, held, nextJob>>

\* Mutant of RecRollback: the superseded worker job is not deleted.
RecRollbackRowOnly(p) ==
  /\ rec.pc = "rollback" /\ rec.at = {p}
  /\ rec' = [rec EXCEPT !.pc = "remove"]
  /\ UNCHANGED <<apiVars, prov, fresh, workerVars>>

\* rollback_restarted_worker: the new job, then (RecRemove) the placement.
RecRollback(p) ==
  /\ rec.pc = "rollback" /\ rec.at = {p}
  /\ Deleted(p.node, rec.job)
  /\ rec' = [rec EXCEPT !.pc = "remove"]
  /\ UNCHANGED <<apiVars, prov, fresh, fence, held, nextJob>>

RecRemove(p) ==
  /\ rec.pc = "remove" /\ rec.at = {p}
  /\ RemovedGeneration(p.gen)
  /\ rec' = NoTask
  /\ UNCHANGED <<active, started, tear, prov, fresh, workerVars>>

-----------------------------------------------------------------------------
(* release_transcode and teardown_active_transcode.                        *)

Release(a) ==
  /\ prov.pc = "idle" /\ active = {a}
  /\ active' = {}
  /\ tear' = [NoTask EXCEPT !.pc = "delete", !.old = {a}]
  /\ UNCHANGED <<row, started, prov, rec, fresh, workerVars>>

TearDelete(a) ==
  /\ tear.pc = "delete" /\ tear.old = {a}
  /\ Deleted(a.node, a.job)
  /\ tear' = [tear EXCEPT !.pc = "remove"]
  /\ UNCHANGED <<row, active, started, prov, rec, fresh, fence, held,
                 nextJob>>

\* remove_service_placement: whatever generation the row has.
TearRemove ==
  /\ tear.pc = "remove"
  /\ row' = {}
  /\ tear' = NoTask
  /\ UNCHANGED <<active, started, prov, rec, fresh, workerVars>>

-----------------------------------------------------------------------------
(* Workers and heartbeats.                                                 *)

EncoderExits(n) ==
  /\ encoder[n] # {}
  /\ encoder' = [encoder EXCEPT ![n] = {}]
  /\ UNCHANGED <<apiVars, prov, rec, fresh, fence, held, nextJob, lost>>

WorkerRestarts(n) ==
  /\ held[n] # {}
  /\ held' = [held EXCEPT ![n] = {}]
  /\ encoder' = [encoder EXCEPT ![n] = {}]
  /\ UNCHANGED <<apiVars, prov, rec, fresh, fence, nextJob, lost>>

Heartbeats(nodes) ==
  /\ fresh' = nodes
  /\ UNCHANGED <<apiVars, prov, rec, workerVars>>

Reconciler(p) ==
  RecPlace(p) \/ RecAdvance(p) \/ RecPost(p) \/ RecRecord(p) \/ RecInstall(p)
    \/ RecRollback(p) \/ RecRemove(p)

TranscodeNext ==
  \/ \E p \in Placement : \/ ProvPlace(p) \/ ProvPost(p) \/ ProvInstall(p)
                          \/ ProvUndo(p) \/ ProvRemove(p) \/ Reconciler(p)
  \/ RecNoCapacity \/ RecDeleteOld \/ TearRemove
  \/ \E a \in Active : RecBegin(a) \/ Release(a) \/ TearDelete(a)
  \/ \E n \in Nodes : EncoderExits(n) \/ WorkerRestarts(n)
  \/ \E nodes \in SUBSET Nodes : Heartbeats(nodes)

TranscodeSpec == TranscodeInit /\ [][TranscodeNext]_transcodeVars

-----------------------------------------------------------------------------
(* Properties.                                                             *)

Quiet == prov.pc = "idle" /\ rec.pc = "idle" /\ tear.pc = "idle"
Encoders == UNION {encoder[n] : n \in Nodes}

\* When nothing is in progress and no request or answer was lost, no encoder
\* runs but the one the registry knows, however restarts, failures and the
\* teardown overlapped.
NoOrphanEncoder ==
  Quiet /\ ~lost => Encoders \subseteq {a.job : a \in active}

\* A released or failed transcode leaves no placement that reserves capacity,
\* also when answers were lost.
PlacementReleased == Quiet /\ active = {} => row = {}

\* "Revalidates a service placement and advances its fencing generation for a
\* restart": the generation a restart posts is one the worker can accept.
AdvancedBeyondFence ==
  rec.pc = "post" => \A p \in rec.at : p.gen > fence[p.node]

\* Between two operations the registry, the placement row and the workers
\* agree on what runs.
EncodersAreKnown ==
  /\ TranscodeTypeOK /\ NoOrphanEncoder /\ PlacementReleased
=============================================================================

------------------------------ MODULE VodAssets -----------------------------
(***************************************************************************)
(* One VOD asset of the media gateway: upload, completion, transcoding by  *)
(* a media worker, publication to the object store, and deletion.          *)
(*                                                                         *)
(* A handler holds the asset table's lock only between two awaits on other *)
(* services, so completion, deletion and the monitor of the worker's job   *)
(* interleave.  Every change of the asset is written to a metadata file    *)
(* before it is answered; writes, object-store calls and calls of the      *)
(* worker fail, answers get lost, and the gateway restarts at any moment.  *)
(* Workers, the object store and the placement rows are external.          *)
(***************************************************************************)
EXTENDS Integers, FiniteSets, FiniteSetsExt

CONSTANTS
  Parts,          \* the files of a rendition's output
  Completers,     \* concurrent requests to complete the asset
  MaxBytes,       \* model bound: size of the source
  MaxGeneration,  \* model bound: placements of the job
  MaxFaults       \* model bound: failed writes and restarts

ASSUME VodBounds ==
  /\ Parts # {} /\ IsFiniteSet(Parts)
  /\ MaxBytes \in Nat \ {0} /\ MaxGeneration \in Nat \ {0}
  /\ MaxFaults \in Nat

VARIABLES
  asset,      \* the asset in memory: a set of at most one ManagedAsset
  files,      \* its metadata files, one ManagedAsset per revision
  staged,     \* length of the staged source file, 0 when absent
  source,     \* length of the source object, 0 when absent
  vod,        \* which generation's output each published file holds, 0: none
  marker,     \* generation of the completion marker, 0: none
  placed,     \* generation of the placement row, 0: none
  job,        \* what the worker does for each generation
  completer,  \* the requests to complete the asset
  deleter,    \* the request, or retention pass, that deletes it
  monitor,    \* the task that polls the worker: a set of at most one
  faults,     \* failed writes and restarts so far
  acked,      \* history: bytes the client was told are received
  overlap,    \* history: a completion ran while the asset was deleted
  stranded,   \* history: a fault hit between sealing and monitoring
  unsaved     \* history: the first mark of a deletion was not saved

vodVars == <<asset, files, staged, source, vod, marker, placed, job,
             completer, deleter, monitor, faults, acked, overlap, stranded,
             unsaved>>

Generations == 1 .. MaxGeneration
Idle == [at |-> "idle", bytes |-> 0, gen |-> 0]

VodInit ==
  /\ asset = {} /\ files = {}
  /\ staged = 0 /\ source = 0 /\ placed = 0
  /\ vod = [p \in Parts |-> 0] /\ marker = 0
  /\ job = [g \in Generations |-> "none"]
  /\ completer = [c \in Completers |-> Idle]
  /\ deleter = "idle" /\ monitor = {}
  /\ faults = 0 /\ acked = 0 /\ overlap = FALSE /\ stranded = FALSE
  /\ unsaved = FALSE

-----------------------------------------------------------------------------
(* The aggregate and its files.                                            *)

\* transition, and the revision that every handler adds.
To(a, state) == [a EXCEPT !.state = state, !.rev = @ + 1]

\* prune_snapshots: the two newest files stay.
PruneSnapshots(S) == {f \in S : Cardinality({g \in S : g.rev > f.rev}) < 2}

\* persist_asset, which fails or not; the asset in memory changes either way.
Persist(a, ok) ==
  /\ asset' = {a}
  /\ files' = IF ok THEN PruneSnapshots(files \cup {a}) ELSE files

Fault(ok) == /\ ok \/ faults < MaxFaults
             /\ faults' = IF ok THEN faults ELSE faults + 1

\* load_assets: the newest file.
Loaded(S) == {f \in S : \A g \in S : g.rev <= f.rev}

\* create_asset.
CreateAsset ==
  /\ asset = {} /\ files = {}
  /\ Persist([state |-> "created", received |-> 0, rev |-> 1, job |-> 0,
              gen |-> 0], TRUE)
  /\ UNCHANGED <<staged, source, vod, marker, placed, job, completer,
                 deleter, monitor, faults, acked, overlap, stranded,
                 unsaved>>

-----------------------------------------------------------------------------
(* Upload and completion.                                                  *)

\* upload_source_chunk at the expected offset.  A failed write may have grown
\* the file; a failed save leaves the new count in memory.
UploadChunk(size, ok) ==
  \E a \in asset :
    /\ a.state \in {"created", "uploading"}
    /\ a.received + size <= MaxBytes
    /\ \/ /\ staged' = staged + size
          /\ Persist([To(a, "uploading") EXCEPT !.received = @ + size], ok)
       \/ /\ ~ok /\ staged' \in staged .. (staged + size)
          /\ UNCHANGED <<asset, files>>
    /\ Fault(ok)
    /\ acked' = IF ok THEN a.received + size ELSE acked
    /\ UNCHANGED <<source, vod, marker, placed, job, completer, deleter,
                   monitor, overlap, stranded, unsaved>>

Goes(c, at) == completer' = [completer EXCEPT ![c].at = at]
Aborts(c) == completer' = [completer EXCEPT ![c] = Idle]

\* complete_asset, publish_source_object: the recorded size is the declared
\* one, and so is the size of the staged file.
CheckSource(c) ==
  \E a \in asset :
    /\ completer[c].at = "idle" /\ a.state = "uploading" /\ a.received > 0
    /\ staged = a.received
    /\ completer' = [completer EXCEPT ![c] =
                       [at |-> "checked", bytes |-> a.received, gen |-> 0]]
    /\ UNCHANGED <<asset, files, staged, source, vod, marker, placed, job,
                   deleter, monitor, faults, acked, overlap, stranded,
                   unsaved>>

\* put_file: the file as it is by now, verified against its own length.
PutSource(c) ==
  /\ completer[c].at = "checked"
  /\ \/ staged > 0 /\ source' = staged /\ Goes(c, "stored")
     \/ UNCHANGED source /\ Aborts(c)
  /\ overlap' = (overlap \/ \E a \in asset : a.state = "deleting")
  /\ UNCHANGED <<asset, files, staged, vod, marker, placed, job, deleter,
                 monitor, faults, acked, stranded, unsaved>>

\* External: place_service_resource and advance_service_placement.
Found(g) == IF g = 0 THEN 1 ELSE g
Advanced(g) == Found(g) + 1

\* place_worker: the placement row is found or made, or no worker is free.
PlaceWorker(c) ==
  /\ completer[c].at = "stored"
  /\ \/ /\ placed' = Found(placed)
        /\ completer' = [completer EXCEPT ![c].at = "placed",
                                          ![c].gen = placed']
     \/ UNCHANGED placed /\ Aborts(c)
  /\ overlap' = (overlap \/ \E a \in asset : a.state \in {"deleting",
                                                          "deleted"})
  /\ UNCHANGED <<asset, files, staged, source, vod, marker, job, deleter,
                 monitor, faults, acked, stranded, unsaved>>

\* complete_upload, start_probe and start_transcode under the lock.
Seal(c, ok) ==
  /\ completer[c].at = "placed"
  /\ \E a \in asset :
       \/ /\ a.state = "uploading" /\ a.received = completer[c].bytes
          /\ Persist([To(a, "transcoding") EXCEPT !.gen = completer[c].gen],
                     ok)
          /\ Fault(ok)
          /\ IF ok THEN Goes(c, "sealed") ELSE Aborts(c)
          /\ stranded' = (stranded \/ ~ok)
       \/ /\ ~(a.state = "uploading" /\ a.received = completer[c].bytes)
          /\ ok /\ Aborts(c)
          /\ UNCHANGED <<asset, files, faults, stranded>>
  /\ UNCHANGED <<staged, source, vod, marker, placed, job, deleter, monitor,
                 acked, overlap, unsaved>>

\* release_worker_placement: a failure is only logged.
Release == placed' \in {0, placed}

\* mark_asset_failed, refused only for an asset that is being deleted, and
\* the release that follows it everywhere.
MarkFailed(ok) ==
  /\ \E a \in asset :
       IF a.state \in {"deleting", "deleted"}
       THEN ok /\ UNCHANGED <<asset, files>> ELSE Persist(To(a, "failed"), ok)
  /\ Fault(ok)
  /\ Release

\* submit_vod_job: the worker accepts and answers, accepts and the answer is
\* lost, or refuses; only the first is not a failure.  Before that, making
\* the output directory may fail, which only returns the error.
SubmitJob(c, ok) ==
  LET g == completer[c].gen IN
  /\ completer[c].at = "sealed"
  /\ \/ /\ ok /\ Goes(c, "submitted")
        /\ job' = [job EXCEPT ![g] = "running"]
        /\ UNCHANGED <<asset, files, placed, faults>>
        /\ UNCHANGED stranded
     \/ /\ job' \in {job, [job EXCEPT ![g] = "running"]}
        /\ Aborts(c) /\ MarkFailed(ok)
        /\ stranded' = (stranded \/ ~ok)
     \/ /\ ~ok /\ Fault(ok) /\ Aborts(c) /\ stranded' = TRUE
        /\ UNCHANGED <<asset, files, placed, job>>
  /\ UNCHANGED <<staged, source, vod, marker, deleter, monitor, acked,
                 overlap, unsaved>>

\* The job is recorded and the monitor started.
RecordJob(c, ok) ==
  /\ completer[c].at = "submitted"
  /\ \E a \in asset :
       Persist([a EXCEPT !.job = completer[c].gen, !.rev = @ + 1], ok)
  /\ Fault(ok) /\ Aborts(c)
  /\ monitor' = IF ok THEN {[gen |-> completer[c].gen, at |-> "poll"]}
                ELSE monitor
  /\ stranded' = (stranded \/ ~ok)
  /\ UNCHANGED <<staged, source, vod, marker, placed, job, deleter, acked,
                 overlap, unsaved>>

-----------------------------------------------------------------------------
(* The worker and its monitor.                                             *)

\* External: the job of a generation ends.
WorkerEnds(g, how) ==
  /\ job[g] = "running"
  /\ job' = [job EXCEPT ![g] = how]
  /\ UNCHANGED <<asset, files, staged, source, vod, marker, placed,
                 completer, deleter, monitor, faults, acked, overlap,
                 stranded, unsaved>>

\* Mutant of PollJob: a failed job is polled on.
PollJobOn(ok) ==
  \E m \in monitor :
    /\ m.at = "poll" /\ job[m.gen] = "succeeded" /\ ok
    /\ monitor' = {[m EXCEPT !.at = "publish"]}
    /\ UNCHANGED <<asset, files, staged, source, vod, marker, placed, job,
                   completer, deleter, faults, acked, overlap, stranded,
                   unsaved>>

\* monitor_worker_job reads the state of its job.
PollJob(ok) ==
  \E m \in monitor :
    /\ m.at = "poll"
    /\ \/ /\ job[m.gen] = "succeeded" /\ ok
          /\ monitor' = {[m EXCEPT !.at = "publish"]}
          /\ UNCHANGED <<asset, files, placed, faults>>
       \/ /\ job[m.gen] = "failed"
          /\ MarkFailed(ok) /\ monitor' = {}
    /\ UNCHANGED <<staged, source, vod, marker, job, completer, deleter,
                   acked, overlap, stranded, unsaved>>

\* restart_vod_job after enough misses: a further generation on some worker.
\* If the new job cannot be saved the monitor keeps polling the old one.
RestartJob(ok) ==
  \E m \in monitor, a \in asset :
    /\ m.at = "poll" /\ a.state = "transcoding"
    /\ Advanced(placed) <= MaxGeneration
    /\ placed' = Advanced(placed)
    /\ \/ /\ job' = [job EXCEPT ![placed'] = "running"]
          /\ Persist([a EXCEPT !.job = placed', !.gen = placed',
                               !.rev = @ + 1], ok)
          /\ monitor' = IF ok THEN {[m EXCEPT !.gen = placed']}
                        ELSE monitor
       \/ /\ ok /\ job' \in {job, [job EXCEPT ![placed'] = "running"]}
          /\ UNCHANGED <<asset, files, monitor>>
    /\ Fault(ok)
    /\ UNCHANGED <<staged, source, vod, marker, completer, deleter, acked,
                   overlap, stranded, unsaved>>

\* finalize_vod_success, publish_directory: file by file, the marker last.
\* A failure fails the asset.
PublishPart(p, stored, ok) ==
  \E m \in monitor :
    /\ m.at = "publish" /\ vod[p] # m.gen
    /\ IF stored THEN /\ ok /\ vod' = [vod EXCEPT ![p] = m.gen]
                      /\ UNCHANGED <<asset, files, placed, faults, monitor>>
       ELSE MarkFailed(ok) /\ monitor' = {} /\ UNCHANGED vod
    /\ UNCHANGED <<staged, source, marker, job, completer, deleter, acked,
                   overlap, stranded, unsaved>>

PublishMarker(stored, ok) ==
  \E m \in monitor :
    /\ m.at = "publish" /\ \A p \in Parts : vod[p] = m.gen
    /\ IF stored THEN /\ ok /\ marker' = m.gen
                      /\ monitor' = {[m EXCEPT !.at = "ready"]}
                      /\ UNCHANGED <<asset, files, placed, faults>>
       ELSE MarkFailed(ok) /\ monitor' = {} /\ UNCHANGED marker
    /\ UNCHANGED <<staged, source, vod, job, completer, deleter, acked,
                   overlap, stranded, unsaved>>

\* Mutant of MarkReady: the asset is ready before its files are published.
MarkReadyEarly(ok) ==
  \E m \in monitor, a \in asset :
    /\ m.at \in {"publish", "ready"}
    /\ a.state = "transcoding" /\ Persist(To(a, "ready"), ok) /\ Fault(ok)
    /\ monitor' = {} /\ Release
    /\ UNCHANGED <<staged, source, vod, marker, job, completer, deleter,
                   acked, overlap, stranded, unsaved>>

\* finalize_vod_success, the end: a failed save is only logged.
MarkReady(ok) ==
  \E m \in monitor, a \in asset :
    /\ m.at = "ready"
    /\ IF a.state = "transcoding" THEN Persist(To(a, "ready"), ok)
       ELSE ok /\ UNCHANGED <<asset, files>>
    /\ Fault(ok)
    /\ monitor' = {} /\ Release
    /\ UNCHANGED <<staged, source, vod, marker, job, completer, deleter,
                   acked, overlap, stranded, unsaved>>

-----------------------------------------------------------------------------
(* Deletion, by request or by the retention task; restart.                 *)

\* run_retention_pass: the old assets it would delete.
RetentionPicks(a) == a.state \notin {"transcoding", "deleted"}

\* delete_asset_storage, first part.  A request repeats the clean-up of a
\* deleted asset.
StartDelete(by, ok) ==
  \E a \in asset :
    /\ deleter = "idle" /\ a.state # "transcoding"
    /\ by = "retention" => RetentionPicks(a)
    /\ IF a.state \in {"deleting", "deleted"}
       THEN ok /\ UNCHANGED <<asset, files>>
       ELSE Persist(To(a, "deleting"), ok)
    /\ Fault(ok)
    /\ deleter' = IF ok THEN "marked" ELSE "idle"
    /\ overlap' = (overlap \/ \E c \in Completers : completer[c] # Idle)
    /\ unsaved' = (unsaved \/ ~ok)
    /\ UNCHANGED <<staged, source, vod, marker, placed, job, completer,
                   monitor, acked, stranded>>

\* delete_prefix of the output, then of the source; each may fail, after some
\* of the objects have gone.
DeleteObjects(fails) ==
  /\ \/ /\ deleter = "marked"
        /\ \E S \in SUBSET Parts, m \in {0, marker} :
             /\ fails \/ (S = Parts /\ m = 0)
             /\ vod' = [p \in Parts |-> IF p \in S THEN 0 ELSE vod[p]]
             /\ marker' = m
        /\ UNCHANGED source
        /\ deleter' = IF fails THEN "idle" ELSE "outputs"
     \/ /\ deleter = "outputs"
        /\ source' = IF fails THEN source ELSE 0
        /\ UNCHANGED <<vod, marker>>
        /\ deleter' = IF fails THEN "idle" ELSE "objects"
  /\ UNCHANGED <<asset, files, staged, placed, job, completer, monitor,
                 faults, acked, overlap, stranded, unsaved>>

\* release_worker_placement and the removal of the directories.
RemoveDirectories ==
  /\ deleter = "objects"
  /\ Release /\ staged' = 0 /\ deleter' = "directories"
  /\ UNCHANGED <<asset, files, source, vod, marker, job, completer, monitor,
                 faults, acked, overlap, stranded, unsaved>>

\* The tombstone.
FinishDelete(ok) ==
  \E a \in asset :
    /\ deleter = "directories" /\ deleter' = "idle"
    /\ IF a.state = "deleting"
       THEN Persist([To(a, "deleted") EXCEPT !.job = 0], ok)
       ELSE ok /\ UNCHANGED <<asset, files>>
    /\ Fault(ok)
    /\ UNCHANGED <<staged, source, vod, marker, placed, job, completer,
                   monitor, acked, overlap, stranded, unsaved>>

\* A crash, and main: the newest file is loaded, and resume_worker_monitors
\* polls the recorded job of an asset that was being transcoded.
GatewayRestarts ==
  /\ faults < MaxFaults /\ faults' = faults + 1
  /\ asset' = Loaded(files)
  /\ monitor' = {[gen |-> a.gen, at |-> "poll"] :
                   a \in {b \in Loaded(files) :
                            b.state = "transcoding" /\ b.job # 0}}
  /\ completer' = [c \in Completers |-> Idle] /\ deleter' = "idle"
  /\ stranded' = (stranded \/ \E c \in Completers :
                    completer[c].at \in {"sealed", "submitted"})
  /\ UNCHANGED <<files, staged, source, vod, marker, placed, job, acked,
                 overlap, unsaved>>

VodNext ==
  \/ CreateAsset
  \/ \E c \in Completers : CheckSource(c) \/ PutSource(c) \/ PlaceWorker(c)
  \/ \E ok \in BOOLEAN :
       \/ \E size \in 1 .. MaxBytes : UploadChunk(size, ok)
       \/ \E c \in Completers :
            Seal(c, ok) \/ SubmitJob(c, ok) \/ RecordJob(c, ok)
       \/ PollJob(ok) \/ RestartJob(ok) \/ MarkReady(ok) \/ FinishDelete(ok)
       \/ \E by \in {"request", "retention"} : StartDelete(by, ok)
       \/ \E stored \in BOOLEAN :
            \/ \E p \in Parts : PublishPart(p, stored, ok)
            \/ PublishMarker(stored, ok)
  \/ \E g \in Generations, how \in {"succeeded", "failed"} :
       WorkerEnds(g, how)
  \/ \E fails \in BOOLEAN : DeleteObjects(fails)
  \/ RemoveDirectories
  \/ GatewayRestarts

\* The monitor polls once a second and publishes without waiting for others;
\* FFmpeg ends, one way or the other.  Nothing is assumed of the requests.
MonitorSteps ==
  \E ok, stored \in BOOLEAN :
    \/ PollJob(ok) \/ MarkReady(ok) \/ PublishMarker(stored, ok)
    \/ \E p \in Parts : PublishPart(p, stored, ok)

WorkerSteps(g) == \E how \in {"succeeded", "failed"} : WorkerEnds(g, how)

VodFairness ==
  /\ WF_vodVars(MonitorSteps)
  /\ \A g \in Generations : WF_vodVars(WorkerSteps(g))

VodSpec == VodInit /\ [][VodNext]_vodVars /\ VodFairness

-----------------------------------------------------------------------------
(* Properties.                                                             *)

AssetStates == {"created", "uploading", "transcoding", "ready", "failed",
           "deleting", "deleted"}

VodTypeOK ==
  /\ Cardinality(asset) <= 1 /\ Cardinality(monitor) <= 1
  /\ \A a \in asset \cup files :
       a.state \in AssetStates /\ a.received \in 0 .. MaxBytes
       /\ {a.job, a.gen} \subseteq 0 .. MaxGeneration
  /\ Cardinality(files) <= 2
  /\ placed \in 0 .. MaxGeneration /\ marker \in 0 .. MaxGeneration
  /\ vod \in [Parts -> 0 .. MaxGeneration]

\* serve_vod answers for a ready asset only, and a ready asset is whole: its
\* files and its marker come from one generation, whose job succeeded, across
\* fail-over, restarts and deletion; so is one that a restart would find
\* ready.  The exception: a deletion whose mark could not be saved is
\* retried from the mark in memory, and never saves it.
ReadyIsWhole ==
  \A a \in asset \cup Loaded(files) :
    a.state = "ready" /\ ~unsaved =>
      /\ marker # 0 /\ job[marker] = "succeeded"
      /\ \A p \in Parts : vod[p] = marker

\* Bytes the client was told are received stay received: a restart never
\* takes the upload back to an earlier offset.
AckedBytesSurvive ==
  \A a \in asset : a.state = "uploading" => a.received >= acked

\* A source that is being transcoded, or was, has at least the declared size
\* on disk and in the object store, with the same exception.
SealedSourceIsStored ==
  \A a \in asset :
    a.state \in {"transcoding", "ready"} /\ ~unsaved =>
      a.received > 0 /\ staged >= a.received /\ source >= a.received

\* An asset in transcoding, which nobody may delete, has a request or a
\* monitor that will take it out of there; unless a fault hit the gateway
\* between sealing the upload and recording the job.
TranscodingIsWatched ==
  \A a \in asset :
    a.state = "transcoding" =>
      \/ monitor # {} \/ stranded
      \/ \E c \in Completers : completer[c].at \in {"sealed", "submitted"}

\* Transcoding ends: no asset stays for ever in the state in which it can be
\* neither served nor deleted, unless a fault hit the gateway between sealing
\* the upload and recording the job, or the request that does so hangs.
TranscodingEnds ==
  []<>\A a \in asset :
        a.state = "transcoding" =>
          \/ stranded
          \/ \E c \in Completers : completer[c].at \in {"sealed", "submitted"}

\* A deleted asset leaves no object, unless a request to
\* complete it ran at the same time.
DeletedLeavesNothing ==
  \A a \in asset :
    a.state = "deleted" /\ ~overlap =>
      /\ source = 0 /\ marker = 0
      /\ \A p \in Parts : vod[p] = 0

\* In each of its states an asset is what the state says, on disk, in the
\* object store and at the worker, across faults and restarts.
AssetIsBacked ==
  /\ VodTypeOK /\ AckedBytesSurvive /\ SealedSourceIsStored
  /\ TranscodingIsWatched /\ ReadyIsWhole /\ DeletedLeavesNothing
=============================================================================

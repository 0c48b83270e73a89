----------------------------- MODULE LiveStreams ----------------------------
(***************************************************************************)
(* One live stream of the media gateway.  Its HLS output is uploaded by a  *)
(* client, segment by segment, or packaged by a media worker that receives *)
(* RTP from the media node; then a publisher task copies what the worker   *)
(* writes to the object store, probes the job, and moves it to another     *)
(* worker when it is lost.  Requests hold the stream table's lock for all  *)
(* of create, upload and finish; the publisher, a deletion and a viewer's  *)
(* request for a missing object give it up between their steps.            *)
(* Workers, media node, object store and placement rows are external.      *)
(***************************************************************************)
EXTENDS Integers, FiniteSets, FiniteSetsExt

CONSTANTS
  Syncers,        \* who may copy the worker's output: "publisher", others
  MaxSegments,    \* model bound: segments of a stream
  MaxLiveGeneration,  \* model bound: placements of its job
  MaxLiveFaults   \* model bound: failed calls and restarts

ASSUME LiveBounds ==
  /\ "publisher" \in Syncers
  /\ MaxSegments \in Nat \ {0} /\ MaxLiveGeneration \in Nat \ {0}
  /\ MaxLiveFaults \in Nat

VARIABLES
  stream,     \* the stream in memory: a set of at most one LiveStream
  saved,      \* its newest metadata file, likewise
  segments,   \* the segments in the object store
  playlist,   \* the playlist there: a set of at most one [gen, next]
  local,      \* segments in each generation's directory on shared storage
  jobs,       \* external: generations whose worker job runs
  bindings,   \* external: generations the media node sends RTP to
  row,        \* external: generation of the placement row, 0: none
  publisher,  \* the publisher task
  sync,       \* the copies in progress
  purger,     \* the deletion in progress
  liveFaults, \* failed calls and restarts so far
  ackedNext,  \* history: next sequence the client was told
  leaked,     \* history: a clean-up that nobody repeats failed
  tardy       \* history: objects were written while the stream was deleted

liveVars == <<stream, saved, segments, playlist, local, jobs, bindings, row,
              publisher, sync, purger, liveFaults, ackedNext, leaked, tardy>>

LiveGenerations == 1 .. MaxLiveGeneration
NoTask == [at |-> "off", gen |-> 0, old |-> 0]
NoSync == [at |-> "off", gen |-> 0, upto |-> 0]

\* Two scenarios: only the publisher copies, or viewers do too and no call
\* fails.
LiveInit ==
  /\ stream = {} /\ saved = {} /\ segments = {} /\ playlist = {}
  /\ local = [g \in LiveGenerations |-> 0] /\ jobs = {} /\ bindings = {}
  /\ row = 0 /\ publisher = NoTask /\ purger = "off"
  /\ \E S \in {{"publisher"}, Syncers} :
       /\ sync = [y \in S |-> NoSync]
       /\ liveFaults = IF S = {"publisher"} THEN 0 ELSE MaxLiveFaults
  /\ ackedNext = 1 /\ leaked = FALSE /\ tardy = FALSE

LiveFault(ok) ==
  /\ ok \/ liveFaults < MaxLiveFaults
  /\ liveFaults' = IF ok THEN liveFaults ELSE liveFaults + 1

\* persist_live_stream; memory has changed when it fails.
SaveStream(s, ok) ==
  /\ stream' = {s} /\ saved' = IF ok THEN {s} ELSE saved

Deleted == \E s \in stream : s.deleted

-----------------------------------------------------------------------------
(* The RTP bridge: a worker job and the media node's bindings.             *)

\* start_live_rtp_bridge for generation g.  The outcomes: all is set up; the
\* worker refuses; its answer is lost, and nothing stops the job; a binding
\* is refused and all is rolled back, each clean-up at best effort.
BridgeStarts(g) == jobs' = jobs \cup {g} /\ bindings' = bindings \cup {g}

BridgeFails(g) ==
  \/ UNCHANGED <<jobs, bindings, leaked>>
  \/ /\ jobs' \in {jobs, jobs \cup {g}}
     /\ bindings' \in {bindings, bindings \cup {g}}
     /\ jobs' # jobs \/ bindings' # bindings
     /\ leaked' = TRUE

\* stop_live_rtp_bridge when every call succeeds, or finds nothing.
BridgeStops(g) == jobs' = jobs \ {g} /\ bindings' = bindings \ {g}

\* rollback_live_bridge and the clean-up after a fail-over: best effort.
BridgeDrops(g) ==
  /\ jobs' \in {jobs, jobs \ {g}} /\ bindings' \in {bindings, bindings \ {g}}
  /\ leaked' = (leaked \/ g \in jobs' \/ g \in bindings')

\* release_worker_placement.  (When it fails the row stays, which only makes
\* the next generation larger.)
RowReleased == row' = 0

-----------------------------------------------------------------------------
(* Requests that hold the lock.                                            *)

NewStream(kind, g) ==
  [kind |-> kind, next |-> 1, active |-> g # 0, gen |-> g,
   finished |-> FALSE, deleted |-> FALSE, purged |-> FALSE]

\* create_live of a stream that is uploaded: the empty playlist is stored.
CreateUploaded ==
  /\ stream = {} /\ saved = {}
  /\ playlist' = {[gen |-> 0, next |-> 1]}
  /\ SaveStream(NewStream("upload", 0), TRUE)
  /\ UNCHANGED <<segments, local, jobs, bindings, row, publisher, sync,
                 purger, liveFaults, ackedNext, leaked, tardy>>

\* create_live of a packaged stream.  When the metadata cannot be saved, the
\* bridge that was started stays, and no stream knows of it.
CreatePackaged(ok) ==
  /\ stream = {} /\ saved = {} /\ row = 0
  /\ \/ /\ BridgeStarts(1) /\ row' = 1
        /\ IF ok THEN /\ SaveStream(NewStream("worker", 1), TRUE)
                      /\ publisher' = [NoTask EXCEPT !.at = "loop"]
                      /\ UNCHANGED leaked
           ELSE UNCHANGED <<stream, saved, publisher>> /\ leaked' = TRUE
     \/ /\ ok /\ BridgeFails(1) /\ row' \in {0, 1}
        /\ UNCHANGED <<stream, saved, publisher>>
  /\ LiveFault(ok)
  /\ UNCHANGED <<segments, playlist, local, sync, purger, ackedNext, tardy>>

\* Mutant of UploadSegment: the playlist is stored before the segment.
UploadPlaylistFirst(ok, stage) ==
  \E s \in stream :
    /\ s.kind = "upload" /\ ~s.finished /\ ~s.deleted
    /\ s.next <= MaxSegments
    /\ segments' = IF ok THEN segments \cup {s.next} ELSE segments
    /\ SaveStream([s EXCEPT !.next = @ + 1], ok)
    /\ playlist' = {[gen |-> 0, next |-> s.next + 1]}
    /\ ackedNext' = IF ok THEN s.next + 1 ELSE ackedNext
    /\ LiveFault(ok)
    /\ UNCHANGED <<local, jobs, bindings, row, publisher, sync, purger,
                   leaked, tardy>>

\* upload_live_segment with the expected sequence: the segment, the playlist,
\* then the metadata; each may be what fails.
UploadSegment(ok, stage) ==
  \E s \in stream :
    /\ s.kind = "upload" /\ ~s.finished /\ ~s.deleted
    /\ s.next <= MaxSegments
    /\ ok => stage = "saved"
    /\ segments' = IF stage = "segment" THEN segments
                   ELSE segments \cup {s.next}
    /\ IF stage = "segment" THEN UNCHANGED <<stream, saved>>
       ELSE SaveStream([s EXCEPT !.next = @ + 1], ok)
    /\ playlist' = IF stage = "saved" THEN {[gen |-> 0, next |-> s.next + 1]}
                   ELSE playlist
    /\ ackedNext' = IF ok THEN s.next + 1 ELSE ackedNext
    /\ LiveFault(ok)
    /\ UNCHANGED <<local, jobs, bindings, row, publisher, sync, purger,
                   leaked, tardy>>

\* stop_live_rtp_bridge when a call fails, in finish_live or in
\* delete_live_storage: an error, with some of the bindings removed.
StopFails ==
  \E s \in stream :
    /\ s.active /\ bindings' \in {bindings, bindings \ {s.gen}}
    /\ LiveFault(FALSE)
    /\ UNCHANGED <<stream, saved, segments, playlist, local, jobs, row,
                   publisher, sync, purger, ackedNext, leaked, tardy>>

\* finish_live, which may be repeated and does not ask whether the stream is
\* deleted.
FinishLive(ok) ==
  \E s \in stream :
    /\ IF s.active THEN BridgeStops(s.gen) ELSE UNCHANGED <<jobs, bindings>>
    /\ SaveStream([s EXCEPT !.active = FALSE, !.finished = TRUE], ok)
    /\ playlist' = IF s.kind = "upload" THEN {[gen |-> 0, next |-> s.next]}
                   ELSE playlist
    /\ tardy' = (tardy \/ (s.deleted /\ s.kind = "upload"))
    /\ IF ok THEN RowReleased ELSE UNCHANGED row
    /\ LiveFault(ok)
    /\ UNCHANGED <<segments, local, publisher, sync, purger, ackedNext,
                   leaked>>

-----------------------------------------------------------------------------
(* The worker, external.                                                   *)

WorkerWrites(g) ==
  /\ g \in jobs /\ local[g] < MaxSegments
  /\ g \in bindings /\ ~Deleted
  /\ local' = [local EXCEPT ![g] = @ + 1]
  /\ UNCHANGED <<stream, saved, segments, playlist, jobs, bindings, row,
                 publisher, sync, purger, liveFaults, ackedNext, leaked,
                 tardy>>

WorkerDies(g) ==
  /\ g \in jobs /\ jobs' = jobs \ {g}
  /\ UNCHANGED <<stream, saved, segments, playlist, local, bindings, row,
                 publisher, sync, purger, liveFaults, ackedNext, leaked,
                 tardy>>

-----------------------------------------------------------------------------
(* The publisher task.                                                     *)

TaskAt(at) == publisher' = [publisher EXCEPT !.at = at]

\* spawn_live_publisher, the top of the loop and live_worker_operational.  A
\* job that is gone, or does not answer, five times in a row is restarted.
PublisherLooks ==
  /\ publisher.at = "loop"
  /\ \E s \in stream :
       \/ s.deleted /\ publisher' = NoTask
       \/ ~s.deleted /\ ~s.active /\ TaskAt("final")
       \/ /\ ~s.deleted /\ s.active
          /\ TaskAt("sync") \/ TaskAt("restart")
  /\ UNCHANGED <<stream, saved, segments, playlist, local, jobs, bindings,
                 row, sync, purger, liveFaults, ackedNext, leaked, tardy>>

\* restart_live_job up to place_worker: the state is read, the lock released
\* and the placement advanced.
RestartPlaces ==
  LET g == (IF row = 0 THEN 1 ELSE row) + 1 IN
  /\ publisher.at = "restart"
  /\ \E s \in stream :
       \/ /\ s.active /\ ~s.deleted /\ g <= MaxLiveGeneration
          /\ row' = g
          /\ publisher' = [at |-> "bridge", gen |-> g, old |-> s.gen]
       \/ TaskAt("sync") /\ UNCHANGED row
  /\ UNCHANGED <<stream, saved, segments, playlist, local, jobs, bindings,
                 sync, purger, liveFaults, ackedNext, leaked, tardy>>

\* The new bridge; a failure is tried again at a later look.
RestartBridges ==
  /\ publisher.at = "bridge"
  /\ \/ BridgeStarts(publisher.gen) /\ TaskAt("swap") /\ UNCHANGED leaked
     \/ BridgeFails(publisher.gen) /\ TaskAt("sync")
  /\ UNCHANGED <<stream, saved, segments, playlist, local, row, sync, purger,
                 liveFaults, ackedNext, tardy>>

\* The old bindings are removed and the old job stopped.
RestartDropsOld ==
  /\ publisher.at = "swap" /\ BridgeDrops(publisher.old) /\ TaskAt("install")
  /\ UNCHANGED <<stream, saved, segments, playlist, local, row, sync, purger,
                 liveFaults, ackedNext, tardy>>

\* The new assignment is recorded if the stream is still active, and taken
\* back otherwise.
RestartInstalls(ok) ==
  /\ publisher.at = "install"
  /\ \E s \in stream :
       IF s.active /\ ~s.deleted
       THEN /\ SaveStream([s EXCEPT !.gen = publisher.gen], ok)
            /\ leaked' = (leaked \/ ~ok)
            /\ UNCHANGED <<jobs, bindings>>
       ELSE /\ ok /\ BridgeDrops(publisher.gen)
            /\ UNCHANGED <<stream, saved>>
  /\ LiveFault(ok) /\ TaskAt("sync")
  /\ UNCHANGED <<segments, playlist, local, row, sync, purger, ackedNext,
                 tardy>>

\* Mutant of PublisherRests: it looks again after the last copy too.
PublisherRestsOnly ==
  /\ publisher.at \in {"synced", "ended"} /\ TaskAt("loop")
  /\ UNCHANGED <<stream, saved, segments, playlist, local, jobs, bindings,
                 row, sync, purger, liveFaults, ackedNext, leaked, tardy>>

\* The copy of this round is done: sleep and look again, or stop after the
\* last one.  A stream deleted during the last second is not copied.
PublisherRests ==
  /\ \/ /\ publisher.at = "synced" /\ TaskAt("loop")
     \/ /\ publisher.at = "final" /\ Deleted /\ publisher' = NoTask
     \/ /\ publisher.at = "ended" /\ publisher' = NoTask
  /\ UNCHANGED <<stream, saved, segments, playlist, local, jobs, bindings,
                 row, sync, purger, liveFaults, ackedNext, leaked, tardy>>

-----------------------------------------------------------------------------
(* publish_live_snapshot and sync_hls_directory, by the publisher or for a *)
(* viewer whose object is missing.                                         *)

\* The directory of the current generation is listed.
SyncLists(y) ==
  /\ sync[y].at = "off"
  /\ \E s \in stream :
       /\ s.kind = "worker"
       /\ IF y = "publisher"
          THEN \/ publisher.at = "sync" /\ TaskAt("copying")
               \/ publisher.at = "final" /\ ~s.deleted /\ TaskAt("last")
          ELSE /\ ~s.deleted /\ local[s.gen] > Cardinality(segments)
               /\ UNCHANGED publisher
       /\ sync' = [sync EXCEPT ![y] = [at |-> "media", gen |-> s.gen,
                                       upto |-> local[s.gen]]]
  /\ UNCHANGED <<stream, saved, segments, playlist, local, jobs, bindings,
                 row, purger, liveFaults, ackedNext, leaked, tardy>>

SyncEnds(y) ==
  /\ sync' = [sync EXCEPT ![y] = NoSync]
  /\ IF y # "publisher" THEN UNCHANGED publisher
     ELSE IF publisher.at = "last" THEN TaskAt("ended") ELSE TaskAt("synced")

\* The listed media; fails when the directory is gone.
SyncMedia(y) ==
  /\ sync[y].at = "media"
  /\ \/ /\ local[sync[y].gen] > 0
        /\ segments' = segments \cup 1 .. sync[y].upto
        /\ sync' = [sync EXCEPT ![y].at = "playlist"]
        /\ UNCHANGED publisher
     \/ UNCHANGED segments /\ SyncEnds(y)
  /\ tardy' = (tardy \/ Deleted)
  /\ UNCHANGED <<stream, saved, playlist, local, jobs, bindings, row, purger,
                 liveFaults, ackedNext, leaked>>

\* The playlist, as the worker has written it by now.
SyncPlaylist(y) ==
  LET g == sync[y].gen IN
  /\ sync[y].at = "playlist" /\ SyncEnds(y)
  /\ playlist' \in {playlist} \cup
       {{[gen |-> g, next |-> n + 1]} : n \in {local[g]} \ {0}}
  /\ tardy' = (tardy \/ Deleted)
  /\ UNCHANGED <<stream, saved, segments, local, jobs, bindings, row, purger,
                 liveFaults, ackedNext, leaked>>

-----------------------------------------------------------------------------
(* Deletion, by request or by retention; restart.                          *)

\* run_retention_pass: the old streams it would delete.
RetentionPicksStream(s) == s.finished /\ ~s.purged

\* delete_live_storage, under the lock.
\* The bridge is stopped first, and a failure to stop it is returned.
MarkDeleted(by, ok) ==
  \E s \in stream :
    /\ purger = "off" /\ ~s.purged
    /\ by = "retention" => RetentionPicksStream(s)
    /\ IF s.deleted
       THEN ok /\ purger' = "marked"
            /\ UNCHANGED <<stream, saved, jobs, bindings>>
       ELSE /\ IF s.active THEN BridgeStops(s.gen)
               ELSE UNCHANGED <<jobs, bindings>>
            /\ SaveStream([s EXCEPT !.active = FALSE, !.finished = TRUE,
                                    !.deleted = TRUE], ok)
            /\ purger' = IF ok THEN "marked" ELSE "off"
    /\ tardy' = (tardy \/ publisher.at \notin {"off", "loop"}
                     \/ \E y \in DOMAIN sync : sync[y] # NoSync)
    /\ LiveFault(ok)
    /\ UNCHANGED <<segments, playlist, local, row, publisher, sync,
                   ackedNext, leaked>>

\* delete_prefix, all of it or some of it and an error.
DeleteLiveObjects ==
  /\ purger = "marked"
  /\ \/ /\ segments' = {} /\ playlist' = {} /\ purger' = "objects"
     \/ /\ segments' \in SUBSET segments /\ playlist' \in SUBSET playlist
        /\ purger' = "off"
  /\ UNCHANGED <<stream, saved, local, jobs, bindings, row, publisher, sync,
                 liveFaults, ackedNext, leaked, tardy>>

\* The placement, the directory, and the tombstone.
PurgeLive(ok) ==
  \E s \in stream :
    /\ purger = "objects" /\ purger' = "off"
    /\ RowReleased /\ local' = [g \in LiveGenerations |-> 0]
    /\ SaveStream([s EXCEPT !.purged = TRUE], ok) /\ LiveFault(ok)
    /\ UNCHANGED <<segments, playlist, jobs, bindings, publisher, sync,
                   ackedNext, leaked, tardy>>

\* A crash, and main: the newest file, and a publisher for an active stream.
\* A bridge that was being started, or stopped and not saved, is forgotten.
RestartGateway ==
  /\ LiveFault(FALSE)
  /\ stream' = saved
  /\ publisher' = [NoTask EXCEPT !.at = IF \E s \in saved : s.active
                                        THEN "loop" ELSE "off"]
  /\ sync' = [y \in DOMAIN sync |-> NoSync] /\ purger' = "off"
  /\ leaked' = (leaked \/ publisher.at \in {"swap", "install"}
                       \/ \E s \in stream, t \in saved : s.gen # t.gen)
  /\ UNCHANGED <<saved, segments, playlist, local, jobs, bindings, row,
                 ackedNext, tardy>>

LiveNext ==
  \/ CreateUploaded \/ StopFails
  \/ \E ok \in BOOLEAN :
       \/ CreatePackaged(ok) \/ FinishLive(ok)
       \/ \E stage \in {"segment", "playlist", "saved"} :
            UploadSegment(ok, stage)
       \/ RestartInstalls(ok) \/ PurgeLive(ok)
       \/ \E by \in {"request", "retention"} : MarkDeleted(by, ok)
  \/ \E g \in LiveGenerations : WorkerWrites(g) \/ WorkerDies(g)
  \/ PublisherLooks \/ RestartPlaces \/ RestartBridges
  \/ RestartDropsOld \/ PublisherRests
  \/ \E y \in DOMAIN sync : SyncLists(y) \/ SyncMedia(y) \/ SyncPlaylist(y)
  \/ DeleteLiveObjects
  \/ RestartGateway

\* The publisher and its copies run on the gateway's executor.
PublisherSteps ==
  \/ PublisherLooks \/ RestartPlaces \/ RestartBridges
  \/ RestartDropsOld \/ PublisherRests
  \/ \E ok \in BOOLEAN : RestartInstalls(ok)

SyncSteps(y) == SyncLists(y) \/ SyncMedia(y) \/ SyncPlaylist(y)

LiveFairness ==
  /\ WF_liveVars(PublisherSteps)
  /\ WF_liveVars(SyncSteps("publisher"))

LiveSpec == LiveInit /\ [][LiveNext]_liveVars /\ LiveFairness

-----------------------------------------------------------------------------
(* Properties.                                                             *)

LiveTypeOK ==
  /\ Cardinality(stream) <= 1 /\ Cardinality(saved) <= 1
  /\ Cardinality(playlist) <= 1
  /\ segments \subseteq 1 .. MaxSegments
  /\ jobs \cup bindings \subseteq LiveGenerations
  /\ row \in 0 .. MaxLiveGeneration
  /\ \A s \in stream \cup saved :
       /\ s.next \in 1 .. MaxSegments + 1 /\ s.gen \in 0 .. MaxLiveGeneration
       /\ s.active => s.kind = "worker" /\ ~s.finished
       /\ (s.purged => s.deleted) /\ (s.deleted => s.finished)

\* A viewer who reads the playlist can read its segments: each is stored, or
\* is in the directory from which serve_live copies what is missing.
PlaylistIsBacked ==
  \A s \in stream, p \in playlist :
    ~s.deleted /\ p.gen = s.gen =>
      \A n \in 1 .. (p.next - 1) :
        n \in segments \/ (s.kind = "worker" /\ n <= local[s.gen])

\* What upload_live_segment answered holds after any restart: the stream
\* expects the sequence the client was told, or a later one.
AckedSequenceSurvives ==
  \A s \in stream : s.kind = "upload" => s.next >= ackedNext

\* A stream that is not active has no job and no binding, whatever the
\* publisher was doing when it was finished or deleted; unless a clean-up
\* that nobody repeats failed.
InactiveHasNoBridge ==
  \A s \in stream :
    ~s.active /\ publisher.at \notin {"bridge", "swap", "install"}
      /\ ~leaked => jobs = {} /\ bindings = {}

\* A purged stream has no objects, unless a copy or a finish ran into the
\* deletion.
PurgedLeavesNothing ==
  \A s \in stream : s.purged /\ ~tardy => segments = {} /\ playlist = {}

\* The publisher of a finished stream makes its last copy and stops: none
\* runs for ever beside a stream that is finished.
PublisherStops ==
  []<>((\E s \in stream : s.finished) => publisher = NoTask)

\* What a live stream's record says holds for its segments, its playlist and
\* the bridge to its worker, across faults and restarts.
StreamIsBacked ==
  /\ LiveTypeOK /\ PlaylistIsBacked /\ AckedSequenceSurvives
  /\ InactiveHasNoBridge /\ PurgedLeavesNothing
=============================================================================

# Fluvora: TLA+ models and proofs

TLA+ specifications of the stateful parts of Fluvora, model-checked with TLC on
small instances, with proofs checked by TLAPS. Every definition is translated
from the source (Rust, and TypeScript for the Web SDK); `PROJECT.json` maps each one to its file and lines.

## The system

Fluvora is a streaming platform. The parts that hold state:

| part | where | role |
|---|---|---|
| room aggregate | `crates/foundation/domain` | event-sourced room: members, roles, publishers, gifts, bounded idempotency histories |
| control store | `crates/control-plane/control-store` | PostgreSQL: rooms and events, gift ledger, outbox, signals, leases, placements, revocations |
| event dispatcher | `crates/control-plane/event-dispatcher` | drains the outbox to JetStream |
| API server | `crates/services/api-server` | room commands, signals and WebSocket events, transcode orchestration; PostgreSQL or snapshot files |
| media worker | `crates/services/media-worker` | encoder jobs, generation fences on disk |
| media gateway | `crates/services/media-gateway` | uploads, VOD and live playback |
| media node, SFU | `crates/services/media-node`, `crates/webrtc/*` | ICE, DTLS, SRTP, RTP forwarding, data channels |
| TURN server | `crates/services/turn-server`, `crates/webrtc/turn` | allocations, permissions, channels |
| status service, auth | `crates/control-plane/*` | heartbeats, tokens |
| SDKs | `sdk/*` | clients |

A room command runs on any API replica. It changes the room with a
compare-and-swap in one transaction that also writes the event, the gift ledger
and an outbox row. A dispatcher publishes the row; every replica hears of it and
reloads the room or forwards the signal to its WebSocket clients. A subscriber
whose codec does not fit makes the API server place a transcode on a media
worker, and a reconciler replaces the worker when it dies. Placement
generations, fenced by the worker, keep an old attempt from coming back.

The full inventory, with what is not modelled and why, is the `components` list
of `PROJECT.json`.

## Modules

| module | models | state and actions |
|---|---|---|
| `RoomAggregate` | `Room` of the domain crate, as pure operators | `Decide` is `decide_*`, `Apply` is `apply`, `Restore` is `restore`, `ValidSnapshot` what `restore_snapshot` checks |
| `RoomLifecycle` | one aggregate executing any commands | `Execute` is `Room::execute` |
| `RoomLog` | the promise of the room service: one log, each command at most once | abstract specification |
| `RoomCommands` | `execute_room_command` on several replicas over PostgreSQL | one action per await; the event subscriber; failures, cancellation, crashes |
| `RoomFiles` | the same room on snapshot files | persist, rename, prune, side effects, restart at any step |
| `Outbox` | outbox rows, dispatchers, JetStream's duplicate window | one action per SQL statement or broker call; time; cleanup |
| `Signals` | the signal log, replica caches, broadcast channels, WebSocket and polling clients | commit, cache, broadcast are separate steps, as in `cache_signal` |
| `WorkerAssignments` | the media worker's job handlers, fences, encoder slots and tasks | one action per lock section |
| `TranscodePlacement` | one shared transcode: registry entry, placement row, workers | provisioning, restart, teardown, one action per remote call |
| `SharedTracks` | the media routes: a source, subscriptions and the transcodes they share | handlers as chains of remote calls; answers are lost |
| `ProtocolSessions` | WHIP and WHEP sessions in the API server and at the media node | offer, restart under `protocol_updates`, delete and clean-up without it |
| `RoomPlacement` | heartbeats, draining, and which node a room is on | the transaction of `place_room` in its steps: read, lock, write |
| `MediaSessions` | ICE, DTLS and SRTP sessions of a media node | one action per critical section of HTTP handlers, UDP task and timers |
| `SfuRoom` | the tables of one SFU room, sinks and ingresses | what a handler found under one lock and carries out under the next is a task |
| `DownTracks`, `Timestamps` | layer switching, PLIs, RTP timestamps of a down-track | one action per packet, feedback or request |
| `SrtpStream` | numbering, packet cache, SRTP protect and unprotect | packet indices with their rollover counter, the replay window |
| `Congestion` | bandwidth estimate and layer of one subscription | history of sent packets, feedback, hysteresis |
| `Sctp` | a data-channel association and its peer | `handle_packet`, `send_message`, `tick` as operators on the association |
| `RoomData` | room messages over data channels | label tables beside the association, numbering, fan-out, timer task |
| `Rtcp` | the RTCP codec, as operators on octets | encode, what network and peers may do to a datagram, parse |
| `Turn`, `RelayBandwidth` | allocations, permissions, channels, relay tasks; the token bucket | one action per request, datagram, task step and expiry |
| `VodAssets` | one asset of the gateway | upload, completion, worker, monitor, publication, deletion, restart |
| `LiveStreams` | one live stream of the gateway | segments, bridge, publisher, failover, finish, deletion, restart |
| `P2pSession` | two Web SDK clients negotiating through the room's signals | calls of the user, the poll loop, unawaited candidate posts |
| `OutboxProofs`, `WorkerProofs`, `RoomAggregateProofs`, `RoomCommandsProofs`, `RoomLogProofs`, `SfuTableProofs`, `SfuRoomProofs`, `TransportProofs` | theorems: see Proofs | |

`RoomCommands` composes the aggregate with the store and refines `RoomLog`.
`TranscodePlacement` composes the API server, the placement table and workers
that are an abstraction of `WorkerAssignments` (one resource, one fence).
`SharedTracks` composes the API's lists with the coordinator of
`transcode-bridge`, a media node and workers; `MediaSessions` composes
`rtc-session`, `ice-lite`, the DTLS adapter and the SFU's room registry;
`RoomPlacement` composes media node, status service, store and API server.

### Conventions

- A step boundary is where the code can be overtaken: an await, a released
  lock, a separate SQL statement, a remote call. What the code does between two
  of them is one action, failures included.
- Optional values are sets of at most one element. Time is kept as the time
  that remains on each timestamp, so the clock needs no bound.
- A definition introduced as "Mutant of X" is X with a plausible mistake. No
  behaviour uses it; `PROJECT.json` names the property that reveals the mistake
  when it takes the place of X.
- Variables whose comment says "history" are read by properties and by no
  guard. Where a property holds unless something went wrong that the code does
  not repair (a lost answer, an unsaved mark), a history variable notes it, and
  the property says so.
- Row locks of PostgreSQL (`FOR UPDATE`, `SKIP LOCKED`) live inside one
  statement or transaction. A transaction is one step, except in `RoomPlacement`,
  where what it read before it took the lock is what matters.

## Runs

Modules that do not share state are checked side by side: an `MC` module extends
several of them, `part` says which one a behaviour is about, and the others stay
as they began. The states of such a run are the sum of its parts, and every
invariant and property speaks about its own part. Fairness of a part is asked
only where it is the part that moves. The invariants of a part are stated one by
one in its module, and the last definition of the module joins those that a run
checks (`RowsAreSound` of `Outbox`, `StoreAgrees` of `RoomCommands`, ...).

| run | parts and instance | shows |
|---|---|---|
| `work` | `WorkerAssignments`: 2 handlers, VOD and live, 2 slots, restarts. `Signals`: backlog 1, channel 1, a writer that may be cancelled, the bus, a room command, a socket | no generation revived, no permit leaked, every task stoppable, a running job that is replaced stops; a connection's sequences only grow and no signal is left in its queue |
| `delivery` | `Outbox`: 2 rows, 2 dispatchers, lease 1, backoff 1..2. `VodAssets`: 2 generations, one fault. `P2pSession`: two clients with plans of up to two calls | rows are delivered only when stored, a live lease is a fence, every event is stored and, with one dispatcher left, delivered; acknowledged bytes survive, a ready asset is whole, deletion leaves nothing, transcoding ends; both clients end with one description, candidates arrive, a bye ends both |
| `video` | `LiveStreams`: 1 segment, 2 generations. `DownTracks`: 2 subscriptions, 2 layers | a playlist is backed by its segments, acknowledged sequences survive, an inactive stream has no bridge, a purged one no objects, a finished one no publisher; switches happen at keyframes, and a waiting subscriber is served |
| `sessions` | `MediaSessions`: 2 sessions, 2 addresses. `Turn`: UDP and TCP clients, 2 ports | deleted sessions leave nothing, routes lead to validated pairs, states are backed by keys, silence fails; relayed data is permitted, channels are injective, ports exclusive and freed |
| `control` | `RoomCommands`: 2 replicas, 4 gift commands (3 of one transaction). `ProtocolSessions`: 2 calls, 1 lost answer. `RoomPlacement`: 2 nodes, 2 rooms. `TranscodePlacement`: 2 nodes, 3 generations. `SfuRoom`: 2 people, 2 tracks. `RoomData`: 2 sessions, 2 streams, 2 labels | log, snapshot, ledger and answers agree and implement `RoomLog`; credentials and lists agree; limits and draining hold; no placement or encoder is left; the SFU's tables agree; labels lead to their streams and numbers grow |
| `transport` | `RoomLifecycle`: 3 users, 3 keys, histories of 2 and 1, 4 events. `RoomFiles`: 3 commands, 2 side effects. `Signals`: 3 signals, one writer, a poller. `SharedTracks`: 2 handlers, 2 subscriptions, 2 specifications. `Sctp`, `RelayBandwidth`, `SrtpStream`, `Timestamps`, `Congestion`, `Rtcp` | snapshots are accepted, idempotency lasts one window; commands survive a crash; no silent gap; references are held and nothing is left; messages arrive once and in order, the relay's rate, one use of each keystream and one acceptance of each index, growing timestamps, affordable layers, the codec's round trip |

Runs that end in a counterexample, each a disagreement between the code and a
sentence of the repository (quoted in `PROJECT.json` under `findings`):

| run | what happens |
|---|---|
| `room_files_loss` | after a media side effect every snapshot is refused at the next start, and later commands are lost |
| `signals_gap` | two writers broadcast against commit order, the connection drops the earlier signal silently |
| `worker_race` | a newer generation finds no cancellation to send, two encoders run |
| `transcode_fence` | a failed restart resets the generation below the worker's fence |
| `nack` | the SRTP context refuses every retransmission, so a NACK is never answered |
| `overbooked` | two placements are chosen from one snapshot, and the node ends above its limit |

Smaller disagreements were met while modelling. The actions keep the code's
behaviour, and no run checks the sentence:

- A repeated key is answered with the room's present sequence, not with its own
  (`Execute`, `Reread` of `RoomCommands`; `docs/en/API_SERVER_STRUCTURE.md:83`).
- A slow reload puts an older room back into the cache (`Install`,
  `NoticeInstall`; `docs/en/API_SERVER_STRUCTURE.md:109`).
- A command id is accepted again once 128 signals have passed (`AppendSignal`
  of `Signals`; the comment at `control-store/src/lib.rs:765`).
- A teardown removes the placement that a concurrent restart advanced
  (`TearRemove` of `TranscodePlacement`; `docs/en/RUNBOOK.md:85`).
- A worker's playlist is copied as it is when its turn comes, so it may name
  segments written after the media was listed (`SyncPlaylist` of `LiveStreams`;
  `docs/en/API.md:163`).

### Why the bounds are enough

The interesting events need two actors and one repetition: two dispatchers, two
replicas, two handlers, two generations of one resource, two subscriptions of one
transcode. Limits (histories, backlog, channel capacity, slots, quotas, windows,
retry attempts) are set to 1 or 2 so that they are reached and passed within a
few steps; sequence numbers wrap after 6 to 16 values. Model bounds that stand
for nothing in the code are named in the `CONSTANTS` comments (`MaxCopies`,
`MaxEvents`, `MaxRevision`, `MaxSignals`, `MaxGeneration`, `LastJob`, `MaxFaults`,
`MaxLosses`, ...); where they can stop a part, it may stutter or the `.cfg` says
`CHECK_DEADLOCK FALSE`. `Sends` and `Notified` of `RoomCommands` say which
handler receives which commands and which replica the bus reaches: in the
instance both handlers get the shared transaction and one replica lives without
notices. The cancellation of a writer (`AppendLost` of `Signals`) happens in
`work` only, since `transport` has no cancellable writer. No run uses symmetry.

### Fairness

- `Outbox`: time passes; every dispatcher runs its loop (weak fairness on each
  of its steps). A publish that is tried again and again succeeds, and so does an
  acknowledgement by the lease's owner (strong fairness): the broker and the
  database may fail any number of times, not for ever. With two dispatchers
  whose leases are shorter than their work, ownership can bounce for ever, so
  `EventuallyDelivered` is asked of behaviours in which one dispatcher is
  eventually left alone with the rows.
- `Signals`: tokio runs each ready task and connection; clients and writers
  owe nothing.
- `WorkerAssignments`: handlers and tasks are polled; an encoder need not exit
  by itself.
- `VodAssets`: the monitor's task is polled and a job of the worker ends;
  requests owe nothing. `LiveStreams`: the publisher's task is polled.
- `MediaSessions`, `Turn`: timers run and time passes; relay and request tasks
  are polled; clients and peers owe nothing.
- `DownTracks`: the publisher keeps sending its layers; of PLIs sent again and
  again one arrives and brings a keyframe (strong fairness, as for any repeated
  datagram).
- `P2pSession`: promises that were begun settle and a started loop polls.

Where something must happen again and again, the property is written as
`[]<>(P => Q)`: the unwanted state `P /\ ~Q` does not stay for ever.

## Proofs

`OutboxProofs` proves, for any set of rows, dispatchers and timing constants
that satisfy the named assumptions of `Outbox`:

- `TypeCorrect`: `OutboxTypeOK`, together with "a working dispatcher has a message"
  (`Working`), is inductive.
- `NoEventLost`: `OutboxSpec => []DeliveredIsStored`. The invariant is not inductive
  alone: the step that marks a row delivered is `Ack`, so the proof adds that a
  dispatcher about to acknowledge has its message in the stream
  (`AckingIsStored`), and, because a publish inside the duplicate window stores
  nothing, that a message in the window has been stored (`WindowIsStored`).
- `LeaseIsFence`: `OutboxSpec => LiveLeaseIsFence`, an action property, from type
  correctness and one step per action: only `Claim`, `Ack` and `Retry` change
  an owner, the first never under a live lease, the others only by the owner.
- `SettledRowsAreFree`: `OutboxSpec => []SettledIsUnleased`, and `RowsGoForward`:
  `OutboxSpec => RowsMoveForward`. Both follow from one lemma, `RowSteps`, which
  lists what any step of the system can do to one row. `RowsMoveForward` (absent,
  pending, delivered, pruned, never back) is checked by no run.
- `RowsStaySound`: `OutboxSpec => []RowsAreSound`, the invariants above together.

`BackoffAssumption` states two facts about powers of two the provers do not
know; TLC evaluates it in the run `delivery`.

`WorkerProofs` proves, for any handlers, resources, slots, retained jobs and
numbers of generations and jobs that satisfy the assumptions of
`WorkerAssignments`:

- `TypeCorrect`: `WorkerTypeOK`, with the semaphore's limit on permits.
- `NoPermitLeaks` and `EveryTaskCanBeStopped`:
  `WorkerSpec => []PermitsAreAccountedFor` and
  `WorkerSpec => []RunningCanBeStopped`; together `TasksStayAccountedFor`,
  `WorkerSpec => []TasksAreAccountedFor`.
- `GenerationsNeverRevive`: `WorkerSpec => NoGenerationRevived`, an action property.

They rest on one inductive invariant, `Inv`. A permit that a handler gives back
must not be one that a task uses, so it says that a job belongs to one handler
and to a task only when no handler has it (`Apart`), which in turn needs that no
part of the worker knows a job id not handed out yet (`Fresh`). Generations are
compared through the fence, which is at or above every accepted generation
(`Fenced`) because a restart keeps it.

`RoomCommandsProofs` proves, for any replicas, handlers, commands, history limits
and number of attempts that satisfy the assumptions of `RoomAggregate` and
`RoomCommands`:

- `StoreStaysAgreed`: `CommandsSpec => []StoreAgrees`, the snapshot is the replay
  of the event table and the ledger holds the gifts of its events.
- `AnswersStayDurable`: `CommandsSpec => []AnswersAreDurable`.

Replicas decide on copies that may be old, so the inductive invariant
`CommandsInv` speaks of every cached, loaded and notified room (`Copies`): it is
older than the stored room, or it is the stored room. The compare-and-swap of
`append_room_event` compares revisions only; with this, equal revisions mean that
the handler decided on the stored room. `Sound` says what each handler knows at
each of its steps: at `commit` it holds what the command makes of some copy, at
`keep` its event is the last one of the room it holds, at `adopt` and `reread`
its command is in the log.

`RoomAggregateProofs` holds the lemmas about the aggregate: what `Restore`
computes on a log with one more event, and what `Apply` keeps. `Restore` is a
recursive function; that its recursion has a solution, and only one, is proved
from the least counterexample (`LeastNatural`), since the library's induction
theorems cannot be instantiated.

`RoomLogProofs` proves `ReplicasImplementLog`, `CommandsSpec => ImplementsLog`:
the replicas, whose rooms forget old command ids and gift transactions, implement
`RoomLog`, whose room forgets nothing. The refinement needs `EntireInv`: the room
of the whole log is like the stored one in all but its memory (`Alike`), the
commands it remembers are in the event table and its gifts in the ledger. Then a
commit, which checks the table and the ledger, is a step of the log that the
unforgetting room permits too. `UnboundedAssumption` says that the limit which
stands for "forgets nothing" is a valid limit; the proof does not need it to be
large, as the two tables bound what is remembered.

`SfuRoomProofs` proves, for any participants, tracks, subscriptions, SSRCs and
limits (`SfuAssumption`: the limits are natural numbers):

- `RoomStaysSound`: `SfuSpec => []RoomIsSound`.
- `RemovalStaysOwned`: `SfuSpec => RemovalIsOwned`, an action property.

`SfuTableProofs` has the part about the tables alone: `Sound` says that the
tables of the core agree with each other and the runtime's maps with the core,
and the lemmas `TracksLeaveTogether`, `ParticipantLeaves`, `TrackArrives` and
`SubscriptionArrives` show that each operation of the core, with the clean-up the
runtime does under the same lock, keeps it. The inductive invariant `SfuInv` adds
what spans two locks: whoever a removal is due for, in a task or through an
ingress, still owns the track, or it is gone, or its identifier was published
again (`Owed`); and that tables are finite and within their limits (`Small`).

`TransportProofs` proves, about `SrtpStream`, for every sequence space, window,
index limit and cache, `ReplaysAreRefused`, `KeystreamIsNotReused`,
`GoodPacketsPass` and, with the type invariant, `IndicesStayUnique`:
`SrtpSpec => []IndicesAreUsedOnce`. The inductive invariant `SrtpInv` says that
the sender is past every index on the network and that the window remembers every
accepted index that is not too old; `EstimateIsExact` shows that the rollover
guess of `estimate_index` recovers an index less than half a cycle ahead
or less than a window behind. This is where the window must be at most half the
sequence space (`SrtpAssumption`; 64 of 65536 in the code). About
`RelayBandwidth` it proves `BandwidthIsBounded`, `BandwidthSpec =>
[]RateIsBounded`, for every rate, resolution of the clock and size of datagrams.
The invariant relates what has passed and what is left to what the rate has
yielded, separately before and after the first refill of the interval (`Accrued`).

Only model-checked: liveness (outside the prover's reach), the recursive operators
of `Rtcp`, and the invariants and action properties of the modules that
have no proofs above.

## Not modelled

Byte formats other than RTCP (STUN, RTP, SDP, SCTP encodings), cryptography,
encoder command lines, HTTP validation, tokens, metrics and logs. Signals of the
file store, byte bounds of caches, API replicas sharing transcode job ids,
failures of placement removals, unreadable snapshot and fence files,
`upload_live_init`, TCP and TLS framing of the TURN server: see
`components` in `PROJECT.json` for each.

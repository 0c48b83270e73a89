------------------------------ MODULE Signals ------------------------------
(***************************************************************************)
(* The signals of one room with the PostgreSQL store: the durable log, the *)
(* cache and broadcast channel of every API replica, and the clients that  *)
(* read them through a WebSocket or by polling.                            *)
(*                                                                         *)
(* append_signal commits the signal, then puts it into the replica's cache *)
(* and then, outside the cache's lock, into the broadcast channel.  The    *)
(* replica's event subscriber does the same with the signals it hears of   *)
(* from the event bus, in whatever order they come and however often.  A   *)
(* room command that ran meanwhile puts back the cache it had copied.      *)
(***************************************************************************)
EXTENDS Integers, FiniteSets, Sequences, SequencesExt, FiniteSetsExt

CONSTANTS
  SignalKeys,  \* idempotency keys of signals
  Private,     \* those addressed to somebody else (to_id)
  Replicas,    \* api-server processes
  Writers,     \* append_signal handlers
  Cancellable, \* those whose client may leave before the answer
  Subscribers, \* event-bus subscriber tasks
  Commanders,  \* execute_room_command handlers
  Sockets,     \* WebSocket clients
  Pollers,     \* clients of GET .../signals
  Home,        \* Home[x]: the replica that serves the task or client x
  Backlog,     \* SIGNAL_BACKLOG, in the store and in the cache (128)
  Capacity,    \* EVENT_CHANNEL_CAPACITY (128)
  PageLimit,   \* limit of a polled page: the SDKs ask for 128
  MaxSignals   \* model bound: signals committed

Tasks == Writers \cup Subscribers

ASSUME HomeAssumption ==
  \A x \in Tasks \cup Commanders \cup Sockets \cup Pollers :
    Home[x] \in Replicas
ASSUME BoundsAssumption ==
  /\ Private \subseteq SignalKeys /\ Cancellable \subseteq Writers
  /\ {Backlog, Capacity, PageLimit} \subseteq Nat \ {0}
  /\ MaxSignals \in Nat

VARIABLES
  hist,   \* hist[n]: the command of signal n; the last Backlog are rows
  cache,  \* cache[r]: sequences in the room's signals queue
  caching, \* caching[t]: what cache_signal has yet to do, for which signal
  copy,   \* copy[c]: the signals queue a room command has cloned
  socket, \* socket[s]: the connection
  poller  \* poller[p]: the polling client

signalsVars == <<hist, cache, caching, copy, socket, poller>>

Sequences0 == 0 .. MaxSignals
Signals0 == 1 .. MaxSignals

Committed == 1 .. Len(hist)
\* The rows the store still has.
Rows == {n \in Committed : n > Len(hist) - Backlog}
\* The recipient filter of load_room_signal_page and stream_room_events.
Mine(n) == hist[n] \notin Private

Closed == [pc |-> "closed", queue |-> <<>>, lagged |-> FALSE, after |-> 0,
           floor |-> 0, cursor |-> 0, sent |-> <<>>, warned |-> FALSE]

\* Every variable has the shape of the structure it stands for, and neither a
\* cache nor a broadcast queue outgrows its limit.
SignalsTypeOK ==
  /\ hist \in Seq(SignalKeys) /\ Len(hist) <= MaxSignals
  /\ cache \in [Replicas -> SUBSET Signals0]
  /\ \A r \in Replicas : Cardinality(cache[r]) <= Backlog
  /\ caching \in [Tasks -> [pc : {"idle", "insert", "send"}, seq : Sequences0]]
  /\ copy \in [Commanders -> SUBSET (SUBSET Signals0)]
  /\ \A s \in Sockets :
       /\ socket[s].pc \in {"closed", "page", "live"}
       /\ socket[s].queue \in Seq(Signals0)
       /\ Len(socket[s].queue) <= Capacity
       /\ socket[s].sent \in Seq(Signals0)
       /\ {socket[s].after, socket[s].floor, socket[s].cursor}
            \subseteq Sequences0
  /\ \A p \in Pollers :
       /\ poller[p].pc \in {"idle", "rows"}
       /\ {poller[p].after, poller[p].latest} \subseteq Sequences0
       /\ poller[p].seen \subseteq Signals0

SignalsInit ==
  /\ hist = <<>>
  /\ cache = [r \in Replicas |-> {}]
  /\ caching = [t \in Tasks |-> [pc |-> "idle", seq |-> 0]]
  /\ copy = [c \in Commanders |-> {}]
  /\ socket = [s \in Sockets |-> Closed]
  /\ poller = [p \in Pollers |->
                 [pc |-> "idle", after |-> 0, latest |-> 0, seen |-> {},
                  floor |-> 0]]

-----------------------------------------------------------------------------
(* append_signal and apply_shared_event.                                   *)

\* append_room_signal: one transaction under the room's row lock.  A command
\* that still has a row returns it; otherwise the next sequence is taken and
\* rows beyond the backlog go.
AppendSignal(w, c) ==
  /\ caching[w].pc = "idle"
  /\ \/ \E n \in Rows : /\ hist[n] = c
                        /\ caching' = [caching EXCEPT ![w] =
                                         [pc |-> "insert", seq |-> n]]
                        /\ UNCHANGED hist
     \/ /\ \A n \in Rows : hist[n] # c
        /\ Len(hist) < MaxSignals
        /\ hist' = Append(hist, c)
        /\ caching' = [caching EXCEPT ![w] =
                         [pc |-> "insert", seq |-> Len(hist) + 1]]
  /\ UNCHANGED <<cache, copy, socket, poller>>

\* The handler is dropped after the commit: this replica hears of the signal
\* from the bus only.
AppendLost(w) ==
  /\ w \in Cancellable /\ caching[w].pc = "insert"
  /\ caching' = [caching EXCEPT ![w] = [pc |-> "idle", seq |-> 0]]
  /\ UNCHANGED <<hist, cache, copy, socket, poller>>

\* The bus delivers signal.created for a committed signal: out of order, more
\* than once, or never.
BusDelivers(t, n) ==
  /\ caching[t].pc = "idle"
  /\ n \in Committed
  /\ caching' = [caching EXCEPT ![t] = [pc |-> "insert", seq |-> n]]
  /\ UNCHANGED <<hist, cache, copy, socket, poller>>

\* trim_signal_cache: the newest Backlog signals stay.
Trimmed(queue) ==
  {n \in queue : Cardinality({m \in queue : m > n}) < Backlog}

\* cache_signal under the write lock.  A signal the cache holds ends here.
CacheInsert(t) ==
  LET r == Home[t] n == caching[t].seq IN
    /\ caching[t].pc = "insert"
    /\ cache' = [cache EXCEPT ![r] = IF n \in @ THEN @
                                     ELSE Trimmed(@ \cup {n})]
    /\ caching' = [caching EXCEPT ![t] =
                     IF n \in cache[r] THEN [pc |-> "idle", seq |-> 0]
                                       ELSE [@ EXCEPT !.pc = "send"]]
    /\ UNCHANGED <<hist, copy, socket, poller>>

\* What sender.send does to a receiver: a full queue loses its oldest signal
\* and the receiver learns that it lagged.
Pushed(s, n) ==
  LET queue == Append(socket[s].queue, n) IN
    IF Len(queue) > Capacity
    THEN [socket[s] EXCEPT !.queue = Tail(queue), !.lagged = TRUE]
    ELSE [socket[s] EXCEPT !.queue = queue]

\* Mutant of Broadcast: the signal is cached and not sent.
BroadcastNothing(t) ==
  /\ caching[t].pc = "send"
  /\ caching' = [caching EXCEPT ![t] = [pc |-> "idle", seq |-> 0]]
  /\ UNCHANGED <<hist, cache, copy, socket, poller>>

\* sender.send(signal), after the cache's lock is released.
Broadcast(t) ==
  /\ caching[t].pc = "send"
  /\ socket' = [s \in Sockets |->
                  IF Home[s] = Home[t] /\ socket[s].pc # "closed"
                  THEN Pushed(s, caching[t].seq) ELSE socket[s]]
  /\ caching' = [caching EXCEPT ![t] = [pc |-> "idle", seq |-> 0]]
  /\ UNCHANGED <<hist, cache, copy, poller>>

\* execute_room_command clones the managed room, its signals included ...
CommandCopies(c) ==
  /\ copy[c] = {}
  /\ copy' = [copy EXCEPT ![c] = {cache[Home[c]]}]
  /\ UNCHANGED <<hist, cache, caching, socket, poller>>

\* ... and puts the clone back after its commit, or gives up.
CommandPutsBack(c) ==
  /\ copy[c] # {}
  /\ \/ \E queue \in copy[c] : cache' = [cache EXCEPT ![Home[c]] = queue]
     \/ UNCHANGED cache
  /\ copy' = [copy EXCEPT ![c] = {}]
  /\ UNCHANGED <<hist, caching, socket, poller>>

-----------------------------------------------------------------------------
(* room_events and stream_room_events.                                     *)

\* The sequence before the oldest row: what a page cannot reach any more.
Expired == Len(hist) - Cardinality(Rows)

Larger(m, n) == IF m > n THEN m ELSE n

\* The client opens a connection after the last sequence it has seen; the
\* handler subscribes to the broadcast channel first.
Subscribe(s) ==
  /\ socket[s].pc = "closed"
  /\ socket' = [socket EXCEPT ![s] = [@ EXCEPT !.pc = "page"]]
  /\ UNCHANGED <<hist, cache, caching, copy, poller>>

\* The rows of load_room_signal_page for a cursor.
Page(after) == {n \in Rows : n > after /\ Mine(n)}

\* load_room_signal_page, and the replay that stream_room_events sends before
\* its loop.  The default limit is the whole backlog.
Replay(s) ==
  LET after == socket[s].after
      page == Page(after)
  IN  /\ socket[s].pc = "page"
      /\ socket' = [socket EXCEPT ![s] =
           [@ EXCEPT !.pc = "live",
                     !.floor = Larger(after, Expired),
                     !.sent = SetToSortSeq(page, <),
                     !.cursor = IF page = {} THEN 0 ELSE Max(page)]]
      /\ UNCHANGED <<hist, cache, caching, copy, poller>>

\* The socket breaks in the middle of the replay.
ReplayBreaks(s) ==
  /\ socket[s].pc = "page"
  /\ \E n \in Page(socket[s].after) :
       socket' = [socket EXCEPT ![s] = [Closed EXCEPT !.after = n]]
  /\ UNCHANGED <<hist, cache, caching, copy, poller>>

\* The condition under which a received signal goes to the client.
Forwarded(s, n) == n > socket[s].cursor /\ Mine(n)

\* Mutant of Receive: RecvError::Lagged is skipped and not reported.
ReceiveSkippingLag(s) ==
  /\ socket[s].pc = "live"
  /\ \/ /\ socket[s].lagged
        /\ socket' = [socket EXCEPT ![s] = [@ EXCEPT !.lagged = FALSE]]
     \/ /\ ~socket[s].lagged /\ socket[s].queue # <<>>
        /\ LET n == Head(socket[s].queue) IN
             socket' = [socket EXCEPT ![s] =
               [@ EXCEPT !.queue = Tail(@),
                         !.sent = IF Forwarded(s, n) THEN Append(@, n) ELSE @,
                         !.cursor = IF Forwarded(s, n) THEN n ELSE @]]
  /\ UNCHANGED <<hist, cache, caching, copy, poller>>

\* receiver.recv() in the loop: a lag is reported once, before the next
\* signal of the queue.
Receive(s) ==
  /\ socket[s].pc = "live"
  /\ \/ /\ socket[s].lagged
        /\ socket' = [socket EXCEPT ![s] = [@ EXCEPT !.lagged = FALSE,
                                                     !.warned = TRUE]]
     \/ /\ ~socket[s].lagged /\ socket[s].queue # <<>>
        /\ LET n == Head(socket[s].queue) IN
             socket' = [socket EXCEPT ![s] =
               [@ EXCEPT !.queue = Tail(@),
                         !.sent = IF Forwarded(s, n) THEN Append(@, n) ELSE @,
                         !.cursor = IF Forwarded(s, n) THEN n ELSE @]]
  /\ UNCHANGED <<hist, cache, caching, copy, poller>>

\* Either side closes; the client keeps the last sequence it saw.
Close(s) ==
  /\ socket[s].pc # "closed"
  /\ socket' = [socket EXCEPT ![s] =
                  [Closed EXCEPT !.after = IF socket[s].sent = <<>>
                                           THEN socket[s].after
                                           ELSE Last(socket[s].sent)]]
  /\ UNCHANGED <<hist, cache, caching, copy, poller>>

-----------------------------------------------------------------------------
(* get_signals, used as the SDK guide says: keep latest_sequence and ask   *)
(* for what comes after it.                                                *)

\* The first statement of load_room_signal_page: rooms.signal_sequence.
PollLatest(p) ==
  /\ poller[p].pc = "idle"
  /\ poller' = [poller EXCEPT ![p] = [@ EXCEPT !.pc = "rows",
                                               !.latest = Len(hist)]]
  /\ UNCHANGED <<hist, cache, caching, copy, socket>>

\* ORDER BY sequence LIMIT $4.
FirstOf(page) ==
  {n \in page : Cardinality({m \in page : m < n}) < PageLimit}

\* The second statement, outside any transaction, and the client's update.
PollRows(p) ==
  /\ poller[p].pc = "rows"
  /\ poller' = [poller EXCEPT ![p] =
       [@ EXCEPT !.pc = "idle",
                 !.seen = @ \cup FirstOf(Page(poller[p].after)),
                 !.floor = Larger(@, Expired),
                 !.after = poller[p].latest]]
  /\ UNCHANGED <<hist, cache, caching, copy, socket>>

-----------------------------------------------------------------------------
CachingStep(t) == CacheInsert(t) \/ Broadcast(t)

SignalsNext ==
  \/ \E w \in Writers : (\E c \in SignalKeys : AppendSignal(w, c))
                          \/ AppendLost(w)
  \/ \E t \in Subscribers, n \in Signals0 : BusDelivers(t, n)
  \/ \E t \in Tasks : CachingStep(t)
  \/ \E c \in Commanders : CommandCopies(c) \/ CommandPutsBack(c)
  \/ \E s \in Sockets : \/ Subscribe(s) \/ Replay(s) \/ ReplayBreaks(s)
                        \/ Receive(s) \/ Close(s)
  \/ \E p \in Pollers : PollLatest(p) \/ PollRows(p)

SignalsSpec == SignalsInit /\ [][SignalsNext]_signalsVars

\* The runtime runs every task that can go on; clients need not come back.
SignalsFairness ==
  /\ \A t \in Tasks : WF_signalsVars(CachingStep(t))
  /\ \A s \in Sockets : /\ WF_signalsVars(Replay(s))
                        /\ WF_signalsVars(Receive(s))

SignalsFairSpec == SignalsSpec /\ SignalsFairness

-----------------------------------------------------------------------------
(* Properties.                                                             *)

\* On one connection sequences only grow: replay and broadcast overlap, the
\* bus repeats and reorders, a room command brings back an old cache, and no
\* signal is sent twice or out of order.
SentInOrder ==
  \A s \in Sockets : \A i, j \in 1 .. Len(socket[s].sent) :
    i < j => socket[s].sent[i] < socket[s].sent[j]

\* A poller that keeps latest_sequence skips nothing but expired rows,
\* although the two statements of a page see different states of the log.
PollerSkipsNothing ==
  \A p \in Pollers : \A n \in Committed :
    n > poller[p].floor /\ n <= poller[p].after /\ Mine(n) =>
      n \in poller[p].seen

\* "Ordered, durable, replayable": the cursor of a connection never passes a
\* signal for this client that the connection has not sent, unless the client
\* was told to resync.
NoSilentGap ==
  \A s \in Sockets : socket[s].pc = "live" =>
    \A n \in Committed :
      /\ n > socket[s].floor /\ n <= socket[s].cursor /\ Mine(n)
      => \/ n \in Range(socket[s].sent)
         \/ socket[s].lagged \/ socket[s].warned

\* A signal that is broadcast while a connection is live reaches the client,
\* or the cursor has passed it, or the client is told to resync, or the
\* connection ends: no signal is left behind in a queue.
EventuallySent ==
  \A s \in Sockets, n \in Signals0 :
    (/\ n \in Committed /\ Mine(n)
     /\ socket[s].pc = "live" /\ n > socket[s].floor
     /\ \E t \in Tasks : caching[t] = [pc |-> "send", seq |-> n]
                           /\ Home[t] = Home[s])
      ~> \/ n \in Range(socket[s].sent) \/ socket[s].cursor > n
         \/ socket[s].warned
         \/ socket[s].pc = "closed"

\* What a client is sent is the log, in order and without a silent gap, on a
\* connection and by polling, as long as a replica caches one signal at a
\* time.
SocketsMissNothing ==
  /\ SignalsTypeOK /\ SentInOrder /\ NoSilentGap /\ PollerSkipsNothing
=============================================================================

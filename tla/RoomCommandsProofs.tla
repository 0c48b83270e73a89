------------------------- MODULE RoomCommandsProofs -------------------------
(***************************************************************************)
(* For any replicas, handlers, commands and history limits: the store      *)
(* agrees with its log, and answers are durable.                           *)
(***************************************************************************)
EXTENDS RoomCommands, RoomAggregateProofs

\* The rows of fluvora_room_events.
Rows == [id : CommandIds, command : Commands]

\* The progress of a handler.
TaskRecords ==
  [pc : PCs, id : CommandIds, attempt : 0 .. MaxAttempts, room : Room,
   reply : Replies, sequence : Nat]

\* CommandsTypeOK, with the shape of task and notice.
Shapes ==
  /\ stored \in Room /\ events \in Seq(Rows) /\ ledger \subseteq Transactions
  /\ cache \in [Replicas -> Room]
  /\ mutex \in [Replicas -> Tasks \cup {Nobody}]
  /\ task \in [Tasks -> TaskRecords]
  /\ notice \in [Replicas -> SUBSET Room]
  /\ \A r \in Replicas : \E room \in Room : notice[r] \subseteq {room}

\* The command ids of the creation and of the events of a log.
Logged(log) == {Creation} \cup {log[i].id : i \in DOMAIN log}

\* A copy of the room that is st now, and whose log is log, is older than st
\* or is st, and remembers only commands of the log.
Copy(room, st, log) ==
  /\ room.sequence <= st.sequence
  /\ room.sequence = st.sequence => room = st
  /\ Range(room.commands) \subseteq Logged(log)

\* The log has the command where the sequence says.
LoggedAt(id, sequence, log) ==
  sequence - 1 \in DOMAIN log /\ log[sequence - 1].id = id

\* A handler that is about to commit decided on a copy.
Decided(k, st, log) ==
  \E base \in Room :
    /\ Copy(base, st, log) /\ Applies(base, k.id, CommandOf[k.id])
    /\ k.room = Apply(base, Event(k.id, CommandOf[k.id]))

\* What a handler knows at each of its steps.
Sound(k, st, log) ==
  /\ k.pc \in {"install", "keep", "adopt"} => Copy(k.room, st, log)
  /\ k.pc = "commit" => Decided(k, st, log)
  /\ k.pc = "keep" => LoggedAt(k.id, k.room.sequence, log)
  /\ k.pc \in {"adopt", "reread"} => k.id \in Logged(log)
  /\ k.pc = "done" /\ k.reply = "applied" => LoggedAt(k.id, k.sequence, log)
  /\ k.pc = "done" /\ k.reply = "duplicate" => k.id \in Logged(log)

\* Every cached or loaded room is a copy.
Copies(st, log) ==
  /\ Copy(st, st, log)
  /\ \A r \in Replicas : Copy(cache[r], st, log)
  /\ \A r \in Replicas : \A room \in notice[r] : Copy(room, st, log)

\* The inductive invariant.  A copy can be old, but a copy with the revision
\* of the store is the stored room: that is why the compare-and-swap of
\* append_room_event is enough.
CommandsInv ==
  /\ Shapes /\ SnapshotIsReplay /\ LedgerMatchesLog
  /\ Copies(stored, events)
  /\ \A t \in Tasks : Sound(task[t], stored, events)

-----------------------------------------------------------------------------
(* The store grows.                                                        *)

\* From (st, log) to (st2, log2) nothing happened, or one event did.
Grows(st, log, st2, log2) ==
  \/ st2 = st /\ log2 = log
  \/ /\ st2 \in Room /\ st2.sequence = st.sequence + 1
     /\ \E e \in Rows : log2 = Append(log, e)

\* Copies stay copies and what was logged stays logged.
LEMMA GrowthKeeps ==
  ASSUME NEW st \in Room, NEW log \in Seq(Rows), NEW st2, NEW log2,
         Grows(st, log, st2, log2)
  PROVE  /\ Logged(log) \subseteq Logged(log2)
         /\ \A room \in Room : Copy(room, st, log) => Copy(room, st2, log2)
         /\ \A id, n : LoggedAt(id, n, log) => LoggedAt(id, n, log2)
         /\ \A k : Sound(k, st, log) /\ k \in TaskRecords
                     => Sound(k, st2, log2)
<1>1. CASE st2 = st /\ log2 = log
  BY <1>1
<1>2. ASSUME st2 \in Room, st2.sequence = st.sequence + 1,
             NEW e \in Rows, log2 = Append(log, e)
      PROVE  /\ Logged(log) \subseteq Logged(log2)
             /\ \A room \in Room : Copy(room, st, log) => Copy(room, st2, log2)
             /\ \A id, n : LoggedAt(id, n, log) => LoggedAt(id, n, log2)
  <2>1. /\ DOMAIN log \subseteq DOMAIN log2
        /\ \A i \in DOMAIN log : log2[i] = log[i]
    BY <1>2
  <2>2. Logged(log) \subseteq Logged(log2)
    BY <2>1 DEF Logged
  <2>3. ASSUME NEW room \in Room, Copy(room, st, log)
        PROVE  Copy(room, st2, log2)
    <3>1. st.sequence \in Nat /\ room.sequence \in Nat
      BY DEF Room
    <3> QED
      BY <1>2, <2>2, <2>3, <3>1 DEF Copy
  <2>4. \A id, n : LoggedAt(id, n, log) => LoggedAt(id, n, log2)
    BY <2>1 DEF LoggedAt
  <2> QED
    BY <2>2, <2>3, <2>4
<1>3. /\ Logged(log) \subseteq Logged(log2)
      /\ \A room \in Room : Copy(room, st, log) => Copy(room, st2, log2)
      /\ \A id, n : LoggedAt(id, n, log) => LoggedAt(id, n, log2)
  BY <1>1, <1>2 DEF Grows
<1>4. ASSUME NEW k, Sound(k, st, log), k \in TaskRecords
      PROVE  Sound(k, st2, log2)
  <2>1. k.room \in Room
    BY <1>4 DEF TaskRecords
  <2>2. Decided(k, st, log) => Decided(k, st2, log2)
    BY <1>3 DEF Decided
  <2> QED
    BY <1>3, <1>4, <2>1, <2>2 DEF Sound
<1> QED
  BY <1>3, <1>4

\* The parts of the invariant after a step: how the store grew, what the
\* handler at work became, and what the caches hold.
LEMMA HandlerMoves ==
  ASSUME CommandsInv, Grows(stored, events, stored', events'),
         NEW t \in Tasks, NEW k \in TaskRecords,
         task' = [task EXCEPT ![t] = k], Sound(k, stored', events')
  PROVE  /\ task' \in [Tasks -> TaskRecords]
         /\ \A u \in Tasks : Sound(task'[u], stored', events')
<1>1. task \in [Tasks -> TaskRecords]
  BY DEF CommandsInv, Shapes
<1>2. \A u \in Tasks : u # t => task'[u] = task[u]
  BY <1>1
<1>3. task'[t] = k /\ task' \in [Tasks -> TaskRecords]
  BY <1>1
<1>4. ASSUME NEW u \in Tasks, u # t PROVE Sound(task'[u], stored', events')
  <2>1. Sound(task[u], stored, events) /\ task[u] \in TaskRecords
    BY <1>1 DEF CommandsInv
  <2>2. stored \in Room /\ events \in Seq(Rows)
    BY DEF CommandsInv, Shapes
  <2>3. Sound(task[u], stored', events')
    BY <2>1, <2>2, GrowthKeeps
  <2> QED
    BY <1>2, <1>4, <2>3
<1> QED
  BY <1>3, <1>4

\* Caches and notices that are old ones or new copies.
LEMMA CopiesMove ==
  ASSUME CommandsInv, Grows(stored, events, stored', events'),
         cache' \in [Replicas -> Room], notice' \in [Replicas -> SUBSET Room],
         \A r \in Replicas :
           cache'[r] = cache[r] \/ Copy(cache'[r], stored', events'),
         \A r \in Replicas : \A room \in notice'[r] :
           room \in notice[r] \/ Copy(room, stored', events')
  PROVE  /\ \A r \in Replicas : Copy(cache'[r], stored', events')
         /\ \A r \in Replicas : \A room \in notice'[r] :
              Copy(room, stored', events')
<1>1. stored \in Room /\ events \in Seq(Rows)
  BY DEF CommandsInv, Shapes
<1>2. \A room \in Room : Copy(room, stored, events)
                           => Copy(room, stored', events')
  BY <1>1, GrowthKeeps, Zenon
<1> QED
  BY <1>2 DEF CommandsInv, Shapes, Copies

-----------------------------------------------------------------------------
(* append_room_event.                                                      *)

\* A commit that passes the compare-and-swap extends the log by what the
\* stored room permits, and stores the room that the log then describes.
LEMMA WriteExtends ==
  ASSUME CommandsInv, NEW t \in Tasks, task[t].pc = "commit", Write(t)
  PROVE  /\ Applies(stored, task[t].id, CommandOf[task[t].id])
         /\ stored' = task[t].room /\ stored' \in Room
         /\ events' = Append(events, Event(task[t].id, CommandOf[task[t].id]))
         /\ events' \in Seq(Rows) /\ ledger' \subseteq Transactions
         /\ Grows(stored, events, stored', events')
         /\ Copy(stored', stored', events')
         /\ LoggedAt(task[t].id, stored'.sequence, events')
         /\ SnapshotIsReplay' /\ LedgerMatchesLog'
<1> DEFINE id == task[t].id
           c == CommandOf[id]
           e == Event(id, c)
<1>1. /\ stored \in Room /\ events \in Seq(Rows) /\ task[t] \in TaskRecords
      /\ ledger \subseteq Transactions
  BY DEF CommandsInv, Shapes
<1>2. id \in CommandIds /\ c \in Commands /\ e \in Rows
  BY <1>1, CommandAssumption DEF TaskRecords, Event, Rows
<1>3. /\ ~CreationOrEvent(id) /\ task[t].room.sequence = stored.sequence + 1
      /\ (IsGift(c) => c.tx \notin ledger) /\ stored' = task[t].room
      /\ events' = Append(events, e)
      /\ ledger' = ledger \cup (IF IsGift(c) THEN {c.tx} ELSE {})
  BY DEF Write, Known, Current, LedgerFree
<1>e. e.id = id /\ e.command = c
  BY DEF Event
<1> HIDE DEF id, c, e
<1>4. PICK base \in Room :
        /\ Copy(base, stored, events) /\ Applies(base, id, c)
        /\ task[t].room = Apply(base, Event(id, c))
  BY DEF CommandsInv, Sound, Decided, id, c
<1>5. base = stored
  <2>1. task[t].room.sequence = base.sequence + 1
    BY <1>2, <1>4, ApplyKeeps
  <2>2. base.sequence \in Nat /\ stored.sequence \in Nat
    BY <1>1, <1>4 DEF Room
  <2> QED
    BY <1>3, <1>4, <2>1, <2>2 DEF Copy
<1>6. stored' = Apply(stored, e)
  BY <1>3, <1>4, <1>5 DEF e
<1>7. /\ stored' \in Room /\ stored'.sequence = stored.sequence + 1
      /\ Range(stored'.commands) \subseteq Range(stored.commands) \cup {id}
  BY <1>1, <1>2, <1>6, ApplyKeeps, Zenon DEF e
<1>8. /\ events' \in Seq(Rows) /\ Len(events') = Len(events) + 1
      /\ events'[Len(events) + 1] = e
      /\ DOMAIN events' = DOMAIN events \cup {Len(events) + 1}
      /\ \A i \in DOMAIN events : events'[i] = events[i]
      /\ Len(events) \in Nat
  BY <1>1, <1>2, <1>3, AppendFacts
<1>9. Grows(stored, events, stored', events')
  BY <1>2, <1>3, <1>7 DEF Grows
<1>10. SnapshotIsReplay'
  <2>1. stored = Restore(Creation, events)
        /\ stored.sequence = Len(events) + 1
    BY DEF CommandsInv, SnapshotIsReplay
  <2>2. Restore(Creation, events') = Apply(Restore(Creation, events), e)
    BY <1>1, <1>2, <1>3, RestoreAppend
  <2> QED
    BY <1>6, <1>7, <1>8, <2>1, <2>2 DEF SnapshotIsReplay
<1>11. LoggedAt(id, stored'.sequence, events')
  <2>1. stored'.sequence - 1 = Len(events) + 1
    BY <1>7, <1>8 DEF CommandsInv, SnapshotIsReplay
  <2> QED
    BY <1>8, <1>e, <2>1 DEF LoggedAt
<1>12. Copy(stored', stored', events')
  <2>1. stored'.sequence \in Nat
    BY <1>7 DEF Room
  <2>2. Range(stored.commands) \subseteq Logged(events)
    <3>1. Range(base.commands) \subseteq Logged(events)
      BY <1>4 DEF Copy
    <3> QED
      BY <1>5, <3>1
  <2>3. Logged(events) \subseteq Logged(events') /\ id \in Logged(events')
    BY <1>8, <1>e DEF Logged
  <2> QED
    BY <1>7, <2>1, <2>2, <2>3 DEF Copy
<1>13. LedgerMatchesLog' /\ ledger' \subseteq Transactions
  <2>1. Range(events') = Range(events) \cup {e}
    BY <1>1, <1>2, <1>3 DEF Range
  <2>2. ledger =
          {x.command.tx : x \in {y \in Range(events) : IsGift(y.command)}}
    BY DEF CommandsInv, LedgerMatchesLog
  <2>3. {x.command.tx : x \in {y \in Range(events') : IsGift(y.command)}} =
          ledger \cup (IF IsGift(c) THEN {c.tx} ELSE {})
    BY <1>e, <2>1, <2>2
  <2>4. IsGift(c) => c.tx \in Transactions
    BY <1>2, CommandFields DEF IsGift
  <2> QED
    BY <1>1, <1>3, <2>3, <2>4 DEF LedgerMatchesLog
<1> QED
  BY <1>3, <1>4, <1>5, <1>7, <1>8, <1>9, <1>10, <1>11, <1>12, <1>13, Zenon
     DEF id, c, e

-----------------------------------------------------------------------------
(* One lemma per step of execute_room_command.                             *)

\* The record of an idle handler, and of one that has its answer.
LEMMA RestingRecords ==
  /\ Start \in Room /\ Idle \in TaskRecords
  /\ Idle.pc = "idle" /\ 0 \in 0 .. MaxAttempts
  /\ \A st, log : Sound(Idle, st, log)
<1>1. Start \in Room /\ Create(Creation) \in Room
  BY CommandAssumption, CreateIsRoom DEF Start
<1>2. Idle \in TaskRecords /\ Idle.pc = "idle" /\ 0 \in 0 .. MaxAttempts
  BY <1>1, CommandAssumption, AttemptsAssumption
     DEF Idle, TaskRecords, PCs, Replies
<1>3. \A st, log : Sound(Idle, st, log)
  BY <1>2 DEF Sound
<1> QED
  BY <1>1, <1>2, <1>3

\* The handler with its answer.
Answered(t, reply, sequence) ==
  [task[t] EXCEPT !.pc = "done", !.reply = reply, !.sequence = sequence,
                  !.room = Start, !.attempt = 0]

\* The handler answers.
LEMMA AnswerRecord ==
  ASSUME Shapes, NEW t \in Tasks, NEW reply \in Replies,
         NEW sequence \in Nat, Answer(t, reply, sequence)
  PROVE  /\ Answered(t, reply, sequence) \in TaskRecords
         /\ task' = [task EXCEPT ![t] = Answered(t, reply, sequence)]
         /\ mutex' \in [Replicas -> Tasks \cup {Nobody}]
         /\ Answered(t, reply, sequence).pc = "done"
         /\ Answered(t, reply, sequence).reply = reply
         /\ Answered(t, reply, sequence).sequence = sequence
         /\ Answered(t, reply, sequence).id = task[t].id
<1>1. task \in [Tasks -> TaskRecords] /\ task[t] \in TaskRecords
  BY DEF Shapes
<1>2. task' = [task EXCEPT ![t] = Answered(t, reply, sequence)]
  BY <1>1 DEF Answer, Answered
<1>3. mutex' \in [Replicas -> Tasks \cup {Nobody}]
  BY HomeAssumption, Zenon DEF Answer, Shapes
<1>4. Answered(t, reply, sequence) \in TaskRecords
  BY <1>1, RestingRecords, Zenon DEF Answered, TaskRecords, PCs
<1> QED
  BY <1>1, <1>2, <1>3, <1>4 DEF Answered, TaskRecords

\* A step that leaves the store, the caches and the notices alone.
LEMMA QuietStep ==
  ASSUME CommandsInv, NEW t \in Tasks, NEW k \in TaskRecords,
         task' = [task EXCEPT ![t] = k], Sound(k, stored, events),
         mutex' \in [Replicas -> Tasks \cup {Nobody}],
         UNCHANGED <<stored, events, ledger, cache, notice>>
  PROVE  CommandsInv'
<1>1. Grows(stored, events, stored', events')
  BY DEF Grows
<1>2. Sound(k, stored', events')
  OBVIOUS
<1>3. task' \in [Tasks -> TaskRecords]
      /\ \A u \in Tasks : Sound(task'[u], stored', events')
  BY <1>1, <1>2, HandlerMoves, Zenon
<1>4. Shapes'
  BY <1>3 DEF CommandsInv, Shapes
<1>5. SnapshotIsReplay' /\ LedgerMatchesLog'
  BY DEF CommandsInv, SnapshotIsReplay, LedgerMatchesLog
<1>6. Copies(stored, events)'
  BY DEF CommandsInv, Copies
<1> QED
  BY <1>3, <1>4, <1>5, <1>6 DEF CommandsInv

\* A step that puts a copy into a replica's cache.
LEMMA CachingStep ==
  ASSUME CommandsInv, NEW t \in Tasks, NEW k \in TaskRecords,
         task' = [task EXCEPT ![t] = k], Sound(k, stored, events),
         mutex' \in [Replicas -> Tasks \cup {Nobody}],
         NEW r \in Replicas, NEW room \in Room, Copy(room, stored, events),
         cache' = [cache EXCEPT ![r] = room],
         UNCHANGED <<stored, events, ledger, notice>>
  PROVE  CommandsInv'
<1>1. Grows(stored, events, stored', events')
  BY DEF Grows
<1>2. Sound(k, stored', events')
  OBVIOUS
<1>3. task' \in [Tasks -> TaskRecords]
      /\ \A u \in Tasks : Sound(task'[u], stored', events')
  BY <1>1, <1>2, HandlerMoves, Zenon
<1>4. Shapes'
  BY <1>3 DEF CommandsInv, Shapes
<1>5. SnapshotIsReplay' /\ LedgerMatchesLog'
  BY DEF CommandsInv, SnapshotIsReplay, LedgerMatchesLog
<1>6. Copies(stored, events)'
  BY DEF CommandsInv, Copies, Shapes
<1> QED
  BY <1>3, <1>4, <1>5, <1>6 DEF CommandsInv

\* A step that commits.
LEMMA WritingStep ==
  ASSUME CommandsInv, NEW t \in Tasks, task[t].pc = "commit", Write(t),
         NEW k \in TaskRecords, task' = [task EXCEPT ![t] = k],
         Sound(k, stored', events'),
         mutex' \in [Replicas -> Tasks \cup {Nobody}],
         UNCHANGED <<cache, notice>>
  PROVE  CommandsInv'
<1>1. /\ stored' \in Room /\ events' \in Seq(Rows)
      /\ ledger' \subseteq Transactions
      /\ Grows(stored, events, stored', events')
      /\ Copy(stored', stored', events')
      /\ SnapshotIsReplay' /\ LedgerMatchesLog'
  BY WriteExtends
<1>2. task' \in [Tasks -> TaskRecords]
      /\ \A u \in Tasks : Sound(task'[u], stored', events')
  BY <1>1, HandlerMoves, Zenon
<1>3. Shapes'
  BY <1>1, <1>2 DEF CommandsInv, Shapes
<1>4. /\ cache' \in [Replicas -> Room]
      /\ notice' \in [Replicas -> SUBSET Room]
      /\ \A r \in Replicas : cache'[r] = cache[r]
      /\ \A r \in Replicas : \A room \in notice'[r] : room \in notice[r]
  BY DEF CommandsInv, Shapes
<1>5. Copies(stored, events)'
  BY <1>1, <1>4, CopiesMove DEF Copies
<1> QED
  BY <1>1, <1>2, <1>3, <1>5 DEF CommandsInv

\* A command arrives.
LEMMA SubmitKeeps ==
  ASSUME CommandsInv, NEW t \in Tasks, NEW id \in Sends[t], Submit(t, id)
  PROVE  CommandsInv'
<1> DEFINE k == [Idle EXCEPT !.pc = "lock", !.id = id]
<1>1. id \in CommandIds
  BY SendsAssumption
<1>2. k \in TaskRecords /\ k.pc = "lock"
  BY <1>1, RestingRecords, Zenon DEF TaskRecords, PCs
<1>3. Sound(k, stored, events)
  BY <1>2 DEF Sound
<1>4. /\ task' = [task EXCEPT ![t] = k]
      /\ UNCHANGED <<stored, events, ledger, cache, mutex, notice>>
  BY DEF Submit
<1>5. mutex' \in [Replicas -> Tasks \cup {Nobody}]
  BY <1>4 DEF CommandsInv, Shapes
<1> HIDE DEF k
<1> QED
  BY <1>2, <1>3, <1>4, <1>5, QuietStep, Zenon

\* The handler takes room_mutations.
LEMMA LockKeeps ==
  ASSUME CommandsInv, NEW t \in Tasks, Lock(t)
  PROVE  CommandsInv'
<1> DEFINE k == [task[t] EXCEPT !.pc = "load", !.attempt = 1]
<1>1. task \in [Tasks -> TaskRecords] /\ task[t] \in TaskRecords
  BY DEF CommandsInv, Shapes
<1>2. k \in TaskRecords /\ k.pc = "load"
  <2>1. 1 \in 0 .. MaxAttempts
    BY AttemptsAssumption
  <2> QED
    BY <1>1, <2>1, Zenon DEF TaskRecords, PCs
<1>3. Sound(k, stored, events)
  BY <1>2 DEF Sound
<1>4. /\ task' = [task EXCEPT ![t] = k]
      /\ UNCHANGED <<stored, events, ledger, cache, notice>>
  BY <1>1, Zenon DEF Lock
<1>5. mutex' \in [Replicas -> Tasks \cup {Nobody}]
  BY HomeAssumption, Zenon DEF Lock, CommandsInv, Shapes
<1> HIDE DEF k
<1> QED
  BY <1>2, <1>3, <1>4, <1>5, QuietStep, Zenon

\* The handler loads the stored room: that is a copy.
LEMMA LoadKeeps ==
  ASSUME CommandsInv, NEW t \in Tasks, Load(t)
  PROVE  CommandsInv'
<1> DEFINE k == [task[t] EXCEPT !.pc = "install", !.room = stored]
<1>1. /\ task \in [Tasks -> TaskRecords] /\ task[t] \in TaskRecords
      /\ stored \in Room
  BY DEF CommandsInv, Shapes
<1>2. k \in TaskRecords /\ k.pc = "install" /\ k.room = stored
  BY <1>1, Zenon DEF TaskRecords, PCs
<1>3. Sound(k, stored, events)
  BY <1>2 DEF Sound, CommandsInv, Copies
<1>4. /\ task' = [task EXCEPT ![t] = k]
      /\ UNCHANGED <<stored, events, ledger, cache, mutex, notice>>
  BY <1>1, Zenon DEF Load
<1>5. mutex' \in [Replicas -> Tasks \cup {Nobody}]
  BY <1>4 DEF CommandsInv, Shapes
<1> HIDE DEF k
<1> QED
  BY <1>2, <1>3, <1>4, <1>5, QuietStep, Zenon

\* The loaded room replaces the cached one.
LEMMA InstallKeeps ==
  ASSUME CommandsInv, NEW t \in Tasks, Install(t)
  PROVE  CommandsInv'
<1> DEFINE k == [task[t] EXCEPT !.pc = "execute"]
<1>1. /\ task \in [Tasks -> TaskRecords] /\ task[t] \in TaskRecords
      /\ task[t].room \in Room /\ Home[t] \in Replicas
  BY HomeAssumption DEF CommandsInv, Shapes, TaskRecords
<1>2. k \in TaskRecords /\ k.pc = "execute"
  BY <1>1 DEF TaskRecords, PCs
<1>3. Sound(k, stored, events) /\ Copy(task[t].room, stored, events)
  BY <1>2 DEF Install, Sound, CommandsInv
<1>4. /\ task' = [task EXCEPT ![t] = k]
      /\ cache' = [cache EXCEPT ![Home[t]] = task[t].room]
      /\ UNCHANGED <<stored, events, ledger, mutex, notice>>
  BY <1>1 DEF Install
<1>5. mutex' \in [Replicas -> Tasks \cup {Nobody}]
  BY <1>4 DEF CommandsInv, Shapes
<1> HIDE DEF k
<1> QED
  BY <1>1, <1>2, <1>3, <1>4, <1>5, CachingStep, Zenon

\* The handler decides on the cached room, which may be old by now.
LEMMA ExecuteKeeps ==
  ASSUME CommandsInv, NEW t \in Tasks, Execute(t)
  PROVE  CommandsInv'
<1> DEFINE room == cache[Home[t]]
           id == task[t].id
           c == CommandOf[id]
           k == [task[t] EXCEPT !.pc = "commit",
                                !.room = Apply(room, Event(id, c))]
<1>1. /\ task \in [Tasks -> TaskRecords] /\ task[t] \in TaskRecords
      /\ Home[t] \in Replicas /\ room \in Room /\ Shapes
      /\ mutex \in [Replicas -> Tasks \cup {Nobody}]
      /\ Copy(room, stored, events)
  BY HomeAssumption DEF CommandsInv, Shapes, Copies
<1>2. id \in CommandIds /\ c \in Commands /\ room.sequence \in Nat
  BY <1>1, CommandAssumption DEF TaskRecords, Room
<1>3. UNCHANGED <<stored, events, ledger, cache, notice>>
  BY DEF Execute
<1>4. CASE Duplicate(room, id) /\ Answer(t, "duplicate", room.sequence)
  <2> DEFINE a == Answered(t, "duplicate", room.sequence)
  <2>1. /\ a \in TaskRecords /\ task' = [task EXCEPT ![t] = a]
        /\ mutex' \in [Replicas -> Tasks \cup {Nobody}]
        /\ a.pc = "done" /\ a.reply = "duplicate" /\ a.id = id
    BY <1>1, <1>2, <1>4, AnswerRecord DEF Replies
  <2>2. id \in Logged(events)
    BY <1>1, <1>4, Zenon DEF Copy, Duplicate
  <2>3. Sound(a, stored, events)
    BY <2>1, <2>2, Zenon DEF Sound
  <2> HIDE DEF a
  <2> QED
    BY <1>3, <2>1, <2>3, QuietStep, Zenon
<1>5. CASE Answer(t, "rejected", 0)
  <2> DEFINE a == Answered(t, "rejected", 0)
  <2>1. /\ a \in TaskRecords /\ task' = [task EXCEPT ![t] = a]
        /\ mutex' \in [Replicas -> Tasks \cup {Nobody}]
        /\ a.pc = "done" /\ a.reply = "rejected"
    BY <1>1, <1>5, AnswerRecord, SMTT(30) DEF Replies
  <2>2. Sound(a, stored, events)
    BY <2>1 DEF Sound
  <2> HIDE DEF a
  <2> QED
    BY <1>3, <2>1, <2>2, QuietStep, Zenon
<1>6. CASE Applies(room, id, c) /\ UNCHANGED mutex
           /\ task' = [task EXCEPT ![t].pc = "commit",
                                   ![t].room = Apply(room, Event(id, c))]
  <2>1. Apply(room, Event(id, c)) \in Room
    BY <1>1, <1>2, ApplyKeeps
  <2>2. /\ k \in TaskRecords /\ k.pc = "commit" /\ k.id = id
        /\ k.room = Apply(room, Event(id, c))
    BY <1>1, <2>1, Zenon DEF TaskRecords, PCs
  <2>3. task' = [task EXCEPT ![t] = k]
    BY <1>1, <1>6, Zenon
  <2> HIDE DEF k, room, id, c
  <2>4. Sound(k, stored, events)
    <3>1. c = CommandOf[k.id]
      BY <2>2 DEF c
    <3> QED
      BY <1>1, <1>6, <2>2, <3>1 DEF Sound, Decided
  <2> QED
    BY <1>1, <1>3, <1>6, <2>2, <2>3, <2>4, QuietStep, Zenon
<1> QED
  BY <1>4, <1>5, <1>6 DEF Execute

\* append_room_event: a commit, a duplicate, a conflict or a refusal.
LEMMA CommitKeeps ==
  ASSUME CommandsInv, NEW t \in Tasks, Commit(t)
  PROVE  CommandsInv'
<1> DEFINE id == task[t].id
           c == CommandOf[id]
<1>1. /\ task \in [Tasks -> TaskRecords] /\ task[t] \in TaskRecords
      /\ stored \in Room /\ Shapes
      /\ mutex \in [Replicas -> Tasks \cup {Nobody}]
  BY DEF CommandsInv, Shapes
<1>2. task[t].pc = "commit" /\ UNCHANGED <<cache, notice>>
  BY DEF Commit
<1>3. CASE Write(t) /\ task' = [task EXCEPT ![t].pc = "keep"]
           /\ UNCHANGED mutex
  <2> DEFINE k == [task[t] EXCEPT !.pc = "keep"]
  <2>1. /\ k \in TaskRecords /\ k.pc = "keep" /\ k.id = id
        /\ k.room = task[t].room
    BY <1>1 DEF TaskRecords, PCs
  <2>2. task' = [task EXCEPT ![t] = k]
    BY <1>1, <1>3
  <2>3. /\ stored' = task[t].room /\ Copy(stored', stored', events')
        /\ LoggedAt(id, stored'.sequence, events')
    BY <1>2, <1>3, WriteExtends
  <2>4. Sound(k, stored', events')
    BY <2>1, <2>3 DEF Sound
  <2> HIDE DEF k
  <2> QED
    BY <1>1, <1>2, <1>3, <2>1, <2>2, <2>4, WritingStep, Zenon
<1>4. CASE Known(id) /\ UNCHANGED <<stored, events, ledger, mutex>>
           /\ task' = [task EXCEPT ![t].pc = "adopt", ![t].room = stored]
  <2> DEFINE k == [task[t] EXCEPT !.pc = "adopt", !.room = stored]
  <2>1. k \in TaskRecords /\ k.pc = "adopt" /\ k.id = id /\ k.room = stored
    BY <1>1, Zenon DEF TaskRecords, PCs
  <2>2. task' = [task EXCEPT ![t] = k]
    BY <1>1, <1>4, Zenon
  <2>3. id \in Logged(events)
    BY <1>4 DEF Known, CreationOrEvent, Logged
  <2>4. Sound(k, stored, events)
    BY <2>1, <2>3 DEF Sound, CommandsInv, Copies
  <2> HIDE DEF k
  <2> QED
    BY <1>1, <1>2, <1>4, <2>1, <2>2, <2>4, QuietStep, Zenon
<1>5. CASE MayRetry(t) /\ UNCHANGED <<stored, events, ledger, mutex>>
           /\ task' = [task EXCEPT ![t].pc = "load", ![t].attempt = @ + 1]
  <2> DEFINE k == [task[t] EXCEPT !.pc = "load",
                                  !.attempt = task[t].attempt + 1]
  <2>1. task[t].attempt + 1 \in 0 .. MaxAttempts
    BY <1>1, <1>5, AttemptsAssumption DEF MayRetry, TaskRecords
  <2>2. k \in TaskRecords /\ k.pc = "load"
    BY <1>1, <2>1, Zenon DEF TaskRecords, PCs
  <2>3. task' = [task EXCEPT ![t] = k]
    BY <1>1, <1>5, Zenon
  <2>4. Sound(k, stored, events)
    BY <2>2 DEF Sound
  <2> HIDE DEF k
  <2> QED
    BY <1>1, <1>2, <1>5, <2>2, <2>3, <2>4, QuietStep, Zenon
<1>6. ASSUME NEW reply \in {"conflict", "rejected"}, Answer(t, reply, 0),
             UNCHANGED <<stored, events, ledger>>
      PROVE  CommandsInv'
  <2> DEFINE a == Answered(t, reply, 0)
  <2>1. /\ a \in TaskRecords /\ task' = [task EXCEPT ![t] = a]
        /\ mutex' \in [Replicas -> Tasks \cup {Nobody}]
        /\ a.pc = "done" /\ a.reply = reply
    BY <1>1, <1>6, AnswerRecord, SMTT(30) DEF Replies
  <2>2. Sound(a, stored, events)
    BY <2>1 DEF Sound
  <2> HIDE DEF a
  <2> QED
    BY <1>2, <1>6, <2>1, <2>2, QuietStep, Zenon
<1> QED
  BY <1>3, <1>4, <1>5, <1>6 DEF Commit

\* The committed room goes to the cache, and the client has its answer.
LEMMA KeepKeeps ==
  ASSUME CommandsInv, NEW t \in Tasks, Keep(t)
  PROVE  CommandsInv'
<1> DEFINE a == Answered(t, "applied", task[t].room.sequence)
<1>1. /\ task[t] \in TaskRecords /\ task[t].room \in Room /\ Shapes
      /\ Home[t] \in Replicas /\ task[t].room.sequence \in Nat
  BY HomeAssumption, Zenon DEF CommandsInv, Shapes, TaskRecords, Room
<1>2. /\ a \in TaskRecords /\ task' = [task EXCEPT ![t] = a]
      /\ mutex' \in [Replicas -> Tasks \cup {Nobody}]
      /\ a.pc = "done" /\ a.reply = "applied" /\ a.id = task[t].id
      /\ a.sequence = task[t].room.sequence
  <2>1. "applied" \in Replies /\ Answer(t, "applied", task[t].room.sequence)
    BY DEF Keep, Replies
  <2> QED
    BY <1>1, <2>1, AnswerRecord, SMTT(30)
<1>3. /\ Copy(task[t].room, stored, events)
      /\ LoggedAt(task[t].id, task[t].room.sequence, events)
  BY Zenon DEF Keep, CommandsInv, Sound
<1>4. Sound(a, stored, events)
  BY <1>2, <1>3, Zenon DEF Sound
<1>5. /\ cache' = [cache EXCEPT ![Home[t]] = task[t].room]
      /\ UNCHANGED <<stored, events, ledger, notice>>
  BY DEF Keep
<1> HIDE DEF a
<1> QED
  BY <1>1, <1>2, <1>3, <1>4, <1>5, CachingStep, Zenon

\* The stored room of a duplicate goes to the cache.
LEMMA AdoptKeeps ==
  ASSUME CommandsInv, NEW t \in Tasks, Adopt(t)
  PROVE  CommandsInv'
<1> DEFINE k == [task[t] EXCEPT !.pc = "reread"]
<1>1. /\ task \in [Tasks -> TaskRecords] /\ task[t] \in TaskRecords
      /\ task[t].room \in Room /\ Home[t] \in Replicas
  BY HomeAssumption DEF CommandsInv, Shapes, TaskRecords
<1>2. k \in TaskRecords /\ k.pc = "reread" /\ k.id = task[t].id
  BY <1>1 DEF TaskRecords, PCs
<1>3. /\ Copy(task[t].room, stored, events)
      /\ task[t].id \in Logged(events)
  BY DEF Adopt, CommandsInv, Sound
<1>4. Sound(k, stored, events)
  BY <1>2, <1>3 DEF Sound
<1>5. /\ task' = [task EXCEPT ![t] = k]
      /\ cache' = [cache EXCEPT ![Home[t]] = task[t].room]
      /\ UNCHANGED <<stored, events, ledger, mutex, notice>>
  BY <1>1 DEF Adopt
<1>6. mutex' \in [Replicas -> Tasks \cup {Nobody}]
  BY <1>5 DEF CommandsInv, Shapes
<1> HIDE DEF k
<1> QED
  BY <1>1, <1>2, <1>3, <1>4, <1>5, <1>6, CachingStep, Zenon

\* The answer to a duplicate.
LEMMA RereadKeeps ==
  ASSUME CommandsInv, NEW t \in Tasks, Reread(t)
  PROVE  CommandsInv'
<1> DEFINE a == Answered(t, "duplicate", cache[Home[t]].sequence)
<1>1. cache[Home[t]] \in Room /\ Shapes
  BY HomeAssumption DEF CommandsInv, Shapes
<1>2. cache[Home[t]].sequence \in Nat
  BY <1>1 DEF Room
<1>3. /\ a \in TaskRecords /\ task' = [task EXCEPT ![t] = a]
      /\ mutex' \in [Replicas -> Tasks \cup {Nobody}]
      /\ a.pc = "done" /\ a.reply = "duplicate" /\ a.id = task[t].id
  <2>1. /\ "duplicate" \in Replies
        /\ Answer(t, "duplicate", cache[Home[t]].sequence)
    BY DEF Reread, Replies
  <2> QED
    BY <1>1, <1>2, <2>1, AnswerRecord, SMTT(30)
<1>4. task[t].id \in Logged(events)
  BY Zenon DEF Reread, CommandsInv, Sound
<1>5. Sound(a, stored, events)
  BY <1>3, <1>4, Zenon DEF Sound
<1>6. UNCHANGED <<stored, events, ledger, cache, notice>>
  BY DEF Reread
<1> HIDE DEF a
<1> QED
  BY <1>3, <1>5, <1>6, QuietStep, Zenon

\* A failed call or a dropped future, whether or not the commit happened.
LEMMA FailKeeps ==
  ASSUME CommandsInv, NEW t \in Tasks, Fail(t)
  PROVE  CommandsInv'
<1>1. /\ task' = [task EXCEPT ![t] = Idle] /\ UNCHANGED <<cache, notice>>
      /\ \/ task[t].pc = "commit" /\ Write(t)
         \/ UNCHANGED <<stored, events, ledger>>
  BY DEF Fail
<1>2. mutex' \in [Replicas -> Tasks \cup {Nobody}]
  BY HomeAssumption, Zenon DEF Fail, CommandsInv, Shapes
<1>3. /\ Idle \in TaskRecords /\ Sound(Idle, stored, events)
      /\ Sound(Idle, stored', events')
  BY RestingRecords
<1> QED
  BY <1>1, <1>2, <1>3, WritingStep, QuietStep, Zenon

-----------------------------------------------------------------------------
(* The event subscriber and a crash.                                       *)

\* The subscriber loads the stored room.
LEMMA NoticeLoadKeeps ==
  ASSUME CommandsInv, NEW r \in Replicas, NoticeLoad(r)
  PROVE  CommandsInv'
<1>1. /\ notice' = [notice EXCEPT ![r] = {stored}]
      /\ UNCHANGED <<stored, events, ledger, cache, mutex, task>>
  BY DEF NoticeLoad
<1>2. stored \in Room /\ notice \in [Replicas -> SUBSET Room]
  BY DEF CommandsInv, Shapes
<1>3. /\ notice' \in [Replicas -> SUBSET Room] /\ notice'[r] = {stored}
      /\ \A q \in Replicas : q # r => notice'[q] = notice[q]
  BY <1>1, <1>2
<1>4. Shapes'
  BY <1>1, <1>2, <1>3 DEF CommandsInv, Shapes
<1>5. Copies(stored, events)'
  BY <1>1, <1>3, Zenon DEF CommandsInv, Copies
<1>6. SnapshotIsReplay' /\ LedgerMatchesLog'
  BY <1>1 DEF CommandsInv, SnapshotIsReplay, LedgerMatchesLog
<1>7. \A t \in Tasks : Sound(task[t], stored, events)'
  BY <1>1 DEF CommandsInv
<1> QED
  BY <1>4, <1>5, <1>6, <1>7 DEF CommandsInv

\* The subscriber replaces the cached room, which may be newer.
LEMMA NoticeInstallKeeps ==
  ASSUME CommandsInv, NEW r \in Replicas, NoticeInstall(r)
  PROVE  CommandsInv'
<1>1. /\ notice' = [notice EXCEPT ![r] = {}]
      /\ UNCHANGED <<stored, events, ledger, mutex, task>>
      /\ \/ \E room \in notice[r] : cache' = [cache EXCEPT ![r] = room]
         \/ UNCHANGED cache
  BY DEF NoticeInstall
<1>2. /\ cache \in [Replicas -> Room]
      /\ notice \in [Replicas -> SUBSET Room]
  BY DEF CommandsInv, Shapes
<1>3. /\ notice' \in [Replicas -> SUBSET Room] /\ notice'[r] = {}
      /\ \A q \in Replicas : q # r => notice'[q] = notice[q]
  BY <1>1, <1>2
<1>4. /\ cache' \in [Replicas -> Room]
      /\ \A q \in Replicas : cache'[q] = cache[q] \/ cache'[q] \in notice[q]
  BY <1>1, <1>2
<1>5. Shapes'
  BY <1>1, <1>3, <1>4 DEF CommandsInv, Shapes
<1>6. Copies(stored, events)'
  BY <1>1, <1>3, <1>4, Zenon DEF CommandsInv, Copies
<1>7. SnapshotIsReplay' /\ LedgerMatchesLog'
  BY <1>1 DEF CommandsInv, SnapshotIsReplay, LedgerMatchesLog
<1>8. \A t \in Tasks : Sound(task[t], stored, events)'
  BY <1>1 DEF CommandsInv
<1> QED
  BY <1>5, <1>6, <1>7, <1>8 DEF CommandsInv

\* A replica crashes and starts again from the store.
LEMMA CrashKeeps ==
  ASSUME CommandsInv, NEW r \in Replicas, Crash(r)
  PROVE  CommandsInv'
<1>1. /\ cache' = [cache EXCEPT ![r] = stored]
      /\ mutex' = [mutex EXCEPT ![r] = Nobody]
      /\ task' = [t \in Tasks |-> IF Home[t] = r THEN Idle ELSE task[t]]
      /\ notice' = [notice EXCEPT ![r] = {}]
      /\ UNCHANGED <<stored, events, ledger>>
  BY DEF Crash
<1>2. /\ stored \in Room /\ cache \in [Replicas -> Room]
      /\ mutex \in [Replicas -> Tasks \cup {Nobody}]
      /\ task \in [Tasks -> TaskRecords]
      /\ notice \in [Replicas -> SUBSET Room]
  BY DEF CommandsInv, Shapes
<1>3. /\ cache' \in [Replicas -> Room] /\ cache'[r] = stored
      /\ mutex' \in [Replicas -> Tasks \cup {Nobody}]
      /\ notice' \in [Replicas -> SUBSET Room] /\ notice'[r] = {}
      /\ \A q \in Replicas : q # r => /\ notice'[q] = notice[q]
                                      /\ cache'[q] = cache[q]
  BY <1>1, <1>2
<1>4. /\ task' \in [Tasks -> TaskRecords]
      /\ \A t \in Tasks : task'[t] = Idle \/ task'[t] = task[t]
  BY <1>1, <1>2, RestingRecords, Zenon
<1>5. Shapes'
  BY <1>1, <1>3, <1>4, Zenon DEF CommandsInv, Shapes
<1>6. Copies(stored, events)'
  BY <1>1, <1>3, Zenon DEF CommandsInv, Copies
<1>7. SnapshotIsReplay' /\ LedgerMatchesLog'
  BY <1>1, Zenon DEF CommandsInv, SnapshotIsReplay, LedgerMatchesLog
<1>8. \A t \in Tasks : Sound(task'[t], stored', events')
  BY <1>1, <1>4, RestingRecords DEF CommandsInv
<1> QED
  BY <1>5, <1>6, <1>7, <1>8 DEF CommandsInv

-----------------------------------------------------------------------------
(* The theorems.                                                           *)

\* The invariant holds of a new room.
LEMMA CommandsInvInit == CommandsInit => CommandsInv
<1> SUFFICES ASSUME CommandsInit PROVE CommandsInv
  OBVIOUS
<1>1. /\ stored = Start /\ events = <<>> /\ ledger = {}
      /\ cache = [r \in Replicas |-> Start]
      /\ mutex = [r \in Replicas |-> Nobody]
      /\ task = [t \in Tasks |-> Idle]
      /\ notice = [r \in Replicas |-> {}]
  BY DEF CommandsInit
<1>2. Start \in Room /\ Idle \in TaskRecords
  BY RestingRecords
<1>3. Shapes
  BY <1>1, <1>2 DEF Shapes
<1>4. /\ Start = Restore(Creation, events) /\ Start.sequence = 1
      /\ Range(Start.commands) = {Creation}
  BY <1>1, RestoreEmpty DEF Start, Create, Range
<1>5. SnapshotIsReplay
  BY <1>1, <1>4 DEF SnapshotIsReplay
<1>6. LedgerMatchesLog
  BY <1>1 DEF LedgerMatchesLog, Range
<1>7. Copy(Start, Start, events)
  BY <1>4 DEF Copy, Logged
<1>8. Copies(stored, events)
  BY <1>1, <1>7 DEF Copies
<1>9. \A t \in Tasks : Sound(task[t], stored, events)
  BY <1>1, RestingRecords
<1> QED
  BY <1>3, <1>5, <1>6, <1>8, <1>9 DEF CommandsInv

\* Every step keeps the invariant.
LEMMA CommandsInvStep ==
  CommandsInv /\ [CommandsNext]_commandsVars => CommandsInv'
<1> SUFFICES ASSUME CommandsInv, [CommandsNext]_commandsVars
             PROVE  CommandsInv'
  BY Zenon
<1>1. ASSUME NEW t \in Tasks, Step(t) PROVE CommandsInv'
  BY <1>1, SubmitKeeps, LockKeeps, LoadKeeps, InstallKeeps, ExecuteKeeps,
     CommitKeeps, KeepKeeps, AdoptKeeps, RereadKeeps, FailKeeps, Zenon DEF Step
<1>2. ASSUME NEW r \in Notified, NoticeLoad(r) \/ NoticeInstall(r)
      PROVE  CommandsInv'
  BY <1>2, NotifiedAssumption, NoticeLoadKeeps, NoticeInstallKeeps
<1>3. ASSUME NEW r \in Replicas, Crash(r) PROVE CommandsInv'
  BY <1>3, CrashKeeps, Zenon
<1>4. CASE UNCHANGED commandsVars
  BY <1>4, Zenon DEF commandsVars, CommandsInv, Shapes, SnapshotIsReplay,
     LedgerMatchesLog, Copies
<1> QED
  BY <1>1, <1>2, <1>3, <1>4 DEF CommandsNext

\* The invariant holds throughout.
LEMMA CommandsInvariant == CommandsSpec => []CommandsInv
BY CommandsInvInit, CommandsInvStep, PTL DEF CommandsSpec

\* However many replicas race, fail and crash, the snapshot that
\* append_room_event stores is the room its event rows describe, the revision
\* counts the rows, and the gift ledger holds the transactions of the gift
\* events and no other.
THEOREM StoreStaysAgreed == CommandsSpec => []StoreAgrees
<1>1. CommandsInv => StoreAgrees
  <2> SUFFICES ASSUME CommandsInv PROVE StoreAgrees
    OBVIOUS
  <2>1. \A r \in Replicas :
          notice[r] \subseteq Room /\ \A x, y \in notice[r] : x = y
    BY DEF CommandsInv, Shapes
  <2>2. CommandsTypeOK
    BY <2>1, Zenon DEF CommandsTypeOK, CommandsInv, Shapes, TaskRecords, Rows
  <2> QED
    BY <2>2 DEF CommandsInv, StoreAgrees
<1> QED
  BY <1>1, CommandsInvariant, PTL

\* What execute_room_command answers is true of the durable log, also when the
\* command was retried, raced another replica or followed a lost answer.
THEOREM AnswersStayDurable == CommandsSpec => []AnswersAreDurable
<1>1. CommandsInv => AnswersAreDurable
  BY DEF CommandsInv, AnswersAreDurable, Sound, LoggedAt, Logged,
     CreationOrEvent
<1> QED
  BY <1>1, CommandsInvariant, PTL
=============================================================================

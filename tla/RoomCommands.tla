---------------------------- MODULE RoomCommands ----------------------------
(***************************************************************************)
(* Room commands on several API replicas over one PostgreSQL store.        *)
(*                                                                         *)
(* Every replica caches the room.  A command takes the replica's           *)
(* room_mutations mutex, reloads the room, executes the command on a copy, *)
(* and commits the copy with a compare-and-swap on the revision, in one    *)
(* transaction with the event, the gift ledger row and the outbox row.     *)
(* Beside it the replica's event subscriber reloads the room whenever the  *)
(* event bus says it changed, without the mutex.  Every await is a step    *)
(* boundary.  A handler can fail, or be cancelled by its client, at every  *)
(* await; a replica can crash at any time.                                 *)
(*                                                                         *)
(* With this store a room's revision is its sequence (the loader refuses   *)
(* anything else), so the model keeps one number for both.                 *)
(***************************************************************************)
EXTENDS RoomAggregate

CONSTANTS
  Replicas,     \* api-server processes
  Tasks,        \* request handlers
  Home,         \* Home[t]: the replica that runs handler t
  Creation,     \* the command id that created the room
  CommandOf,    \* CommandOf[id]: the command sent under the key id
  Sends,        \* Sends[t]: the keys whose commands reach handler t
  Notified,     \* the replicas that the event bus reaches
  MaxAttempts,  \* attempts of the retry loop (4 in the code)
  Nobody,       \* the mutex is free
  Unbounded     \* a history limit no log reaches, for the abstract log

ASSUME HomeAssumption == Home \in [Tasks -> Replicas]
ASSUME NobodyAssumption == Nobody \notin Tasks
ASSUME CommandAssumption ==
  /\ Creation \in CommandIds
  /\ \A id \in CommandIds : CommandOf[id] \in Commands
ASSUME SendsAssumption == Sends \in [Tasks -> SUBSET CommandIds]
ASSUME NotifiedAssumption == Notified \subseteq Replicas
ASSUME AttemptsAssumption == MaxAttempts \in Nat \ {0}
ASSUME UnboundedAssumption == Unbounded \in Nat \ {0}

VARIABLES
  stored,  \* fluvora_rooms: the snapshot, whose sequence is the revision
  events,  \* fluvora_room_events after the creation event
  ledger,  \* fluvora_gift_ledger: the transaction ids
  cache,   \* cache[r]: the room in AppState.rooms of replica r
  mutex,   \* mutex[r]: the handler that holds room_mutations
  task,    \* task[t]: the handler's progress
  notice   \* notice[r]: what the event subscriber of r has loaded, in a set

commandsVars == <<stored, events, ledger, cache, mutex, task, notice>>

Idle == [pc |-> "idle", id |-> Creation, attempt |-> 0,
         room |-> Create(Creation), reply |-> "none", sequence |-> 0]

Start == Create(Creation)

PCs == {"idle", "lock", "load", "install", "execute", "commit", "keep",
        "adopt", "reread", "done"}
Replies == {"none", "applied", "duplicate", "rejected", "conflict"}

\* Every variable has the shape of the table or structure it stands for.
CommandsTypeOK ==
  /\ stored \in Room
  /\ events \in Seq([id : CommandIds, command : Commands])
  /\ ledger \subseteq Transactions
  /\ cache \in [Replicas -> Room]
  /\ mutex \in [Replicas -> Tasks \cup {Nobody}]
  /\ \A t \in Tasks :
       /\ task[t].pc \in PCs /\ task[t].id \in CommandIds
       /\ task[t].attempt \in 0 .. MaxAttempts
       /\ task[t].room \in Room
       /\ task[t].reply \in Replies /\ task[t].sequence \in Nat
  /\ \A r \in Replicas :
       notice[r] \subseteq Room /\ \A x, y \in notice[r] : x = y

CommandsInit ==
  /\ stored = Start
  /\ events = <<>>
  /\ ledger = {}
  /\ cache = [r \in Replicas |-> Start]
  /\ mutex = [r \in Replicas |-> Nobody]
  /\ task = [t \in Tasks |-> Idle]
  /\ notice = [r \in Replicas |-> {}]

-----------------------------------------------------------------------------
(* execute_room_command, one step per await.                               *)

\* The event table has a row for the command id.
CreationOrEvent(id) ==
  id = Creation \/ \E i \in DOMAIN events : events[i].id = id

\* The handler answers: the guard of room_mutations is dropped.
Answer(t, reply, sequence) ==
  /\ task' = [task EXCEPT ![t] = [@ EXCEPT !.pc = "done", !.reply = reply,
                                           !.sequence = sequence,
                                           !.room = Start, !.attempt = 0]]
  /\ mutex' = [mutex EXCEPT ![Home[t]] = Nobody]

\* A client sends a command for the first time or again, under the same key.
Submit(t, id) ==
  /\ task[t].pc \in {"idle", "done"}
  /\ id # Creation
  /\ task' = [task EXCEPT ![t] = [Idle EXCEPT !.pc = "lock", !.id = id]]
  /\ UNCHANGED <<stored, events, ledger, cache, mutex, notice>>

\* state.room_mutations.lock().await
Lock(t) ==
  /\ task[t].pc = "lock"
  /\ mutex[Home[t]] = Nobody
  /\ mutex' = [mutex EXCEPT ![Home[t]] = t]
  /\ task' = [task EXCEPT ![t].pc = "load", ![t].attempt = 1]
  /\ UNCHANGED <<stored, events, ledger, cache, notice>>

\* refresh_postgres_room: load_room(...).await
Load(t) ==
  /\ task[t].pc = "load"
  /\ task' = [task EXCEPT ![t].pc = "install", ![t].room = stored]
  /\ UNCHANGED <<stored, events, ledger, cache, mutex, notice>>

\* replace_durable_room: the cached room is replaced, whatever it was.
Install(t) ==
  /\ task[t].pc = "install"
  /\ cache' = [cache EXCEPT ![Home[t]] = task[t].room]
  /\ task' = [task EXCEPT ![t].pc = "execute"]
  /\ UNCHANGED <<stored, events, ledger, mutex, notice>>

\* The cached room is read again, copied, and executes the command.
Execute(t) ==
  LET room == cache[Home[t]] id == task[t].id c == CommandOf[id] IN
    /\ task[t].pc = "execute"
    /\ \/ /\ Duplicate(room, id)
          /\ Answer(t, "duplicate", room.sequence)
       \/ /\ ~Duplicate(room, id) /\ ~Applies(room, id, c)
          /\ Answer(t, "rejected", 0)
       \/ /\ Applies(room, id, c)
          /\ task' = [task EXCEPT ![t].pc = "commit",
                                  ![t].room = Apply(room, Event(id, c))]
          /\ UNCHANGED mutex
    /\ UNCHANGED <<stored, events, ledger, cache, notice>>

IsGift(c) == c.type = "gift"

\* event_exists, under the row lock.
Known(id) == CreationOrEvent(id)

\* Mutant of Current: the revision read under the row lock is not compared.
CurrentOrNot(t) == task[t].pc = "commit"

\* stored.revision = expected_revision.
Current(t) == task[t].room.sequence = stored.sequence + 1

\* Mutant of LedgerFree: the ledger has no unique transaction id.
LedgerOpen(c) == c \in Commands

\* The primary key of the gift ledger admits the transaction.
LedgerFree(c) == IsGift(c) => c.tx \notin ledger

\* append_room_event: UPDATE, INSERT of the event, the outbox row and the
\* gift, and COMMIT.
Write(t) ==
  LET id == task[t].id c == CommandOf[id] IN
    /\ ~Known(id) /\ Current(t) /\ LedgerFree(c)
    /\ stored' = task[t].room
    /\ events' = Append(events, Event(id, c))
    /\ ledger' = ledger \cup (IF IsGift(c) THEN {c.tx} ELSE {})

\* for _ in 0..4
MayRetry(t) == task[t].attempt < MaxAttempts

\* append_room_event returned.  Applied: the copy goes to the cache next.
\* Duplicate: the stored room does.  RevisionConflict: try again, a bounded
\* number of times.  DuplicateGiftTransaction: the transaction rolled back.
Commit(t) ==
  LET id == task[t].id c == CommandOf[id] IN
    /\ task[t].pc = "commit"
    /\ \/ /\ Write(t)
          /\ task' = [task EXCEPT ![t].pc = "keep"]
          /\ UNCHANGED mutex
       \/ /\ Known(id)
          /\ task' = [task EXCEPT ![t].pc = "adopt", ![t].room = stored]
          /\ UNCHANGED <<stored, events, ledger, mutex>>
       \/ /\ ~Known(id) /\ ~Current(t)
          /\ IF MayRetry(t)
             THEN /\ task' = [task EXCEPT ![t].pc = "load",
                                          ![t].attempt = @ + 1]
                  /\ UNCHANGED mutex
             ELSE Answer(t, "conflict", 0)
          /\ UNCHANGED <<stored, events, ledger>>
       \/ /\ ~Known(id) /\ Current(t) /\ ~LedgerFree(c)
          /\ Answer(t, "rejected", 0)
          /\ UNCHANGED <<stored, events, ledger>>
    /\ UNCHANGED <<cache, notice>>

\* Mutant of Keep: the sequence is taken from the room that is replaced.
KeepOldSequence(t) ==
  /\ task[t].pc = "keep"
  /\ cache' = [cache EXCEPT ![Home[t]] = task[t].room]
  /\ Answer(t, "applied", cache[Home[t]].sequence)
  /\ UNCHANGED <<stored, events, ledger, notice>>

\* rooms.insert(room_id, candidate) and the answer.
Keep(t) ==
  /\ task[t].pc = "keep"
  /\ cache' = [cache EXCEPT ![Home[t]] = task[t].room]
  /\ Answer(t, "applied", task[t].room.sequence)
  /\ UNCHANGED <<stored, events, ledger, notice>>

\* replace_durable_room with the room the store returned.
Adopt(t) ==
  /\ task[t].pc = "adopt"
  /\ cache' = [cache EXCEPT ![Home[t]] = task[t].room]
  /\ task' = [task EXCEPT ![t].pc = "reread"]
  /\ UNCHANGED <<stored, events, ledger, mutex, notice>>

\* The sequence in the answer is read from the cache.
Reread(t) ==
  /\ task[t].pc = "reread"
  /\ Answer(t, "duplicate", cache[Home[t]].sequence)
  /\ UNCHANGED <<stored, events, ledger, cache, notice>>

\* A database call fails, or the client goes away and the future is dropped
\* at an await.  A commit under way may or may not have happened.
Fail(t) ==
  /\ task[t].pc \in {"lock", "load", "commit"}
  /\ \/ task[t].pc = "commit" /\ Write(t)
     \/ UNCHANGED <<stored, events, ledger>>
  /\ task' = [task EXCEPT ![t] = Idle]
  /\ mutex' = [mutex EXCEPT ![Home[t]] = IF @ = t THEN Nobody ELSE @]
  /\ UNCHANGED <<cache, notice>>

-----------------------------------------------------------------------------
(* apply_shared_event and the replica's life.                              *)

\* A room event arrives on the bus, late, twice or not at all; the single
\* subscriber task loads the room ...
NoticeLoad(r) ==
  /\ notice[r] = {} /\ events # <<>>
  /\ notice' = [notice EXCEPT ![r] = {stored}]
  /\ UNCHANGED <<stored, events, ledger, cache, mutex, task>>

\* ... and replaces the cached one, or its load fails.
NoticeInstall(r) ==
  /\ notice[r] # {}
  /\ \/ \E room \in notice[r] : cache' = [cache EXCEPT ![r] = room]
     \/ UNCHANGED cache
  /\ notice' = [notice EXCEPT ![r] = {}]
  /\ UNCHANGED <<stored, events, ledger, mutex, task>>

\* The process stops and starts again from load_postgres_rooms.
Crash(r) ==
  /\ cache' = [cache EXCEPT ![r] = stored]
  /\ mutex' = [mutex EXCEPT ![r] = Nobody]
  /\ task' = [t \in Tasks |-> IF Home[t] = r THEN Idle ELSE task[t]]
  /\ notice' = [notice EXCEPT ![r] = {}]
  /\ UNCHANGED <<stored, events, ledger>>

-----------------------------------------------------------------------------
Step(t) ==
  \/ \E id \in Sends[t] : Submit(t, id)
  \/ Lock(t) \/ Load(t) \/ Install(t) \/ Execute(t) \/ Commit(t)
  \/ Keep(t) \/ Adopt(t) \/ Reread(t) \/ Fail(t)

CommandsNext ==
  \/ \E t \in Tasks : Step(t)
  \/ \E r \in Notified : NoticeLoad(r) \/ NoticeInstall(r)
  \/ \E r \in Replicas : Crash(r)

CommandsSpec == CommandsInit /\ [][CommandsNext]_commandsVars

-----------------------------------------------------------------------------
(* Properties.                                                             *)

\* The stored snapshot, computed by whichever replica won the compare-and-
\* swap, is the room that the event rows describe, and its revision counts
\* them: no update was lost between two replicas.
SnapshotIsReplay ==
  /\ stored = Restore(Creation, events)
  /\ stored.sequence = Len(events) + 1

\* The gift ledger holds exactly the transactions of the gift events, so the
\* money and the log never disagree after a failed or duplicate commit.
LedgerMatchesLog ==
  ledger = {e.command.tx : e \in {x \in Range(events) : IsGift(x.command)}}

\* What a client is told holds: "applied" names the sequence at which its own
\* command is in the durable log, "duplicate" means the command is there.
AnswersAreDurable ==
  \A t \in Tasks : task[t].pc = "done" =>
    /\ task[t].reply = "applied" =>
         /\ task[t].sequence - 1 \in DOMAIN events
         /\ events[task[t].sequence - 1].id = task[t].id
    /\ task[t].reply = "duplicate" => CreationOrEvent(task[t].id)

\* The replicas together implement one log of a single room: each command at
\* most once, each gift transaction at most once, and only what the room
\* permits at that point, although every replica decides on its own copy and
\* every copy forgets old command ids and transactions.
Log == INSTANCE RoomLog WITH log <- events,
                             CommandHistoryLimit <- Unbounded,
                             GiftHistoryLimit <- Unbounded
\* The specification of that log, as a property of the replicas.
ImplementsLog == Log!LogSpec

\* The snapshot, the event table and the gift ledger of the store agree after
\* every transaction.
StoreAgrees ==
  /\ CommandsTypeOK /\ SnapshotIsReplay /\ LedgerMatchesLog
=============================================================================

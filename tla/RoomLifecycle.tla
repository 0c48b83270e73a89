--------------------------- MODULE RoomLifecycle ---------------------------
(***************************************************************************)
(* One room aggregate that executes any commands in any order, with the    *)
(* log of the events it applied.  A client may send a command id again at  *)
(* any time, also after the bounded history has forgotten it.              *)
(***************************************************************************)
EXTENDS RoomAggregate

CONSTANTS
  Creation,   \* the command id that created the room
  MaxEvents   \* model bound: events applied after the creation

ASSUME CreationAssumption == Creation \in CommandIds
ASSUME MaxEventsAssumption == MaxEvents \in Nat

VARIABLES
  state,   \* the aggregate
  events   \* the events applied since the creation

lifecycleVars == <<state, events>>

\* The aggregate has the shape of the struct Room and numbers its events.
LifecycleTypeOK ==
  /\ state \in Room
  /\ state.sequence = Len(events) + 1
  /\ events \in Seq([id : CommandIds, command : Commands])

LifecycleInit ==
  /\ state = Create(Creation)
  /\ events = <<>>

\* Room::execute, when it applies an event.  Duplicates and errors change
\* nothing.
Execute(id, c) ==
  /\ Len(events) < MaxEvents
  /\ Applies(state, id, c)
  /\ state' = Apply(state, Event(id, c))
  /\ events' = Append(events, Event(id, c))

LifecycleNext == \E id \in CommandIds, c \in Commands : Execute(id, c)

LifecycleSpec == LifecycleInit /\ [][LifecycleNext]_lifecycleVars

-----------------------------------------------------------------------------
\* Whatever commands a room executes, restore_snapshot accepts its snapshot:
\* one host, members and publishers within the policy, only members who may
\* publish publishing, nobody in an ended room, histories bounded and without
\* repetitions.
SnapshotAccepted == ValidSnapshot(state)

\* The ids of the creation and of the events, in order.
IdsInOrder == <<Creation>> \o [i \in 1 .. Len(events) |-> events[i].id]

\* A command id applied once is refused until CommandHistoryLimit other
\* commands were applied after it.
IdempotentInWindow ==
  \A i, j \in 1 .. Len(IdsInOrder) :
    /\ i < j /\ IdsInOrder[i] = IdsInOrder[j]
    => j - i > CommandHistoryLimit

\* The gift transactions recorded by the first n events.
GiftsOf(n) ==
  LET isGift(e) == e.command.type = "gift"
  IN  SelectSeq(SubSeq(events, 1, n), isGift)

\* A gift transaction is recorded again only after GiftHistoryLimit other
\* gifts.
GiftCountedOnceInWindow ==
  LET gifts == GiftsOf(Len(events)) IN
    \A i, j \in 1 .. Len(gifts) :
      /\ i < j /\ gifts[i].command.tx = gifts[j].command.tx
      => j - i > GiftHistoryLimit

\* A room remembers what makes commands and gifts idempotent, and can be
\* restored from its own snapshot, at every moment.
HistoryIsRemembered ==
  /\ LifecycleTypeOK /\ SnapshotAccepted /\ IdempotentInWindow
  /\ GiftCountedOnceInWindow
=============================================================================

---------------------------- MODULE RoomAggregate ----------------------------
(***************************************************************************)
(* The event-sourced room of the domain crate: what a room remembers,      *)
(* which commands it permits, and what an event does to it.  The operators *)
(* are pure; RoomLifecycle runs one aggregate, RoomCommands many cached    *)
(* copies of one against PostgreSQL.                                       *)
(***************************************************************************)
EXTENDS Integers, FiniteSets, Sequences, Functions

CONSTANTS
  Users,                \* user identifiers
  Host,                 \* the creator of the room
  CommandIds,           \* idempotency keys
  Transactions,         \* gift transaction identifiers
  IsVod,                \* the room's mode is RoomMode::Vod
  MaxMembers,           \* policy.max_members
  MaxPublishers,        \* policy.max_publishers
  CommandHistoryLimit,  \* COMMAND_HISTORY_LIMIT (4096 in the code)
  GiftHistoryLimit      \* GIFT_TRANSACTION_HISTORY_LIMIT (4096 in the code)

ASSUME HostAssumption == Host \in Users
ASSUME ModeAssumption == IsVod \in BOOLEAN
ASSUME PolicyAssumption ==
  /\ MaxMembers \in Nat /\ MaxMembers >= 2
  /\ MaxPublishers \in Nat /\ MaxPublishers >= 1
ASSUME HistoryAssumption ==
  /\ CommandHistoryLimit \in Nat \ {0}
  /\ GiftHistoryLimit \in Nat \ {0}

Roles == {"host", "cohost", "publisher", "audience"}
NotMember == "none"   \* members has no entry for the user

CanPublish(role) == role \in {"host", "cohost", "publisher"}
CanModerate(role) == role \in {"host", "cohost"}

\* The fields of Room that commands read or change.  processed_commands and
\* gift_transactions are the ranges of their order queues.
Room ==
  [ members    : [Users -> Roles \cup {NotMember}],
    publishers : SUBSET Users,
    ended      : BOOLEAN,
    sequence   : Nat,
    commands   : Seq(CommandIds),
    gifts      : Seq(Transactions) ]

IsMember(room, u) == room.members[u] # NotMember
Members(room) == {u \in Users : IsMember(room, u)}

-----------------------------------------------------------------------------
(* Commands.  A text, payload or receipt is only well-formed or not.       *)

Commands ==
  [type : {"join", "leave", "start", "stop", "end"}, user : Users]
    \cup [type : {"chat", "custom"}, user : Users, valid : BOOLEAN]
    \cup [type : {"setrole"}, user : Users, target : Users, role : Roles]
    \cup [type : {"gift"}, user : Users, target : Users, tx : Transactions,
          valid : BOOLEAN]

RoleChangePermitted(room, c) ==
  LET actor == room.members[c.user] current == room.members[c.target] IN
    /\ IsMember(room, c.user) /\ IsMember(room, c.target)
    /\ CanModerate(actor)
    /\ ~(actor = "cohost" /\ current \in {"host", "cohost"})
    /\ current # "host" /\ c.role # "host"

PublishingPermitted(room, c) ==
  /\ ~IsVod /\ CanPublish(room.members[c.user])
  /\ c.user \notin room.publishers
  /\ Cardinality(room.publishers) < MaxPublishers

\* decide: the command becomes an event, or an error (FALSE).
Decide(room, c) ==
  CASE c.type = "join" -> /\ ~IsMember(room, c.user)
                          /\ Cardinality(Members(room)) < MaxMembers
    [] c.type = "leave" -> IsMember(room, c.user)
                             /\ room.members[c.user] # "host"
    [] c.type = "setrole" -> RoleChangePermitted(room, c)
    [] c.type = "start" -> PublishingPermitted(room, c)
    [] c.type = "stop" -> IsMember(room, c.user) /\ c.user \in room.publishers
    [] c.type \in {"chat", "custom"} -> IsMember(room, c.user) /\ c.valid
    [] c.type = "gift" -> /\ IsMember(room, c.user)
                          /\ IsMember(room, c.target)
                          /\ c.valid
                          /\ c.tx \notin Range(room.gifts)
    [] c.type = "end" -> room.members[c.user] = "host"

-----------------------------------------------------------------------------
(* Events.  An event is its command id and the command that caused it;     *)
(* only the creation event has no command.                                 *)

\* Mutant of Remember: a full queue forgets one entry too many.
RememberOneLess(queue, x, limit) ==
  LET longer == IF x \in Range(queue) THEN queue ELSE Append(queue, x)
  IN  IF Len(longer) >= limit THEN Tail(longer) ELSE longer

\* remember_command and remember_gift_transaction: a bounded queue without
\* repetitions that forgets its oldest entry.
Remember(queue, x, limit) ==
  LET longer == IF x \in Range(queue) THEN queue ELSE Append(queue, x)
  IN  IF Len(longer) > limit THEN Tail(longer) ELSE longer

\* A member with a role that cannot publish stops publishing.
WithRole(room, u, role) ==
  [room EXCEPT !.members[u] = role,
               !.publishers = IF CanPublish(role) THEN @ ELSE @ \ {u}]

\* remember_gift_transaction.
WithGift(room, tx) ==
  [room EXCEPT !.gifts = Remember(@, tx, GiftHistoryLimit)]

\* The match of apply.
Changed(room, c) ==
  CASE c.type = "join" -> WithRole(room, c.user, "audience")
    [] c.type = "setrole" -> WithRole(room, c.target, c.role)
    [] c.type = "leave" -> WithRole(room, c.user, NotMember)
    [] c.type = "start" -> [room EXCEPT !.publishers = @ \cup {c.user}]
    [] c.type = "stop" -> [room EXCEPT !.publishers = @ \ {c.user}]
    [] c.type = "gift" -> WithGift(room, c.tx)
    [] c.type = "end" -> [room EXCEPT !.publishers = {}, !.ended = TRUE]
    [] c.type \in {"chat", "custom"} -> room

Event(id, c) == [id |-> id, command |-> c]

\* apply: the event's own change, its sequence, its command id.
Apply(room, event) ==
  [Changed(room, event.command) EXCEPT
     !.sequence = @ + 1,
     !.commands = Remember(@, event.id, CommandHistoryLimit)]

\* Room::create: the empty room after its Created event.
Create(id) ==
  [ members |-> [u \in Users |-> IF u = Host THEN "host" ELSE NotMember],
    publishers |-> {}, ended |-> FALSE, sequence |-> 1,
    commands |-> <<id>>, gifts |-> <<>> ]

Duplicate(room, id) == id \in Range(room.commands)

\* execute's early returns: a known command id, an ended room, a refusal.
Applies(room, id, c) ==
  ~Duplicate(room, id) /\ ~room.ended /\ Decide(room, c)

\* Room::restore: the room whose creation is followed by the events.
Restore(creation, events) ==
  LET after[n \in 0 .. Len(events)] ==
        IF n = 0 THEN Create(creation) ELSE Apply(after[n - 1], events[n])
  IN  after[Len(events)]

-----------------------------------------------------------------------------
\* No element of a queue is repeated.
Distinct(queue) ==
  \A i, j \in 1 .. Len(queue) : queue[i] = queue[j] => i = j

\* What restore_snapshot asks of a snapshot before it accepts it.
ValidSnapshot(room) ==
  /\ room.sequence > 0
  /\ room.commands # <<>> /\ Len(room.commands) <= CommandHistoryLimit
  /\ Distinct(room.commands)
  /\ Len(room.gifts) <= GiftHistoryLimit /\ Distinct(room.gifts)
  /\ Cardinality(Members(room)) <= MaxMembers
  /\ \E h \in Users : \A u \in Users : room.members[u] = "host" <=> u = h
  /\ Cardinality(room.publishers) <= MaxPublishers
  /\ \A u \in room.publishers : CanPublish(room.members[u])
  /\ room.ended => room.publishers = {}
=============================================================================

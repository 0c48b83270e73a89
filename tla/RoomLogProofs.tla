---------------------------- MODULE RoomLogProofs ----------------------------
(***************************************************************************)
(* The replicas of RoomCommands implement the single log of RoomLog, for   *)
(* any replicas, handlers, commands and history limits.                    *)
(***************************************************************************)
EXTENDS RoomCommandsProofs

\* The lemmas about the aggregate, for the room that forgets nothing.
Whole == INSTANCE RoomAggregateProofs WITH CommandHistoryLimit <- Unbounded,
                                           GiftHistoryLimit <- Unbounded

\* The room that forgets nothing meets the assumptions of those lemmas.
LEMMA WholeAssumptions ==
  /\ Whole!HostAssumption /\ Whole!ModeAssumption
  /\ Whole!PolicyAssumption /\ Whole!HistoryAssumption
BY HostAssumption, ModeAssumption, PolicyAssumption, UnboundedAssumption, Zenon
   DEF Whole!HostAssumption, Whole!ModeAssumption, Whole!PolicyAssumption,
       Whole!HistoryAssumption

\* The operators of RoomLog's aggregate are those of the lemmas.
LEMMA SameApply ==
  ASSUME NEW r, NEW e PROVE Log!Apply(r, e) = Whole!Apply(r, e)
BY DEF Log!Apply, Whole!Apply, Log!Changed, Whole!Changed, Log!Remember,
       Whole!Remember, Log!WithRole, Whole!WithRole, Log!WithGift,
       Whole!WithGift, Log!CanPublish, Whole!CanPublish, Log!NotMember,
       Whole!NotMember, Log!Range, Whole!Range

\* So is the room that a creation leaves ...
LEMMA SameCreate ==
  ASSUME NEW c PROVE Log!Create(c) = Whole!Create(c)
BY DEF Log!Create, Whole!Create, Log!NotMember, Whole!NotMember

\* ... and the room that a log describes.
LEMMA SameRestore ==
  ASSUME NEW c, NEW s PROVE Log!Restore(c, s) = Whole!Restore(c, s)
BY SameApply, SameCreate, Zenon DEF Log!Restore, Whole!Restore

\* Rooms and commands do not depend on how much is remembered.
LEMMA SameRoom == Whole!Room = Room /\ Whole!Commands = Commands
BY DEF Whole!Room, Room, Whole!Commands, Commands, Whole!Roles, Roles,
       Whole!NotMember, NotMember

\* The room of the whole log.
Entire == Log!Restore(Creation, events)

\* Two rooms that differ only in what they remember.
Alike(a, b) ==
  a.members = b.members /\ a.publishers = b.publishers /\ a.ended = b.ended

\* The room of the whole log is like the stored room, and what it remembers
\* is in the event table and in the gift ledger.
EntireInv ==
  /\ Entire \in Room /\ Alike(Entire, stored)
  /\ Range(Entire.commands) \subseteq Logged(events)
  /\ Range(Entire.gifts) \subseteq ledger

\* An event changes alike rooms alike, however much each of them remembers.
LEMMA AlikeApply ==
  ASSUME NEW a \in Room, NEW b \in Room, Alike(a, b),
         NEW id \in CommandIds, NEW c \in Commands
  PROVE  Alike(Log!Apply(a, Event(id, c)), Apply(b, Event(id, c)))
<1>1. ASSUME NEW u \in Users, NEW role
      PROVE  Alike(Log!WithRole(a, u, role), WithRole(b, u, role))
  BY DEF Alike, Log!WithRole, WithRole, Log!CanPublish, CanPublish, Room
<1>2. Alike(Log!Changed(a, c), Changed(b, c))
  <2> USE CommandFields
  <2>1. CASE c.type = "join"
    BY <1>1, <2>1 DEF Log!Changed, Changed
  <2>2. CASE c.type = "setrole"
    BY <1>1, <2>2 DEF Log!Changed, Changed
  <2>3. CASE c.type = "leave"
    BY <1>1, <2>3 DEF Log!Changed, Changed, Log!NotMember, NotMember
  <2>4. CASE c.type = "start"
    BY <2>4, Zenon DEF Log!Changed, Changed, Alike, Room
  <2>5. CASE c.type = "stop"
    BY <2>5, Zenon DEF Log!Changed, Changed, Alike, Room
  <2>6. CASE c.type = "end"
    BY <2>6, Zenon DEF Log!Changed, Changed, Alike, Room
  <2>7. CASE c.type \in {"chat", "custom"}
    BY <2>7 DEF Log!Changed, Changed
  <2>8. CASE c.type = "gift"
    BY <2>8, Zenon
       DEF Log!Changed, Changed, Log!WithGift, WithGift, Alike, Room
  <2> QED
    BY <2>1, <2>2, <2>3, <2>4, <2>5, <2>6, <2>7, <2>8 DEF Types
<1>3. Changed(b, c) \in Room
  BY ChangedKeeps
<1>4. Log!Changed(a, c) \in Room
  <2>1. Whole!Changed(a, c) \in Whole!Room
    BY SameRoom, WholeAssumptions, Whole!ChangedKeeps
  <2>2. Log!Changed(a, c) = Whole!Changed(a, c)
    BY DEF Log!Changed, Whole!Changed, Log!Remember, Whole!Remember,
           Log!WithRole, Whole!WithRole, Log!WithGift, Whole!WithGift,
           Log!CanPublish, Whole!CanPublish, Log!NotMember, Whole!NotMember,
           Log!Range, Whole!Range
  <2> QED
    BY <2>1, <2>2, SameRoom
<1> QED
  BY <1>2, <1>3, <1>4 DEF Alike, Log!Apply, Apply, Event, Room

\* What an event does to a room that forgets nothing.
LEMMA WholeApply ==
  ASSUME NEW a \in Room, NEW id \in CommandIds, NEW c \in Commands
  PROVE  /\ Log!Apply(a, Event(id, c)) \in Room
         /\ Range(Log!Apply(a, Event(id, c)).commands)
              \subseteq Range(a.commands) \cup {id}
         /\ Range(Log!Apply(a, Event(id, c)).gifts)
              \subseteq Range(a.gifts) \cup GiftsOfCommand(c)
<1> DEFINE next == Whole!Apply(a, Whole!Event(id, c))
<1>1. a \in Whole!Room /\ c \in Whole!Commands
  BY SameRoom
<1>2. /\ next \in Whole!Room
      /\ Whole!Range(next.commands)
           \subseteq Whole!Range(a.commands) \cup {id}
      /\ Whole!Range(next.gifts)
           \subseteq Whole!Range(a.gifts) \cup Whole!GiftsOfCommand(c)
  BY <1>1, WholeAssumptions, Whole!ApplyKeeps, ZenonT(30)
<1>3. Log!Apply(a, Event(id, c)) = next
  <2>1. Whole!Event(id, c) = Event(id, c)
    BY DEF Whole!Event, Event
  <2> QED
    BY <2>1, SameApply, Zenon
<1> HIDE DEF next
<1> QED
  BY <1>2, <1>3, SameRoom, Zenon
     DEF Whole!Range, Range, Whole!GiftsOfCommand, GiftsOfCommand

\* What the stored room permits, the room of the whole log permits, when the
\* ledger and the event table admit it.
LEMMA EntirePermits ==
  ASSUME NEW a \in Room, NEW b \in Room, Alike(a, b), NEW id,
         NEW c \in Commands, Applies(b, id, c), id \notin Range(a.commands),
         IsGift(c) => c.tx \notin Range(a.gifts)
  PROVE  Log!Applies(a, id, c)
<1>1. Log!Range(a.commands) = Range(a.commands)
      /\ Log!Range(a.gifts) = Range(a.gifts)
  BY DEF Log!Range, Range
<1>2. ~Log!Duplicate(a, id) /\ ~a.ended /\ Decide(b, c)
  BY <1>1 DEF Log!Duplicate, Applies, Alike
<1>3. \A u : Log!IsMember(a, u) <=> IsMember(b, u)
  BY DEF Log!IsMember, IsMember, Log!NotMember, NotMember, Alike
<1>4. Log!Members(a) = Members(b)
  BY <1>3 DEF Log!Members, Members
<1>6. \A S : Log!Cardinality(S) = Cardinality(S)
  BY DEF Log!Cardinality, Cardinality, Log!IsFiniteSet, IsFiniteSet
<1>5. Log!Decide(a, c)
  <2> USE CommandFields
  <2>1. CASE c.type = "join"
    BY <1>2, <1>3, <1>4, <1>6, <2>1, Zenon DEF Log!Decide, Decide
  <2>2. CASE c.type = "setrole"
    BY <1>2, <1>3, <2>2, Zenon DEF Log!Decide, Decide, Log!RoleChangePermitted,
       RoleChangePermitted, Log!CanModerate, CanModerate, Alike
  <2>3. CASE c.type = "leave"
    BY <1>2, <1>3, <2>3, Zenon DEF Log!Decide, Decide, Alike
  <2>4. CASE c.type = "start"
    BY <1>2, <1>6, <2>4 DEF Log!Decide, Decide, Log!PublishingPermitted,
       PublishingPermitted, Log!CanPublish, CanPublish, Alike
  <2>5. CASE c.type = "stop"
    BY <1>2, <1>3, <2>5, Zenon DEF Log!Decide, Decide, Alike
  <2>6. CASE c.type = "end"
    BY <1>2, <2>6 DEF Log!Decide, Decide, Alike
  <2>7. CASE c.type \in {"chat", "custom"}
    BY <1>2, <1>3, <2>7, Zenon DEF Log!Decide, Decide
  <2>8. CASE c.type = "gift"
    BY <1>1, <1>2, <1>3, <2>8 DEF Log!Decide, Decide, IsGift
  <2> QED
    BY <2>1, <2>2, <2>3, <2>4, <2>5, <2>6, <2>7, <2>8, Zenon DEF Types
<1> QED
  BY <1>2, <1>5 DEF Log!Applies

\* Only a commit changes the store.
LEMMA StoreMoves ==
  ASSUME CommandsInv, [CommandsNext]_commandsVars
  PROVE  \/ UNCHANGED <<stored, events, ledger>>
         \/ \E t \in Tasks : task[t].pc = "commit" /\ Write(t)
BY ZenonT(30)
   DEF CommandsNext, Step, Submit, Lock, Load, Install, Execute, Commit, Keep,
       Adopt, Reread, Fail, NoticeLoad, NoticeInstall, Crash, commandsVars

\* A commit is a step of the log, and keeps the whole room like the stored.
LEMMA WriteAppends ==
  ASSUME CommandsInv, EntireInv, NEW t \in Tasks, task[t].pc = "commit",
         Write(t)
  PROVE  EntireInv' /\ \E id \in CommandIds : Log!AppendOnce(id)
<1> DEFINE id == task[t].id
           c == CommandOf[id]
           e == Event(id, c)
<1>1. /\ stored \in Room /\ events \in Seq(Rows) /\ task[t] \in TaskRecords
  BY DEF CommandsInv, Shapes
<1>2. id \in CommandIds /\ c \in Commands /\ e \in Rows
  BY <1>1, CommandAssumption, Zenon DEF TaskRecords, Event, Rows
<1>3. /\ ~CreationOrEvent(id) /\ (IsGift(c) => c.tx \notin ledger)
      /\ ledger' = ledger \cup (IF IsGift(c) THEN {c.tx} ELSE {})
  BY DEF Write, Known, LedgerFree
<1>4. /\ Applies(stored, id, c) /\ events' = Append(events, e)
      /\ stored' = task[t].room
  BY WriteExtends
<1>5. stored' = Apply(stored, e)
  <2>1. SnapshotIsReplay /\ SnapshotIsReplay'
    BY WriteExtends DEF CommandsInv
  <2>2. Restore(Creation, events') = Apply(Restore(Creation, events), e)
    BY <1>1, <1>2, <1>4, RestoreAppend, Zenon
  <2> QED
    BY <2>1, <2>2, Zenon DEF SnapshotIsReplay
<1>6. e.id = id /\ e.command = c
  BY DEF Event
<1>7. Entire' = Log!Apply(Entire, e)
  <2>1. Whole!Restore(Creation, Append(events, e))
          = Whole!Apply(Whole!Restore(Creation, events), e)
    BY <1>1, <1>2, WholeAssumptions, Whole!RestoreAppend, ZenonT(30)
  <2> QED
    BY <1>4, <2>1, SameRestore, SameApply, Zenon DEF Entire
<1>8. Entire \in Room /\ Alike(Entire, stored)
  BY DEF EntireInv
<1>9. Alike(Entire', stored')
  BY <1>1, <1>2, <1>5, <1>7, <1>8, AlikeApply, Zenon
<1>10. /\ Entire' \in Room
       /\ Range(Entire'.commands) \subseteq Range(Entire.commands) \cup {id}
       /\ Range(Entire'.gifts)
            \subseteq Range(Entire.gifts) \cup GiftsOfCommand(c)
  <2> DEFINE next == Log!Apply(Entire, e)
  <2>1. /\ next \in Room
        /\ Range(next.commands) \subseteq Range(Entire.commands) \cup {id}
        /\ Range(next.gifts)
             \subseteq Range(Entire.gifts) \cup GiftsOfCommand(c)
    <3>1. id \in CommandIds /\ c \in Commands /\ e = Event(id, c)
      BY <1>2
    <3> HIDE DEF id, c, e
    <3> QED
      BY <1>8, <3>1, WholeApply, SMTT(30)
  <2>2. Entire' = next
    BY <1>7
  <2> HIDE DEF next
  <2> QED
    BY <2>1, <2>2
<1> HIDE DEF id, c, e
<1>11. Logged(events') = Logged(events) \cup {id}
  <2>1. /\ DOMAIN events' = DOMAIN events \cup {Len(events) + 1}
        /\ events'[Len(events) + 1] = e
        /\ \A i \in DOMAIN events : events'[i] = events[i]
    BY <1>1, <1>2, <1>4, AppendFacts
  <2> QED
    BY <1>6, <2>1, SMTT(30) DEF Logged
<1>12. EntireInv'
  BY <1>3, <1>9, <1>10, <1>11 DEF EntireInv, GiftsOfCommand, IsGift
<1>13. id \notin Logged(events)
  BY <1>3 DEF CreationOrEvent, Logged
<1>14. Log!Applies(Entire, id, c)
  <2>1. id \notin Range(Entire.commands)
    BY <1>13 DEF EntireInv
  <2>2. IsGift(c) => c.tx \notin Range(Entire.gifts)
    BY <1>3 DEF EntireInv
  <2> QED
    BY <1>1, <1>2, <1>4, <1>8, <2>1, <2>2, EntirePermits, Zenon
<1>15. Log!AppendOnce(id)
  <2>1. id # Creation /\ \A i \in 1 .. Len(events) : events[i].id # id
    BY <1>1, <1>13, SMTT(30) DEF Logged
  <2>2. Log!Event(id, c) = e
    BY DEF Log!Event, Event, e
  <2> QED
    BY <1>4, <1>14, <2>1, <2>2, Zenon DEF Log!AppendOnce, Entire, c
<1> QED
  BY <1>2, <1>12, <1>15

\* Initially the log is empty and the whole room is the stored one.
LEMMA EntireInit == CommandsInit => Log!LogInit /\ EntireInv
<1> SUFFICES ASSUME CommandsInit PROVE Log!LogInit /\ EntireInv
  OBVIOUS
<1>1. stored = Create(Creation) /\ events = <<>> /\ ledger = {}
  BY DEF CommandsInit, Start
<1>2. Entire = Create(Creation)
  <2>1. Whole!Restore(Creation, <<>>) = Whole!Create(Creation)
    BY WholeAssumptions, Whole!RestoreEmpty, Zenon
  <2> QED
    BY <1>1, <2>1, SameRestore, Zenon DEF Entire, Whole!Create, Create,
       Whole!NotMember, NotMember
<1>3. EntireInv
  BY <1>1, <1>2, CommandAssumption, CreateIsRoom, Zenon
     DEF EntireInv, Alike, Logged
<1> QED
  BY <1>1, <1>3 DEF Log!LogInit

\* Every replica decides with execute on its own copy, which forgets old
\* command ids and transactions; still the event table is one log, each
\* command in it once, each permitted by the room that the whole log before
\* it describes.
THEOREM ReplicasImplementLog == CommandsSpec => ImplementsLog
<1>1. CommandsInit => Log!LogInit /\ EntireInv
  BY EntireInit
<1>2. CommandsInv /\ EntireInv /\ [CommandsNext]_commandsVars
        => /\ EntireInv'
           /\ [\E id \in CommandIds : Log!AppendOnce(id)]_events
  <2> SUFFICES ASSUME CommandsInv, EntireInv, [CommandsNext]_commandsVars
               PROVE  /\ EntireInv'
                      /\ [\E id \in CommandIds : Log!AppendOnce(id)]_events
    OBVIOUS
  <2>1. CASE UNCHANGED <<stored, events, ledger>>
    BY <2>1 DEF EntireInv, Entire
  <2>2. ASSUME NEW t \in Tasks, task[t].pc = "commit", Write(t)
        PROVE  /\ EntireInv'
               /\ [\E id \in CommandIds : Log!AppendOnce(id)]_events
    BY <2>2, WriteAppends
  <2> QED
    BY <2>1, <2>2, StoreMoves, Zenon
<1> QED
  BY <1>1, <1>2, CommandsInvariant, PTL
     DEF CommandsSpec, ImplementsLog, Log!LogSpec
=============================================================================

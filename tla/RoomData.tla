------------------------------ MODULE RoomData ------------------------------
(***************************************************************************)
(* Room data over the data channels of a media node                        *)
(* (crates/services/media-node/src/main.rs).                               *)
(*                                                                         *)
(* A session has one SCTP association with channels, and beside it two     *)
(* tables: the label of every stream and the stream of every label.  One   *)
(* task reads packets, lets the association handle them under the lock,    *)
(* and then applies the events one by one, taking the lock again for each; *)
(* a message is numbered and passed to every session of the room on the    *)
(* stream its label has there.  The timer task drops the associations that *)
(* gave up, and a request deletes a session: both between any two steps of *)
(* the first task.  The numbering and acknowledging of chunks: see Sctp.   *)
(***************************************************************************)
EXTENDS Integers, Sequences, SequencesExt

CONSTANTS
  Sessions,  \* media sessions of one room
  Leavers,   \* the ones that come and go; the others have joined
  Labels,    \* labels of channels
  RoomLabel, \* fluvora.room.v1: the label whose messages are numbered
  StreamIds, \* stream numbers
  Packets,   \* what the peer of a session may send: sequences of chunks
  MaxNumber  \* bound: room messages numbered

ASSUME RoomDataAssumption ==
  /\ Leavers \subseteq Sessions
  /\ RoomLabel \in Labels
  /\ StreamIds \subseteq Nat
  /\ MaxNumber \in Nat
  /\ DOMAIN Packets = Sessions

VARIABLES
  registered,  \* sessions of the SessionRegistry
  association, \* data_channels: the association and its two tables
  routing,     \* the packet task: a session, the events left, the message
               \* to pass on, and whether the association is to be dropped
  timer,       \* sessions whose DeliveryFailed the timer task holds
  deleting,    \* sessions out of the registry, their channels not yet
  number,      \* data_sequences of the room
  got,         \* history: the last number a session was sent
  reset,       \* history: sessions with an INIT on a used association
  discarded,   \* history: sessions with events lost to a later error
  shadowed     \* history: sessions that closed the first of two streams
               \* with the same label

dataVars == <<registered, association, routing, timer, deleting, number, got,
              reset, discarded, shadowed>>

NoLabel == "none"
NoStream == -1

\* new_data_channel_session: an association nobody has spoken to.
NewSession ==
  [state |-> "new",
   open |-> [st \in StreamIds |-> NoLabel],
   labels |-> [st \in StreamIds |-> NoLabel],
   index |-> [l \in Labels |-> NoStream]]

NoSession == [NewSession EXCEPT !.state = "none"]

Unoccupied == [session |-> CHOOSE s \in Sessions : TRUE, events |-> <<>>,
         send |-> {}, ending |-> FALSE, busy |-> FALSE]

\* A session that has its channel for the data of the room.
Joined(st) ==
  [state |-> "up",
   open |-> [NewSession.open EXCEPT ![st] = RoomLabel],
   labels |-> [NewSession.labels EXCEPT ![st] = RoomLabel],
   index |-> [NewSession.index EXCEPT ![RoomLabel] = st]]

RoomDataInit ==
  /\ registered = Sessions
  /\ association =
       [s \in Sessions |-> IF s \in Leavers THEN NoSession
                           ELSE Joined(CHOOSE st \in StreamIds : TRUE)]
  /\ routing = Unoccupied
  /\ timer = {}
  /\ deleting = {}
  /\ number = 0
  /\ got = [s \in Sessions |-> 0]
  /\ reset = {}
  /\ discarded = {}
  /\ shadowed = {}

-----------------------------------------------------------------------------
(* The association handles a packet.                                       *)

Opened(st, l) == [type |-> "opened", stream |-> st, label |-> l]
ChannelEvent(type_, st) == [type |-> type_, stream |-> st]

\* A chunk: what becomes of the association, the events it adds, and whether
\* it is an error.
Handled(a, events, ok) == [association |-> a, events |-> events, ok |-> ok]
Refused(a) == Handled(a, <<>>, FALSE)

\* handle_init starts the association over, in whatever state it is.
OnInit(a) ==
  Handled([a EXCEPT !.state = "wait", !.open = NewSession.open], <<>>, TRUE)

OnCookieEcho(a) ==
  IF a.state = "wait"
  THEN Handled([a EXCEPT !.state = "up"], <<>>, TRUE)
  ELSE Refused(a)

OnDcep(a, st, l) ==
  IF a.state = "up" /\ a.open[st] = NoLabel
  THEN Handled([a EXCEPT !.open[st] = l], <<Opened(st, l)>>, TRUE)
  ELSE Refused(a)

HandleMessage(a, st) ==
  IF a.state = "up" /\ a.open[st] # NoLabel
  THEN Handled(a, <<ChannelEvent("message", st)>>, TRUE)
  ELSE Refused(a)

CloseStreams(a, st) ==
  IF a.state # "up" THEN Refused(a)
  ELSE IF a.open[st] = NoLabel THEN Handled(a, <<>>, TRUE)
  ELSE Handled([a EXCEPT !.open[st] = NoLabel],
               <<ChannelEvent("closed", st)>>, TRUE)

HandleAbort(a) ==
  Handled([a EXCEPT !.state = "closed"], <<ChannelEvent("ended", 0)>>, TRUE)

OnChunk(a, c) ==
  CASE c.op = "init" -> OnInit(a)
    [] c.op = "cookie" -> OnCookieEcho(a)
    [] c.op = "open" -> OnDcep(a, c.stream, c.label)
    [] c.op = "data" -> HandleMessage(a, c.stream)
    [] c.op = "close" -> CloseStreams(a, c.stream)
    [] c.op = "abort" -> HandleAbort(a)
    [] OTHER -> Refused(a)

\* The first error ends the packet: what the chunks before it did to the
\* association stays, their events are dropped with the output.
OnPacket(a, packet) ==
  FoldLeft(LAMBDA r, c :
             IF ~r.ok THEN r
             ELSE LET h == OnChunk(r.association, c)
                  IN  Handled(h.association, r.events \o h.events, h.ok),
           Handled(a, <<>>, TRUE), packet)

Existing(s) ==
  IF association[s].state = "none" THEN NewSession ELSE association[s]

Carries(packet, op_) == \E i \in DOMAIN packet : packet[i].op = op_

\* A session's first stream of a label is closed, and another one is not.
Shadows(s, a) ==
  \E st1, st2 \in StreamIds : \E l \in Labels :
    /\ st1 # st2
    /\ association[s].index[l] = st1
    /\ association[s].open[st1] = l /\ a.open[st1] # l
    /\ a.open[st2] = l

\* process_sctp_packet up to the events.
ProcessSctpPacket(s, packet) ==
  LET h == OnPacket(Existing(s), packet) IN
  /\ ~routing.busy
  /\ s \in registered
  /\ association' = [association EXCEPT ![s] = h.association]
  /\ routing' = IF h.ok
             THEN [session |-> s, events |-> h.events, send |-> {},
                   ending |-> FALSE, busy |-> TRUE]
             ELSE Unoccupied
  /\ discarded' = IF h.ok \/ h.events = <<>> THEN discarded
                                            ELSE discarded \cup {s}
  /\ reset' = IF Carries(packet, "init")
                   /\ (association[s].state \notin {"none", "new"}
                       \/ s \in timer)
              THEN reset \cup {s} ELSE reset
  /\ shadowed' = IF Shadows(s, h.association)
                 THEN shadowed \cup {s} ELSE shadowed
  /\ UNCHANGED <<registered, timer, deleting, number, got>>

-----------------------------------------------------------------------------
(* The events of a packet (route_data_channel_output).                     *)

Next1(t) == [t EXCEPT !.events = Tail(t.events)]

Present(s) == association[s].state # "none"

\* The first stream of a label keeps it.
ChannelOpened(a, st, l) ==
  [a EXCEPT !.labels[st] = l,
            !.index[l] = IF @ = NoStream THEN st ELSE @]

\* Mutant of ChannelClosed: the stream of the label is left.
ChannelClosedLabel(a, st) == [a EXCEPT !.labels[st] = NoLabel]

ChannelClosed(a, st) ==
  LET l == a.labels[st] IN
  IF l = NoLabel THEN a
  ELSE [a EXCEPT !.labels[st] = NoLabel,
                 !.index[l] = IF @ = st THEN NoStream ELSE @]

ApplyEvent ==
  LET s == routing.session
      e == Head(routing.events) IN
  /\ routing.busy /\ routing.events # <<>> /\ routing.send = {}
  /\ e.type # "message"
  /\ association' =
       CASE ~Present(s) -> association
         [] e.type = "opened" ->
              [association EXCEPT ![s] = ChannelOpened(@, e.stream, e.label)]
         [] e.type = "closed" ->
              [association EXCEPT ![s] = ChannelClosed(@, e.stream)]
         [] OTHER -> association
  /\ routing' = [Next1(routing) EXCEPT !.ending = @ \/ e.type = "ended"]
  /\ UNCHANGED <<registered, timer, deleting, number, got, reset, discarded,
                 shadowed>>

\* authorize_data_payload: only messages with the label of the room are
\* looked into, and numbered.
AuthorizeDataPayload(l) ==
  IF l = RoomLabel
  THEN number < MaxNumber /\ number' = number + 1
  ELSE number' = number

\* route_room_data up to the numbering.
AuthorizeMessage ==
  LET s == routing.session
      st == Head(routing.events).stream
      l == association[s].labels[st] IN
  /\ routing.busy /\ routing.events # <<>> /\ routing.send = {}
  /\ Head(routing.events).type = "message"
  /\ s \in registered
  /\ l # NoLabel
  /\ AuthorizeDataPayload(l)
  /\ routing' = [Next1(routing) EXCEPT !.send = {[label |-> l,
                                            number |-> number']}]
  /\ UNCHANGED <<registered, association, timer, deleting, got, reset,
                 discarded, shadowed>>

\* Its early returns: no session, no label, a payload that is refused.
RejectMessage ==
  /\ routing.busy /\ routing.events # <<>> /\ routing.send = {}
  /\ Head(routing.events).type = "message"
  /\ routing' = Next1(routing)
  /\ UNCHANGED <<registered, association, timer, deleting, number, got,
                 reset, discarded, shadowed>>

\* send_message on the stream that the label has at a session succeeds.
Reaches(s, l) ==
  LET a == association[s] IN
  /\ a.state = "up"
  /\ a.index[l] # NoStream
  /\ a.open[a.index[l]] # NoLabel

\* The rest of route_room_data, under one lock; full are the sessions with
\* a full send window, which miss the message.
FanOut(full) ==
  /\ routing.send # {}
  /\ LET m == CHOOSE x \in routing.send : TRUE IN
     got' = [s \in Sessions |->
               IF s \in registered \ full /\ Reaches(s, m.label)
                    /\ m.label = RoomLabel
               THEN m.number ELSE got[s]]
  /\ routing' = [routing EXCEPT !.send = {}]
  /\ UNCHANGED <<registered, association, timer, deleting, number, reset,
                 discarded, shadowed>>

\* remove_data_channel_session.
Removed(s) ==
  /\ association' = [association EXCEPT ![s] = NoSession]
  /\ number' = number
  /\ reset' = reset \ {s}
  /\ discarded' = discarded \ {s}
  /\ shadowed' = shadowed \ {s}

\* The end of route_data_channel_output, after the last event.
EndPacket ==
  /\ routing.busy /\ routing.events = <<>> /\ routing.send = {}
  /\ IF routing.ending THEN Removed(routing.session)
     ELSE UNCHANGED <<association, number, reset, discarded, shadowed>>
  /\ routing' = Unoccupied
  /\ UNCHANGED <<registered, timer, deleting, got>>

-----------------------------------------------------------------------------
(* The timer task (poll_data_channels) and delete_session.                 *)

\* tick finds a reliable chunk that was sent too often.
TickFails(s) ==
  /\ association[s].state = "up"
  /\ s \in Leavers \ timer
  /\ association' = [association EXCEPT ![s].state = "failed"]
  /\ timer' = timer \cup {s}
  /\ UNCHANGED <<registered, routing, deleting, number, got, reset, discarded,
                 shadowed>>

\* The DeliveryFailed event of that tick.
TimerRemoves(s) ==
  /\ s \in timer
  /\ timer' = timer \ {s}
  /\ Removed(s)
  /\ UNCHANGED <<registered, routing, deleting, got>>

DeleteSession(s) ==
  /\ s \in registered \cap Leavers
  /\ registered' = registered \ {s}
  /\ deleting' = deleting \cup {s}
  /\ UNCHANGED <<association, routing, timer, number, got, reset, discarded,
                 shadowed>>

RemoveDataChannels(s) ==
  /\ s \in deleting
  /\ deleting' = deleting \ {s}
  /\ Removed(s)
  /\ UNCHANGED <<registered, routing, timer, got>>

RoomDataNext ==
  \/ \E s \in Sessions : \E p \in Packets[s] : ProcessSctpPacket(s, p)
  \/ ApplyEvent
  \/ AuthorizeMessage
  \/ RejectMessage
  \/ \E full \in SUBSET Sessions : FanOut(full)
  \/ EndPacket
  \/ \E s \in Sessions :
       TickFails(s) \/ TimerRemoves(s) \/ DeleteSession(s)
         \/ RemoveDataChannels(s)

RoomDataSpec == RoomDataInit /\ [][RoomDataNext]_dataVars

-----------------------------------------------------------------------------

\* Types; an association that does not exist has nothing open or labelled.
RoomDataTypeOK ==
  /\ registered \subseteq Sessions
  /\ timer \subseteq Sessions
  /\ deleting \subseteq Sessions \ registered
  /\ number \in 0 .. MaxNumber
  /\ \A s \in Sessions :
       /\ association[s].state
            \in {"none", "new", "wait", "up", "failed", "closed"}
       /\ association[s].open \in [StreamIds -> Labels \cup {NoLabel}]
       /\ association[s].labels \in [StreamIds -> Labels \cup {NoLabel}]
       /\ association[s].index \in [Labels -> StreamIds \cup {NoStream}]
       /\ ~Present(s) => association[s] = NoSession

Settled(s) ==
  ~(routing.busy /\ routing.session = s) /\ association[s].state = "up"

\* A message is passed on under the label it came with: once the events of
\* the last packet are applied, the stream that the tables of a session give
\* for a label is open in the association with that very label.  Not so
\* after an INIT on an association in use, which forgets the channels and
\* leaves the tables (data-channel lib.rs handle_init), nor when a packet
\* failed after it had closed a stream.
LabelsLeadToTheirStreams ==
  \A s \in Sessions : Settled(s) /\ s \notin reset \cup discarded =>
    \A l \in Labels : association[s].index[l] # NoStream =>
      association[s].open[association[s].index[l]] = l

\* Every open channel can be reached: a label with an open stream has a
\* stream in the index, so a member that opened its channel gets the data of
\* the room.  Not so for a label that two streams were open with: closing
\* the first one leaves the second without an entry.
OpenLabelsAreReachable ==
  \A s \in Sessions :
    Settled(s) /\ s \notin reset \cup discarded \cup shadowed =>
    \A st \in StreamIds : association[s].open[st] # NoLabel =>
      association[s].index[association[s].open[st]] # NoStream

\* The timer task drops an association for a failure it saw before it took
\* the lock again: the association is one that still has that failure,
\* unless the peer started it over in between.
FailureStillHolds ==
  \A s \in timer \ reset :
    association[s].state \in {"none", "new", "failed", "closed"}

\* The numbers of the room only grow at every member, whoever sends, leaves
\* and reconnects in between: a message that is about to be passed on has a
\* number above all that any member was sent.
NumbersIncrease ==
  \A m \in routing.send, s \in Sessions :
    m.label = RoomLabel => m.number > got[s]

\* The data channels of a room can be reached by their labels as long as they
\* are open, and their messages are numbered once.
ChannelsAreReachable ==
  /\ RoomDataTypeOK /\ LabelsLeadToTheirStreams /\ OpenLabelsAreReachable
  /\ FailureStillHolds /\ NumbersIncrease
=============================================================================

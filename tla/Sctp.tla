-------------------------------- MODULE Sctp --------------------------------
(***************************************************************************)
(* The server's end of a data-channel association (SCTP over DTLS, with    *)
(* DCEP and partial reliability) and the peer it talks to.  handle_packet, *)
(* send_message and tick are operators from the association to the next    *)
(* one, with the packets and events they produce.  DTLS neither forges nor *)
(* repeats datagrams; the network loses and reorders them.  The peer is    *)
(* external: a correct one that repeats what was not acknowledged.         *)
(*                                                                         *)
(* A payload of the peer is the pair of its message and fragment numbers.  *)
(* Transmission sequence numbers (TSN) live modulo TsnMod, for 2^32.       *)
(***************************************************************************)
EXTENDS Integers, FiniteSets, Sequences, SequencesExt, FiniteSetsExt

CONSTANTS
  TsnMod,              \* stands for 2^32
  InitialTsn,          \* config.initial_tsn
  PeerTsn,             \* the peer's initial TSN
  Scenarios,           \* model bound: what the environment does in a run
  MaximumChannels,     \* config.maximum_channels
  MaximumParts,        \* config.maximum_message_bytes, in fragments
  MaxPendingTsn,       \* MAX_PENDING_TSN
  MaxOutstanding,      \* MAX_OUTSTANDING
  MaxRetransmissions,  \* MAX_RETRANSMISSIONS
  PartialRetransmissions, \* reliability parameter of limited channels
  Fragments            \* model bound: sizes of sent messages, in fragments

\* A scenario is the DATA chunks the peer sends (script), how many packets it
\* sends again (repeats), how many messages the application sends (sends),
\* and what else may happen (extras).

ASSUME SctpBounds ==
  /\ TsnMod \in Nat \ {0} /\ TsnMod % 2 = 0
  /\ InitialTsn \in 0 .. (TsnMod - 1) /\ PeerTsn \in 0 .. (TsnMod - 1)
  /\ {MaximumChannels, MaximumParts, MaxPendingTsn, MaxOutstanding,
      MaxRetransmissions, PartialRetransmissions} \subseteq Nat
  /\ \A p \in Scenarios :
       Len(p.script) + p.sends * Max(Fragments) + 2 < TsnMod \div 2

VARIABLES
  assoc,      \* the Association of the server
  peer,       \* the other end
  toServer,   \* packets under way to the server, each a sequence of chunks
  toPeer,     \* chunks under way to the peer
  delivered,  \* history: payloads of the Message events, in order
  sent,       \* history: what the server ever sent, by TSN
  disturbed   \* history: what happened that the code does not recover from

sctpVars == <<assoc, peer, toServer, toPeer, delivered, sent, disturbed>>

-----------------------------------------------------------------------------
(* Sequence numbers, and partial functions for the maps.                   *)

\* tsn.wrapping_add(n), and b.wrapping_sub(a).
Plus(tsn, n) == (tsn + n) % TsnMod
Dist(a, b) == (b - a) % TsnMod

\* sequence_less_or_equal.
SequenceLeq(candidate, reference) ==
  Dist(candidate, reference) < TsnMod \div 2

None == [x \in {} |-> 0]
Put(f, x, v) == [y \in DOMAIN f \cup {x} |-> IF y = x THEN v ELSE f[y]]
Without(f, S) == [y \in DOMAIN f \ S |-> f[y]]

-----------------------------------------------------------------------------
(* The association.                                                        *)

\* Association::new.  Fields that are None until an INIT hold any number.
NewAssociation ==
  [state |-> "listen", cum |-> 0, nextTsn |-> InitialTsn,
   outCum |-> Plus(InitialTsn, -1), nextId |-> 0, nextRe |-> InitialTsn,
   peerRe |-> 0, channels |-> None, pending |-> None, reassembly |-> None,
   outstanding |-> None, abandoned |-> None, forward |-> {},
   forwardOk |-> FALSE]

\* What a step returns.  An error loses the packets and events gathered so
\* far, while the association keeps what has been changed.
Done(a, out, ev) == [a |-> a, out |-> out, ev |-> ev, ok |-> TRUE]
Error(a) == [a |-> a, out |-> {}, ev |-> <<>>, ok |-> FALSE]

\* The step f after the result r, unless r is an error.
Then(r, f(_)) ==
  LET s == f(r.a) IN
    CASE ~r.ok -> r
      [] r.ok /\ ~s.ok -> Error(s.a)
      [] OTHER -> Done(s.a, r.out \cup s.out, r.ev \o s.ev)

\* Both the chunks in flight and the span of their TSNs are bounded.
WindowFull(a, n) ==
  \/ Cardinality(DOMAIN a.outstanding) + n > MaxOutstanding
  \/ Dist(a.outCum, a.nextTsn) - 1 + n > MaxOutstanding

\* enqueue_message, for a message of n fragments.
EnqueueMessage(a, m, n) ==
  LET new == {Plus(a.nextTsn, i) : i \in 0 .. (n - 1)}
      chunk(t) == [type |-> "data", tsn |-> t]
      fresh(t) == [chunk |-> chunk(t), id |-> a.nextId, stream |-> m.stream,
                   ssn |-> m.ssn, ordered |-> m.ordered, rel |-> m.rel,
                   late |-> FALSE, expired |-> FALSE, tries |-> 0]
  IN IF WindowFull(a, n) THEN Error(a)
     ELSE Done([a EXCEPT !.nextTsn = Plus(@, n), !.nextId = @ + 1,
                  !.outstanding = [t \in DOMAIN @ \cup new |->
                     IF t \in new THEN fresh(t) ELSE @[t]]],
               {chunk(t) : t \in new}, <<>>)

\* send_message: the stream sequence is taken before the window is tested.
SendMessage(a, s, n) ==
  IF a.state # "up" \/ n > MaximumParts \/ s \notin DOMAIN a.channels
  THEN Error(a)
  ELSE LET c == a.channels[s] IN
       EnqueueMessage([a EXCEPT !.channels[s].next = @ + 1],
                      [stream |-> s, ssn |-> c.next,
                       ordered |-> c.ordered, rel |-> c.rel], n)

-----------------------------------------------------------------------------
(* Receiving.                                                              *)

\* handle_init: whatever the state, the association starts again.
HandleInit(a, c) ==
  Done([NewAssociation EXCEPT !.state = "cookie", !.cum = Plus(c.tsn, -1),
          !.peerRe = c.tsn, !.forwardOk = c.forwardOk],
       {[type |-> "initAck", forwardOk |-> c.forwardOk]}, <<>>)

\* handle_cookie_echo.
HandleCookieEcho(a) ==
  IF a.state # "cookie" THEN Error(a)
  ELSE Done([a EXCEPT !.state = "up"], {[type |-> "cookieAck"]}, <<>>)

\* build_sack: what has arrived beyond the cumulative TSN is a gap block.
BuildSack(a) == [type |-> "sack", cum |-> a.cum, gaps |-> DOMAIN a.pending]
Acknowledge(a) == Done(a, {BuildSack(a)}, <<>>)

\* handle_dcep: only OPEN is expected.  The channel is kept even if there is
\* no room to send the ACK.
HandleDcep(a, d) ==
  IF \/ d.stream % 2 # 0 \/ d.stream \in DOMAIN a.channels
     \/ Cardinality(DOMAIN a.channels) >= MaximumChannels
     \/ d.rel # "reliable" /\ ~a.forwardOk
  THEN Error(a)
  ELSE Then(EnqueueMessage(
              [a EXCEPT !.channels = Put(@, d.stream,
                 [ordered |-> d.ordered, rel |-> d.rel, next |-> 0])],
              [stream |-> d.stream, ssn |-> 0,
               ordered |-> TRUE, rel |-> "reliable"], 1),
            LAMBDA b : Done(b, {}, <<[type |-> "open",
                                      stream |-> d.stream]>>))

\* handle_user_message.
HandleUserMessage(a, d, payload) ==
  IF d.stream \notin DOMAIN a.channels \/ Len(payload) > MaximumParts
  THEN Error(a)
  ELSE Done(a, {}, <<[type |-> "message", payload |-> payload]>>)

\* process_data_message with reassemble.
ProcessDataMessage(a, d) ==
  LET part == <<d.msg, d.part>>
      old == IF d.begin THEN [ssn |-> d.ssn, kind |-> d.kind, parts |-> <<>>]
             ELSE a.reassembly[d.stream]
      known == d.begin \/ /\ d.stream \in DOMAIN a.reassembly
                          /\ a.reassembly[d.stream].ssn = d.ssn
                          /\ a.reassembly[d.stream].kind = d.kind
      whole(b, payload) == IF d.kind = "open" THEN HandleDcep(b, d)
                           ELSE HandleUserMessage(b, d, payload)
  IN CASE d.begin /\ d.end -> whole(a, <<part>>)
       [] ~(d.begin /\ d.end) /\ ~known -> Error(a)
       [] ~(d.begin /\ d.end) /\ known /\ Len(old.parts) >= MaximumParts ->
            Error([a EXCEPT !.reassembly = Without(@, {d.stream})])
       [] ~d.end /\ known /\ Len(old.parts) < MaximumParts ->
            Done([a EXCEPT !.reassembly = Put(@, d.stream,
                    [old EXCEPT !.parts = Append(@, part)])], {}, <<>>)
       [] OTHER -> whole([a EXCEPT !.reassembly = Without(@, {d.stream})],
                         Append(old.parts, part))

\* How many chunks in a row wait right behind the cumulative TSN.
Run(pending, cum) ==
  Max({n \in 0 .. Cardinality(DOMAIN pending) :
         \A i \in 1 .. n : Plus(cum, i) \in DOMAIN pending})

\* accept_data: the chunks that can be delivered now, in TSN order.
AcceptData(a, d) ==
  LET delta == Dist(a.cum, d.tsn)
      pending == IF d.tsn \in DOMAIN a.pending THEN a.pending
                 ELSE Put(a.pending, d.tsn, d)
      n == Run(pending, a.cum)
      ready == {Plus(a.cum, i) : i \in 1 .. n}
  IN IF delta = 0 \/ delta >= TsnMod \div 2
     THEN [a |-> a, ok |-> TRUE, list |-> <<>>]
     ELSE IF delta > MaxPendingTsn
     THEN [a |-> a, ok |-> FALSE, list |-> <<>>]
     ELSE [a |-> [a EXCEPT !.pending = Without(pending, ready),
                           !.cum = Plus(@, n)],
           ok |-> TRUE, list |-> [i \in 1 .. n |-> pending[Plus(a.cum, i)]]]

\* Mutant of HandleData: the last of the chunks is not processed.
HandleDataButLast(a, d) ==
  LET got == AcceptData(a, d) IN
    IF a.state # "up" \/ ~got.ok THEN Error(a)
    ELSE IF Len(got.list) < 2 THEN Acknowledge(got.a)
    ELSE Then(ProcessDataMessage(got.a, got.list[1]), Acknowledge)

\* handle_data: chunks are accepted first and processed after; an error in
\* one of them leaves the rest unprocessed.
HandleData(a, d) ==
  LET got == AcceptData(a, d) IN
    IF a.state # "up" \/ ~got.ok THEN Error(a)
    ELSE Then(FoldLeft(LAMBDA r, x :
                         Then(r, LAMBDA b : ProcessDataMessage(b, x)),
                       Done(got.a, {}, <<>>), got.list),
              Acknowledge)

\* The TSN t is acknowledged by the SACK c, cumulatively or in a gap block.
Covered(a, c, t) == SequenceLeq(t, c.cum) \/ t \in c.gaps

\* handle_sack.  Gap blocks release outstanding chunks, not abandoned ones.
HandleSack(a, c) ==
  Done([a EXCEPT
          !.outCum = IF SequenceLeq(c.cum, @) THEN @ ELSE c.cum,
          !.outstanding = Without(@, {t \in DOMAIN @ : Covered(a, c, t)}),
          !.abandoned = Without(@, {t \in DOMAIN @ : SequenceLeq(t, c.cum)}),
          !.forward = {f \in @ : ~SequenceLeq(f.cum, c.cum)}],
       {}, <<>>)

\* handle_forward_tsn, with the chunks it makes deliverable.
HandleForwardTsn(a, c) ==
  LET stale == {s \in DOMAIN a.reassembly :
                  \E k \in c.skipped :
                    k[1] = s /\ a.reassembly[s].ssn <= k[2]}
      pending == Without(a.pending,
                         {t \in DOMAIN a.pending : SequenceLeq(t, c.cum)})
      next(b) == pending[Plus(b.cum, 1)]
      step(b) == Then(ProcessDataMessage(
                        [b EXCEPT !.pending = Without(@, {next(b).tsn})],
                        next(b)),
                      LAMBDA e : Done([e EXCEPT !.cum = Plus(@, 1)],
                                      {}, <<>>))
  IN IF a.state # "up" \/ ~a.forwardOk THEN Error(a)
     ELSE IF SequenceLeq(c.cum, a.cum) THEN Acknowledge(a)
     ELSE Then(FoldLeft(LAMBDA r, i : Then(r, step),
                        Done([a EXCEPT !.cum = c.cum, !.pending = pending,
                                !.reassembly = Without(@, stale)], {}, <<>>),
                        [i \in 1 .. Run(pending, c.cum) |-> i]),
               Acknowledge)

\* close_streams, which handle_outgoing_reset and handle_incoming_reset share:
\* the channel goes at once, whatever is still under way on it.
CloseStream(a, s) ==
  Done([a EXCEPT !.channels = Without(@, {s}),
                 !.reassembly = IF s \in DOMAIN a.channels
                                THEN Without(@, {s}) ELSE @],
       {}, IF s \in DOMAIN a.channels
           THEN <<[type |-> "close", stream |-> s]>> ELSE <<>>)

\* handle_reconfiguration with one request of the peer.
HandleReconfiguration(a, c) ==
  LET answer(b, ok) ==
        Done(b, {[type |-> "reconfigAck", seq |-> c.seq, ok |-> ok]}, <<>>)
      reset(b) ==
        Done([b EXCEPT !.nextRe = Plus(@, 1)],
             {[type |-> "reset", seq |-> b.nextRe, stream |-> c.stream]},
             <<>>)
      closed == Then(Done([a EXCEPT !.peerRe = Plus(@, 1)], {}, <<>>),
                     LAMBDA b : CloseStream(b, c.stream))
  IN IF a.state # "up" THEN Error(a)
     ELSE IF c.seq # a.peerRe THEN answer(a, FALSE)
     ELSE IF c.incoming THEN Then(closed, reset)
     ELSE Then(closed, LAMBDA b : answer(b, TRUE))

\* handle_packet, one chunk.
HandleChunk(a, c) ==
  CASE c.type = "init" -> HandleInit(a, c)
    [] c.type = "cookieEcho" -> HandleCookieEcho(a)
    [] c.type = "data" -> HandleData(a, c)
    [] c.type = "sack" -> HandleSack(a, c)
    [] c.type = "heartbeat" -> Done(a, {[type |-> "heartbeatAck"]}, <<>>)
    [] c.type = "abort" -> Done([a EXCEPT !.state = "closed"], {}, <<>>)
    [] c.type = "shutdown" ->
         Done([a EXCEPT !.state = "closed"], {[type |-> "shutdownAck"]}, <<>>)
    [] c.type = "reset" -> HandleReconfiguration(a, c)
    [] c.type = "forwardTsn" -> HandleForwardTsn(a, c)

\* handle_packet: chunk by chunk, up to the first error.
HandlePacket(a, packet) ==
  FoldLeft(LAMBDA r, c : Then(r, LAMBDA b : HandleChunk(b, c)),
           Done(a, {}, <<>>), packet)

-----------------------------------------------------------------------------
(* The retransmission timer.                                               *)

\* build_forward_tsn: the longest run behind the acknowledged TSN with nothing
\* outstanding, if it holds an abandoned chunk.  late is forward.sent_at.
BuildForwardTsn(a) ==
  LET span == Dist(a.outCum, a.nextTsn) - 1
      n == Max({k \in 0 .. span : \A i \in 1 .. k :
                  Plus(a.outCum, i) \notin DOMAIN a.outstanding})
      over == {Plus(a.outCum, i) : i \in 1 .. n} \cap DOMAIN a.abandoned
      skipped == {<<a.abandoned[t].stream, a.abandoned[t].ssn>> :
                    t \in {u \in over : a.abandoned[u].ordered}}
      last == {k \in skipped : \A l \in skipped :
                 l[1] = k[1] => l[2] <= k[2]}
      new == [cum |-> Plus(a.outCum, n), skipped |-> last, late |-> FALSE]
      chunk == [type |-> "forwardTsn", cum |-> new.cum, skipped |-> last]
  IN IF over = {} \/ new \in a.forward THEN Done(a, {}, <<>>)
     ELSE Done([a EXCEPT !.forward = {new}], {chunk}, <<>>)

\* Resendings are counted as far as they are compared with anything.
Tried(n) == Min({n + 1, Max({MaxRetransmissions, PartialRetransmissions})})

\* tick, for one outstanding chunk: it is given up, resent or left alone.
GivesUp(o) == \/ o.rel = "retransmits" /\ o.late
                 /\ o.tries >= PartialRetransmissions
              \/ o.rel = "lifetime" /\ o.expired
Resends(o) == o.late /\ ~GivesUp(o)
Exhausted(o) == Resends(o) /\ o.rel = "reliable"
                /\ o.tries >= MaxRetransmissions

\* tick.  The chunks are visited in the numeric order of their TSNs; the first
\* exhausted one fails the association, and nothing is abandoned then.
Tick(a) ==
  LET o == a.outstanding
      failing == {t \in DOMAIN o : Exhausted(o[t])}
      resent == {t \in DOMAIN o :
                   Resends(o[t]) /\ \A f \in failing : t < f}
      gone == {t \in DOMAIN o :
                 \E u \in DOMAIN o : GivesUp(o[u]) /\ o[u].id = o[t].id}
      again == [t \in DOMAIN o |->
                  IF t \in resent THEN [o[t] EXCEPT !.late = FALSE,
                                                    !.tries = Tried(@)]
                  ELSE o[t]]
      packets == {o[t].chunk : t \in resent}
  IN CASE a.state # "up" -> Done(a, {}, <<>>)
       [] a.state = "up" /\ failing # {} ->
            Done([a EXCEPT !.state = "failed", !.outstanding = again],
                 packets, <<[type |-> "failed", tsn |-> Min(failing)]>>)
       [] OTHER ->
            Then(Done([a EXCEPT !.outstanding = Without(again, gone),
                         !.abandoned = [t \in DOMAIN @ \cup gone |->
                            IF t \in gone
                            THEN [stream |-> o[t].stream, ssn |-> o[t].ssn,
                                  ordered |-> o[t].ordered]
                            ELSE @[t]]],
                      packets, <<>>),
                 LAMBDA b : IF b.forwardOk THEN BuildForwardTsn(b)
                            ELSE Done(b, {}, <<>>))

-----------------------------------------------------------------------------
(* The system.                                                             *)

\* The TSN of the peer's i-th chunk, and its cumulative point from the TSNs
\* it has received or was told to skip.
PeerTsnOf(i) == Plus(PeerTsn, i - 1)
PeerCum(recv, from) ==
  Plus(from, Max({n \in 0 .. Cardinality(recv) :
                    \A i \in 1 .. n : Plus(from, i) \in recv}))

SctpInit ==
  /\ assoc = NewAssociation
  /\ peer \in {[phase |-> "closed", plan |-> p, next |-> 1, repeats |-> 0,
                acked |-> {}, given |-> {}, reset |-> {},
                cum |-> Plus(InitialTsn, -1), recv |-> {}] : p \in Scenarios}
  /\ toServer = {} /\ toPeer = {}
  /\ delivered = <<>> /\ sent = None /\ disturbed = {}

\* The effect of a result on the network and the histories.
ApplyPacket(r) ==
  /\ assoc' = r.a
  /\ toPeer' = toPeer \cup r.out
  /\ delivered' = delivered \o
       LET m == SelectSeq(r.ev, LAMBDA e : e.type = "message")
       IN [i \in 1 .. Len(m) |-> m[i].payload]
  /\ sent' = [t \in DOMAIN sent \cup DOMAIN r.a.outstanding |->
               IF t \in DOMAIN r.a.outstanding
               THEN r.a.outstanding[t].rel ELSE sent[t]]

\* A reset that overtakes data of the peer, an INIT that repeats an earlier
\* one, and a packet given up halfway leave the association and the peer
\* with different ideas of what has been delivered.
Disturbance(packet, r) ==
  UNION {IF packet[i].type = "reset" /\ packet[i].last # assoc.cum
         THEN {"reset"} ELSE {} : i \in DOMAIN packet}
  \cup (IF packet[1].type = "init" /\ assoc.state # "listen"
        THEN {"init"} ELSE {})
  \cup (IF ~r.ok /\ r.a.cum # assoc.cum THEN {"halfway"} ELSE {})

\* One datagram of the peer is handled.
ServerReceives(packet) ==
  /\ packet \in toServer
  /\ toServer' = toServer \ {packet}
  /\ LET r == HandlePacket(assoc, packet) IN
       ApplyPacket(r) /\ disturbed' = disturbed \cup Disturbance(packet, r)
  /\ UNCHANGED peer

\* The application sends a message of n fragments on stream s.
ServerSends(s, n) ==
  /\ assoc.state = "up" /\ s \in DOMAIN assoc.channels
  /\ assoc.channels[s].next < peer.plan.sends
  /\ ApplyPacket(SendMessage(assoc, s, n))
  /\ UNCHANGED <<peer, toServer, disturbed>>

\* The timer of the media node polls the association.
ServerTicks ==
  /\ \E t \in DOMAIN assoc.outstanding :
       assoc.outstanding[t].late \/ assoc.outstanding[t].expired
     \/ \E f \in assoc.forward : f.late
  /\ assoc.state = "up"
  /\ ApplyPacket(Tick(assoc))
  /\ UNCHANGED <<peer, toServer, disturbed>>

\* RETRANSMIT_AFTER passes, and so may the lifetime of some messages.
TimePasses(ids) ==
  /\ assoc.state = "up" /\ "timer" \in peer.plan.extras
  /\ assoc' = [assoc EXCEPT
       !.forward = {[f EXCEPT !.late = TRUE] : f \in @},
       !.outstanding = [t \in DOMAIN @ |->
          [@[t] EXCEPT !.late = TRUE,
             !.expired = @ \/ /\ assoc.outstanding[t].rel = "lifetime"
                              /\ assoc.outstanding[t].id \in ids]]]
  /\ assoc' # assoc
  /\ UNCHANGED <<peer, toServer, toPeer, delivered, sent, disturbed>>

-----------------------------------------------------------------------------
(* The peer, external: modelled by what the association expects of it.     *)

PeerPacket(packet) == toServer' = toServer \cup {packet}

PeerRepeats == /\ peer.repeats < peer.plan.repeats
               /\ peer' = [peer EXCEPT !.repeats = @ + 1]

\* INIT and COOKIE ECHO, repeated until they are answered.
PeerConnects ==
  /\ \/ /\ \/ peer.phase = "closed" /\ peer' = [peer EXCEPT !.phase = "init"]
           \/ peer.phase = "init" /\ PeerRepeats
        /\ PeerPacket(<<[type |-> "init", tsn |-> PeerTsn,
                         forwardOk |-> TRUE]>>)
     \/ /\ peer.phase = "cookie" /\ PeerRepeats
        /\ PeerPacket(<<[type |-> "cookieEcho"]>>)
  /\ UNCHANGED <<assoc, toPeer, delivered, sent, disturbed>>

\* DATA chunks i to j in one packet, new ones or not yet acknowledged ones.
PeerSends(i, j) ==
  /\ peer.phase = "up"
  /\ i <= j /\ j <= peer.next /\ j <= Len(peer.plan.script)
  /\ \A k \in i .. j : k \notin peer.acked \cup peer.given
                       /\ peer.plan.script[k].stream \notin peer.reset
  /\ \/ i < peer.next /\ j < peer.next /\ PeerRepeats
     \/ j = peer.next /\ peer' = [peer EXCEPT !.next = @ + 1]
  /\ PeerPacket([k \in 1 .. (j - i + 1) |->
       LET c == peer.plan.script[i + k - 1] IN
         [type |-> "data", tsn |-> PeerTsnOf(i + k - 1), kind |-> c.kind,
          stream |-> c.stream, ssn |-> c.ssn, msg |-> c.msg, part |-> c.part,
          begin |-> c.begin, end |-> c.end, ordered |-> c.ordered,
          rel |-> c.rel]])
  /\ UNCHANGED <<assoc, toPeer, delivered, sent, disturbed>>

\* The peer gives up a message of a partially reliable channel, and says so
\* once nothing before it is missing.
PeerGivesUp(i) ==
  LET whole == {k \in 1 .. Len(peer.plan.script) :
                  peer.plan.script[k].msg = peer.plan.script[i].msg}
      given == peer.given \cup whole
  IN /\ peer.phase = "up" /\ i < peer.next /\ i \notin peer.acked
     /\ peer.plan.script[i].kind = "user"
     /\ peer.plan.script[i].rel # "reliable"
     /\ \A k \in 1 .. Max(whole) : k \in peer.acked \cup given
     /\ peer' = [peer EXCEPT !.given = given, !.next = Max(whole \cup {@ - 1})
                                                       + 1]
     /\ PeerPacket(<<[type |-> "forwardTsn", cum |-> PeerTsnOf(Max(whole)),
                      skipped |-> {<<peer.plan.script[k].stream,
                                     peer.plan.script[k].ssn>> :
                                   k \in {l \in given :
                                            peer.plan.script[l].ordered}}]>>)
     /\ UNCHANGED <<assoc, toPeer, delivered, sent, disturbed>>

\* The peer closes a channel, in the way its last chunk has been sent.
PeerResets(s, incoming) ==
  /\ "reset" \in peer.plan.extras
  /\ peer.phase = "up" /\ peer.reset = {}
  /\ \A k \in 1 .. Len(peer.plan.script) :
       peer.plan.script[k].stream = s => k < peer.next
  /\ peer' = [peer EXCEPT !.reset = {s}]
  /\ PeerPacket(<<[type |-> "reset", seq |-> PeerTsn, stream |-> s,
                   incoming |-> incoming, last |-> PeerTsnOf(peer.next - 1)]>>)
  /\ UNCHANGED <<assoc, toPeer, delivered, sent, disturbed>>

\* HEARTBEAT, SHUTDOWN and ABORT.
PeerControls(type) ==
  /\ type \in peer.plan.extras
  /\ peer.phase = "up"
  /\ peer' = [peer EXCEPT !.phase = IF type = "heartbeat" THEN @ ELSE "down"]
  /\ PeerPacket(<<[type |-> type]>>)
  /\ UNCHANGED <<assoc, toPeer, delivered, sent, disturbed>>

\* The peer handles a chunk; DATA and FORWARD TSN are answered with a SACK.
PeerReceives(c) ==
  LET recv == peer.recv \cup (IF c.type = "data" THEN {c.tsn} ELSE {})
      from == IF c.type = "forwardTsn" /\ SequenceLeq(peer.cum, c.cum)
              THEN c.cum ELSE peer.cum
      cum == PeerCum(recv, from)
      beyond == {t \in recv : ~SequenceLeq(t, cum)}
  IN /\ c \in toPeer
     /\ toPeer' = toPeer \ {c}
     /\ \/ /\ c.type = "initAck" /\ peer.phase = "init"
           /\ peer' = [peer EXCEPT !.phase = "cookie"]
           /\ PeerPacket(<<[type |-> "cookieEcho"]>>)
        \/ /\ c.type = "cookieAck" /\ peer.phase = "cookie"
           /\ peer' = [peer EXCEPT !.phase = "up"]
           /\ UNCHANGED toServer
        \/ /\ c.type = "sack" /\ peer.phase = "up"
           /\ peer' = [peer EXCEPT !.acked = @ \cup
                {k \in 1 .. (peer.next - 1) :
                   \/ SequenceLeq(PeerTsnOf(k), c.cum)
                   \/ PeerTsnOf(k) \in c.gaps}]
           /\ UNCHANGED toServer
        \/ /\ c.type \in {"data", "forwardTsn"}
           /\ peer' = [peer EXCEPT !.recv = recv, !.cum = cum]
           /\ PeerPacket(<<[type |-> "sack", cum |-> cum, gaps |-> beyond]>>)
  /\ UNCHANGED <<assoc, delivered, sent, disturbed>>

ServerStreams == {0, 2}

SctpNext ==
  \/ \E packet \in toServer : ServerReceives(packet)
  \/ \E s \in ServerStreams, n \in Fragments : ServerSends(s, n)
  \/ ServerTicks
  \/ \E ids \in SUBSET {assoc.outstanding[t].id :
                          t \in {u \in DOMAIN assoc.outstanding :
                                   assoc.outstanding[u].rel = "lifetime"}} :
       TimePasses(ids)
  \/ PeerConnects
  \/ \E i, j \in 1 .. Len(peer.plan.script) : PeerSends(i, j)
  \/ \E i \in 1 .. Len(peer.plan.script) : PeerGivesUp(i)
  \/ \E s \in ServerStreams, incoming \in BOOLEAN : PeerResets(s, incoming)
  \/ \E type \in {"heartbeat", "shutdown", "abort"} : PeerControls(type)
  \/ \E c \in toPeer : PeerReceives(c)

SctpSpec == SctpInit /\ [][SctpNext]_sctpVars

-----------------------------------------------------------------------------
(* Properties.                                                             *)

SctpTypeOK ==
  /\ assoc.state \in {"listen", "cookie", "up", "closed", "failed"}
  /\ {assoc.cum, assoc.nextTsn, assoc.outCum} \subseteq 0 .. (TsnMod - 1)
  /\ DOMAIN assoc.channels \subseteq ServerStreams
  /\ Cardinality(DOMAIN assoc.channels) <= MaximumChannels
  /\ Cardinality(DOMAIN assoc.pending) <= MaxPendingTsn

\* Without disturbance every message handed to the application is one the peer
\* sent, whole, and messages come in the order of their sending, each once;
\* whatever was lost, reordered or resent.
DeliveredInOrder ==
  disturbed = {} =>
    \A i \in DOMAIN delivered :
      LET m == delivered[i][1][1]
          parts == {k \in DOMAIN peer.plan.script :
                      /\ peer.plan.script[k].msg = m
                      /\ peer.plan.script[k].kind = "user"}
      IN /\ Len(delivered[i]) = Cardinality(parts)
         /\ \A n \in DOMAIN delivered[i] : delivered[i][n] = <<m, n>>
         /\ \A j \in 1 .. (i - 1) : delivered[j][1][1] < m

\* What the cumulative acknowledgement covers has reached the application,
\* unless the peer gave it up: an acknowledged message is never lost inside
\* the association.
AcknowledgedIsDelivered ==
  disturbed = {} /\ assoc.state = "up" =>
    \A k \in DOMAIN peer.plan.script :
      (/\ peer.plan.script[k].end /\ peer.plan.script[k].kind = "user"
       /\ k < peer.next /\ SequenceLeq(PeerTsnOf(k), assoc.cum)
       /\ k \notin peer.given)
      => \E i \in DOMAIN delivered :
           delivered[i][1][1] = peer.plan.script[k].msg

\* A reliable chunk is forgotten only when the peer holds it, and no FORWARD
\* TSN ever moves the peer past one it does not hold.
ReliableIsKept ==
  "init" \notin disturbed =>
    \A t \in DOMAIN sent :
      sent[t] = "reliable" =>
        /\ t \in DOMAIN assoc.outstanding \cup peer.recv
        /\ SequenceLeq(t, peer.cum) => t \in peer.recv

\* The flight never spans more than MAX_OUTSTANDING numbers, however many
\* chunks in its middle are acknowledged or abandoned, and what is kept for
\* resending or skipping lies inside it.
FlightIsBounded ==
  "init" \notin disturbed =>
    LET span == Dist(assoc.outCum, assoc.nextTsn) - 1 IN
      /\ span <= MaxOutstanding
      /\ DOMAIN assoc.outstanding \cup DOMAIN assoc.abandoned
           \subseteq {Plus(assoc.outCum, i) : i \in 1 .. span}

\* The association loses, repeats and reorders nothing in either direction,
\* within its windows.
MessagesAreKept ==
  /\ SctpTypeOK /\ DeliveredInOrder /\ AcknowledgedIsDelivered
  /\ ReliableIsKept /\ FlightIsBounded
=============================================================================

---------------------------- MODULE MCTransport -----------------------------
(* What carries a room, side by side: the aggregate, its files, its        *)
(* signals with one writer, the tracks it shares, and what a media node    *)
(* does to packets and messages.  A behaviour is one of one of these; the  *)
(* rest stays as it began.                                                 *)
EXTENDS RoomLifecycle, RoomFiles, Signals, SharedTracks, Sctp,
        RelayBandwidth, SrtpStream, Timestamps, Congestion, Rtcp

CONSTANTS u1, u2, u3, k1, k2, k3, g1, g2, e1, e2, c1, c2, c3, r1, w1,
          s1, p1, h1, h2, x1, x2, y1, y2, o1, o2

\* The writer, the socket and the poller of the signals.
OneReplica == [x \in {w1, s1, p1} |-> r1]

Wish(critical, hls, decodes, transcodes) ==
  [critical |-> critical, hls |-> hls, decodes |-> decodes,
   transcodes |-> transcodes, valid |-> TRUE]

\* One of each outcome; the HLS fallback on a critical network.
MCWishes ==
  {Wish(TRUE, TRUE, TRUE, TRUE), Wish(FALSE, TRUE, TRUE, FALSE),
   Wish(FALSE, FALSE, FALSE, TRUE), Wish(TRUE, FALSE, FALSE, FALSE)}

-----------------------------------------------------------------------------
(* Scripts of an SCTP peer: reliable channels with whole and fragmented    *)
(* messages, and partially reliable ones.                                  *)

Data(kind_, s, ssn, m, p, begins, ends, rel) ==
  [kind |-> kind_, stream |-> s, ssn |-> ssn, msg |-> m, part |-> p,
   begin |-> begins, end |-> ends, ordered |-> TRUE, rel |-> rel]

Opening(rel) == Data("open", 0, 0, 0, 1, TRUE, TRUE, rel)
Whole(m, rel) == Data("user", 0, m, m, 1, TRUE, TRUE, rel)
Halves(m, rel) == <<Data("user", 0, m, m, 1, TRUE, FALSE, rel),
                    Data("user", 0, m, m, 2, FALSE, TRUE, rel)>>
Plan(script, repeats, sends, extras) ==
  [script |-> script, repeats |-> repeats, sends |-> sends,
   extras |-> extras]

ScenariosDef ==
  {Plan(<<Opening("reliable"), Whole(1, "reliable")>>, 2, 0,
        {"heartbeat", "shutdown"}),
   Plan(<<Opening("reliable")>> \o Halves(1, "reliable"), 0, 0, {"reset"}),
   Plan(<<Opening("reliable")>> \o Halves(1, "reliable")
          \o <<Whole(2, "reliable")>>, 0, 0, {}),
   Plan(<<Opening("lifetime")>> \o Halves(1, "lifetime"), 0, 0, {}),
   Plan(<<Opening("lifetime")>>, 0, 1, {"timer"}),
   Plan(<<Opening("lifetime")>>, 0, 2, {}),
   Plan(<<Opening("retransmits")>>, 0, 1, {"timer", "abort"})}
FragmentsDef == {1, 2}

MCOptions == {<<3, 5>>}

-----------------------------------------------------------------------------
(* RTCP compounds of one or two packets of every kind, with the boundary   *)
(* values of their fields.                                                 *)

Block(count) == [ssrc |-> 258, fraction |-> 255, lost |-> count,
                 highest |-> 65536, jitter |-> 0, lsr |-> 1, dlsr |-> 2]
Sr(blocks) == [kind |-> "SR", ssrc |-> 1, ntp |-> 70000, rtp |-> 3, sent |-> 4,
               octets |-> 5, reports |-> blocks]
Rr(blocks) == [kind |-> "RR", ssrc |-> 128, reports |-> blocks]
Item(n) == [type |-> 1, value |-> [i \in 1 .. n |-> i % 2]]
Sdes(chunks) == [kind |-> "SDES", chunks |-> chunks]
Source(items) == [ssrc |-> 2, items |-> items]
Twcc(statuses, reference) ==
  [kind |-> "TWCC", ssrc |-> 1, media |-> 2, base |-> 65535,
   reference |-> reference, feedback |-> 255, statuses |-> statuses]
Raw(n) == [kind |-> "Raw", count |-> 31, type |-> 204,
           body |-> [i \in 1 .. n |-> 128]]

Lost == <<>>
Small(d) == <<"small", d>>
Large(d) == <<"large", d>>
Copies(n, status) == [i \in 1 .. n |-> status]

Samples ==
  {Sr(<<>>), Sr(<<Block(-1)>>), Rr(<<>>), Rr(<<Block(2 ^ 23 - 1), Block(0)>>),
   Rr(<<Block(2 ^ 23)>>),
   Sdes(<<>>), Sdes(<<Source(<<>>)>>), Sdes(<<Source(<<Item(2), Item(0)>>)>>),
   Sdes(<<Source(<<Item(3)>>), Source(<<Item(1)>>)>>),
   [kind |-> "PLI", ssrc |-> 1, media |-> 2],
   [kind |-> "NACK", ssrc |-> 1, media |-> 2, entries |-> <<>>],
   Raw(0), Raw(5)}
    \cup {PeerNack(first, offsets) : first \in {7, 65534},
                                     offsets \in SUBSET {1, 2, 16}}
    \cup {Twcc(s, -1) : s \in UNION {[1 .. n -> {Lost, Small(0), Large(-2)}] :
                                       n \in 0 .. 3}}
    \cup {Twcc(s, 2 ^ 23 - 1) :
            s \in {Copies(7, Small(200)), Copies(8, Large(-1)),
                   Copies(14, Lost), Copies(15, Small(0)),
                   Copies(7, Lost) \o Copies(8, Small(1))}}
    \cup {Twcc(<<Lost>>, 2 ^ 23)}

\* Every packet alone, and the kinds beside each other.
Beside == {Sr(<<Block(-1)>>), Sdes(<<Source(<<Item(2), Item(0)>>)>>), Raw(5),
           PeerNack(65534, {2}), Twcc(<<Small(0), Large(-2), Lost>>, -1)}
MCCompounds ==
  {<<p>> : p \in Samples} \cup {<<p, q>> : p \in Beside, q \in Beside}

-----------------------------------------------------------------------------

VARIABLE part

Parts == {"lifecycle", "files", "signals", "shared", "sctp", "relay",
          "srtp", "timestamps", "congestion", "rtcp"}

Init ==
  /\ part \in Parts
  /\ LifecycleInit /\ FilesInit /\ SignalsInit /\ BandwidthInit
  /\ SharedInit /\ (part # "shared" => ~registered)
  /\ SctpInit /\ (part # "sctp" => peer.plan = CHOOSE p \in Scenarios : TRUE)
  /\ SrtpInit /\ (part # "srtp" => next = 0 /\ kind = "rtp")
  /\ TimeInit /\ (part # "timestamps" =>
                    bases.output = 0 /\ \A e \in Encodings : origin[e] = 0)
  /\ CongestionInit /\ (part # "congestion" => aim = 1)
  /\ RtcpInit /\ (part # "rtcp" => packets = <<Raw(0)>>)

RestStays ==
  /\ UNCHANGED part
  /\ part # "lifecycle" => UNCHANGED lifecycleVars
  /\ part # "files" => UNCHANGED filesVars
  /\ part # "signals" => UNCHANGED signalsVars
  /\ part # "shared" => UNCHANGED sharedVars
  /\ part # "sctp" => UNCHANGED sctpVars
  /\ part # "relay" => UNCHANGED bandwidthVars
  /\ part # "srtp" => UNCHANGED srtpVars
  /\ part # "timestamps" => UNCHANGED timeVars
  /\ part # "congestion" => UNCHANGED congestionVars
  /\ part # "rtcp" => UNCHANGED rtcpVars

\* A component that may be done may also stay as it is.
Next ==
  \/ /\ part = "lifecycle" /\ (LifecycleNext \/ UNCHANGED lifecycleVars)
     /\ RestStays
  \/ part = "files" /\ FilesNext /\ RestStays
  \/ part = "signals" /\ SignalsNext /\ RestStays
  \/ part = "shared" /\ SharedNext /\ RestStays
  \/ part = "sctp" /\ (SctpNext \/ UNCHANGED sctpVars) /\ RestStays
  \/ part = "relay" /\ (BandwidthNext \/ UNCHANGED bandwidthVars) /\ RestStays
  \/ part = "srtp" /\ (SrtpNext \/ UNCHANGED srtpVars) /\ RestStays
  \/ part = "timestamps" /\ TimeNext /\ RestStays
  \/ part = "congestion" /\ CongestionNext /\ RestStays
  \/ part = "rtcp" /\ RtcpNext /\ RestStays

Spec == /\ Init
        /\ [][Next]_<<lifecycleVars, filesVars, signalsVars, sharedVars,
                      sctpVars, bandwidthVars, srtpVars, timeVars,
                      congestionVars, rtcpVars, part>>
=============================================================================

----------------------------- MODULE SrtpStream -----------------------------
(***************************************************************************)
(* One protected stream: a down-track of the SFU numbers its packets,      *)
(* keeps the last of them for retransmission, and hands each to the SRTP   *)
(* context of the subscriber's session; an SRTP context at the far end     *)
(* recovers the index of what arrives and refuses what it has seen         *)
(* (crates/webrtc/srtp/src/{context,replay}.rs and                         *)
(* crates/webrtc/sfu-core/src/down_track.rs).                              *)
(*                                                                         *)
(* An RTP packet carries the low 16 bits of its index only; the upper bits *)
(* (the rollover counter) are estimated at both ends from the highest      *)
(* index seen, and the tag covers them, so that a wrong estimate fails     *)
(* authentication.  An RTCP packet carries its 31-bit index in full.       *)
(*                                                                         *)
(* The network loses, delays, reorders and repeats packets.                *)
(***************************************************************************)
EXTENDS Integers, FiniteSets, Sequences

CONSTANTS
  Modulus,      \* 2^16
  Window,       \* width of the replay window: 64
  MaxIndex,     \* MAX_SRTP_INDEX
  MaxControl,   \* MAX_SRTCP_INDEX
  CachePackets, \* retransmission_cache_packets
  MaxSent       \* bound: packets forwarded

ASSUME SrtpAssumption ==
  /\ Modulus \in Nat \ {0} /\ Window \in Nat \ {0}
  /\ 2 * Window <= Modulus
  /\ MaxIndex \in Nat /\ MaxControl \in Nat
  /\ CachePackets \in Nat /\ MaxSent \in Nat

NoIndex == -1

VARIABLES
  next,      \* next_sequence_number of the down-track
  sentCache, \* its cache, oldest first
  forwarded, \* packets forwarded so far; the number is the payload
  keyed,     \* the session has its SRTP context
  highest,   \* OutboundRtpState::highest_index
  network,   \* protected packets on their way, for good
  window,    \* the ReplayWindow of inbound_rtp or inbound_rtcp
  accepted,  \* history: the indexes unprotected, with how often
  kind,      \* "rtp" or "rtcp"; the contexts keep their state apart
  control,   \* outbound_rtcp_index
  unserved   \* history: a cached packet was asked for and not sent

down      == <<next, sentCache, forwarded>>
srtpVars  == <<down, keyed, highest, network, window, accepted, kind,
               control, unserved>>

-----------------------------------------------------------------------------
(* replay.rs.                                                              *)

\* estimate_index: the cycle that brings the number nearest to the highest.
EstimateIndex(high, sequence) ==
  LET half == Modulus \div 2
      candidate == high - (high % Modulus) + sequence
  IN  IF high = NoIndex THEN sequence
      ELSE IF candidate + half < high THEN candidate + Modulus
      ELSE IF candidate > high + half /\ candidate >= Modulus
      THEN candidate - Modulus
      ELSE candidate

EmptyWindow == [max |-> NoIndex, seen |-> {}]

\* ReplayWindow::check.  The bitmap is the set of its bits.
Fresh(w, index) ==
  \/ index > w.max
  \/ w.max - index < Window /\ w.max - index \notin w.seen

\* Mutant of Accept: an advance clears the bitmap.
AcceptCleared(w, index) ==
  IF index > w.max THEN [max |-> index, seen |-> {0}]
  ELSE [w EXCEPT !.seen = @ \cup {w.max - index}]

\* ReplayWindow::accept.
Accept(w, index) ==
  IF w.max = NoIndex THEN [max |-> index, seen |-> {0}]
  ELSE IF index > w.max
  THEN [max |-> index,
        seen |-> {0} \cup {d \in 0 .. Window - 1 :
                             d - (index - w.max) \in w.seen}]
  ELSE [max |-> w.max, seen |-> w.seen \cup {w.max - index}]

-----------------------------------------------------------------------------
(* The sending end.                                                        *)

SrtpInit ==
  /\ next \in 0 .. Modulus - 1
  /\ sentCache = <<>> /\ forwarded = 0 /\ keyed = FALSE
  /\ highest = NoIndex /\ network = {}
  /\ window = EmptyWindow /\ accepted = [i \in {} |-> 0]
  /\ kind \in {"rtp", "rtcp"} /\ control = 0
  /\ unserved = FALSE

Counted(seen, i) ==
  [j \in DOMAIN seen \cup {i} |->
     IF j = i THEN (IF i \in DOMAIN seen THEN seen[i] + 1 ELSE 1)
              ELSE seen[j]]

\* OutboundRtpState::advance does not refuse the number.
MayAdvance(sequence) ==
  LET index == EstimateIndex(highest, sequence)
  IN  keyed /\ index > highest /\ index <= MaxIndex

\* SrtpContext::protect_rtp and the send that follows it.
Protect(packet) ==
  LET index == EstimateIndex(highest, packet.sequence)
  IN  /\ highest' = index
      /\ network' = network \cup
           {[sequence |-> packet.sequence, index |-> index,
             payload |-> packet.payload]}

\* DownTrack::cache, at its capacity.
Cached(packet) ==
  LET all == Append(sentCache, packet)
  IN  IF Len(all) > CachePackets THEN Tail(all) ELSE all

\* DownTrack::forward of an input packet, and send_sfu_routes; without keys,
\* or past the last index, the packet is dropped.
Forward ==
  LET packet == [sequence |-> next, payload |-> forwarded + 1]
  IN  /\ kind = "rtp" /\ forwarded < MaxSent
      /\ forwarded' = forwarded + 1
      /\ next' = (next + 1) % Modulus
      /\ sentCache' = Cached(packet)
      /\ IF MayAdvance(next) THEN Protect(packet)
         ELSE UNCHANGED <<highest, network>>
      /\ UNCHANGED <<keyed, window, accepted, kind, control, unserved>>

\* install_dtls_keying_material.
InstallContext ==
  /\ ~keyed
  /\ keyed' = TRUE
  /\ UNCHANGED <<down, highest, network, window, accepted, kind, control,
                 unserved>>

\* The subscription is replaced by one with the same SSRC, at a number of
\* the subscriber's choice; the context of the session stays.
Resubscribe(start) ==
  /\ kind = "rtp"
  /\ next' = start /\ sentCache' = <<>>
  /\ UNCHANGED <<forwarded, keyed, highest, network, window, accepted, kind,
                 control, unserved>>

\* DownTrack::expire_cache.
ExpireCache ==
  /\ sentCache # <<>>
  /\ sentCache' = Tail(sentCache)
  /\ UNCHANGED <<next, forwarded, keyed, highest, network, window, accepted,
                 kind, control, unserved>>

\* Room::handle_rtcp with a NACK, DownTrack::retransmit and
\* send_sfu_routes, for a packet of the cache.
Retransmit(k) ==
  LET packet == sentCache[k]
  IN  /\ IF MayAdvance(packet.sequence)
         THEN Protect(packet) /\ UNCHANGED unserved
         ELSE /\ unserved' = (unserved \/ keyed)
              /\ UNCHANGED <<highest, network>>
      /\ UNCHANGED <<down, keyed, window, accepted, kind, control>>

\* SrtpContext::protect_rtcp.
ProtectRtcp ==
  /\ kind = "rtcp" /\ keyed /\ control <= MaxControl
  /\ control' = control + 1
  /\ network' = network \cup {[index |-> control, payload |-> control]}
  /\ UNCHANGED <<down, keyed, highest, window, accepted, kind, unserved>>

-----------------------------------------------------------------------------
(* The receiving end.                                                      *)

\* The packet passes the replay check and the tag, which covers the upper
\* bits of the index it was protected with.
Unprotects(packet) ==
  LET index == EstimateIndex(window.max, packet.sequence)
  IN  Fresh(window, index) /\ index = packet.index

\* SrtpContext::unprotect_rtp.
UnprotectRtp(packet) ==
  /\ kind = "rtp" /\ packet \in network /\ Unprotects(packet)
  /\ window' = Accept(window, packet.index)
  /\ accepted' = Counted(accepted, packet.index)
  /\ UNCHANGED <<down, keyed, highest, network, kind, control, unserved>>

\* SrtpContext::unprotect_rtcp.
UnprotectRtcp(packet) ==
  /\ kind = "rtcp" /\ packet \in network /\ Fresh(window, packet.index)
  /\ window' = Accept(window, packet.index)
  /\ accepted' = Counted(accepted, packet.index)
  /\ UNCHANGED <<down, keyed, highest, network, kind, control, unserved>>

SrtpNext ==
  \/ Forward \/ InstallContext \/ ExpireCache \/ ProtectRtcp
  \/ \E s \in 0 .. Modulus - 1 : Resubscribe(s)
  \/ \E k \in 1 .. Len(sentCache) : Retransmit(k)
  \/ \E p \in network : UnprotectRtp(p) \/ UnprotectRtcp(p)

SrtpSpec == SrtpInit /\ [][SrtpNext]_srtpVars

-----------------------------------------------------------------------------
(* Properties.                                                             *)

SrtpTypeOK ==
  /\ next \in 0 .. Modulus - 1
  /\ Len(sentCache) <= CachePackets
  /\ highest \in NoIndex .. MaxIndex
  /\ kind = "rtcp" => \A p \in network : p.index <= MaxControl
  /\ window.seen \subseteq 0 .. Window - 1

\* The keystream of an index encrypts one packet: whatever a down-track, its
\* retransmissions and its replacement hand to the context, no index
\* protects two payloads.
KeystreamIsUsedOnce ==
  \A p, q \in network : p.index = q.index => p = q

\* unprotect_rtp and unprotect_rtcp "replay-check": no index is unprotected
\* twice, in whatever order and however often packets arrive.
AcceptedOnce == \A i \in DOMAIN accepted : accepted[i] = 1

\* Nor is a good packet refused: one that has not been unprotected, is not
\* older than the window and not half a cycle ahead passes, across a
\* rollover too.
WindowIsExact ==
  kind = "rtp" => \A p \in network :
    /\ p.index \notin DOMAIN accepted
    /\ IF window.max = NoIndex THEN p.index < Modulus
       ELSE /\ window.max - p.index < Window
            /\ p.index - window.max < Modulus \div 2
    => Unprotects(p)

\* ControlOutput::retransmissions, "Clear cached packets that should be
\* re-protected and retransmitted": a cached packet that is asked for is
\* sent again.
NacksAreServed == ~unserved

\* Every index is used once by the sender and accepted once by the receiver,
\* which refuses nothing else.
IndicesAreUsedOnce ==
  /\ SrtpTypeOK /\ KeystreamIsUsedOnce /\ AcceptedOnce /\ WindowIsExact
=============================================================================

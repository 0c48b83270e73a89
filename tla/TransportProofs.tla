-------------------------- MODULE TransportProofs --------------------------
(***************************************************************************)
(* Proofs about the media transport.                                       *)
(*                                                                         *)
(* SrtpStream, for every modulus, window width, index limit and cache: no  *)
(* index is unprotected twice, no index protects two packets, and a packet *)
(* that is neither too old nor half a cycle ahead is recovered.            *)
(*                                                                         *)
(* RelayBandwidth: the bound of BandwidthLimiter, for every rate, clock    *)
(* and datagram size.                                                      *)
(***************************************************************************)
EXTENDS SrtpStream, RelayBandwidth, TLAPS

-----------------------------------------------------------------------------
(* SrtpStream.                                                             *)

Packets == [sequence : 0 .. Modulus - 1, payload : Int]
Windows == [max : Int, seen : SUBSET (0 .. Window - 1)]

\* What the variables hold.
SrtpTypes ==
  /\ next \in 0 .. Modulus - 1 /\ forwarded \in Int
  /\ sentCache \in Seq(Packets) /\ Len(sentCache) <= CachePackets
  /\ kind = "rtcp" => sentCache = <<>>
  /\ highest \in NoIndex .. MaxIndex
  /\ control \in 0 .. MaxControl + 1
  /\ kind \in {"rtp", "rtcp"}
  /\ window \in Windows /\ window.max >= NoIndex

\* The index has the 16 bits that the packet carries.
Carried(index, sequence) == \E c \in Int : index = c * Modulus + sequence

\* The sender is past every index on the network, and the packets carry the
\* low bits of theirs.
SenderIsAhead ==
  \A p \in network :
    /\ p.index \in Nat
    /\ kind = "rtp" => /\ p.index <= highest
                       /\ p.sequence \in 0 .. Modulus - 1
                       /\ Carried(p.index, p.sequence)
    /\ kind = "rtcp" => p.index < control

\* The window remembers every index unprotected that is not too old, and
\* nothing else.
WindowRemembers ==
  /\ \A i \in DOMAIN accepted :
       /\ i \in Nat /\ i <= window.max /\ accepted[i] = 1
       /\ window.max - i < Window => window.max - i \in window.seen
  /\ \A d \in window.seen : window.max - d \in DOMAIN accepted

SrtpInv ==
  SrtpTypes /\ SenderIsAhead /\ WindowRemembers /\ KeystreamIsUsedOnce

USE DEF NoIndex

\* An integer and its last bits.
LEMMA Division ==
  ASSUME NEW high \in Int
  PROVE  \E q \in Int, r \in 0 .. Modulus - 1 :
           high = q * Modulus + r /\ high % Modulus = r
<1>1. ASSUME NEW h \in Int, NEW m \in Nat, m > 0
      PROVE  \E q \in Int, r \in 0 .. m - 1 : h = q * m + r /\ h % m = r
  BY <1>1
<1> QED
  BY <1>1, SrtpAssumption

\* Multiples of the modulus add up.
LEMMA Distributes ==
  ASSUME NEW q \in Int, NEW c \in Int
  PROVE  /\ q * Modulus \in Int /\ (c - q) * Modulus \in Int
         /\ (q + 1) * Modulus = q * Modulus + Modulus
         /\ (q - 1) * Modulus = q * Modulus - Modulus
         /\ (c - q) * Modulus = c * Modulus - q * Modulus
  BY SrtpAssumption

\* The window is at most half a cycle.
LEMMA Halves ==
  /\ Modulus \div 2 \in Nat /\ 2 * (Modulus \div 2) <= Modulus
  /\ Modulus <= 2 * (Modulus \div 2) + 1 /\ Window <= Modulus \div 2
  BY SrtpAssumption

\* Multiples of the modulus lie a modulus apart.
LEMMA Multiples ==
  ASSUME NEW k \in Int
  PROVE  /\ k * Modulus \in Int
         /\ k = 0 => k * Modulus = 0
         /\ k = 1 => k * Modulus = Modulus
         /\ k = -1 => k * Modulus = -Modulus
         /\ k >= 2 => k * Modulus >= 2 * Modulus
         /\ k <= -2 => k * Modulus <= -2 * Modulus
  BY SrtpAssumption

\* estimate_index keeps the bits that the packet carries.
LEMMA EstimateCarries ==
  ASSUME NEW high \in Int, NEW sequence \in 0 .. Modulus - 1
  PROVE  /\ EstimateIndex(high, sequence) \in Int
         /\ Carried(EstimateIndex(high, sequence), sequence)
<1> DEFINE candidate == high - (high % Modulus) + sequence
<1>1. PICK q \in Int, r \in 0 .. Modulus - 1 :
        high = q * Modulus + r /\ high % Modulus = r
  BY Division
<1>2. /\ q * Modulus \in Int /\ r \in Int /\ Modulus \in Int
      /\ sequence \in Int
  BY <1>1, Distributes, SrtpAssumption
<1>3. candidate = q * Modulus + sequence /\ candidate \in Int
  BY <1>1, <1>2
<1>5. /\ sequence = 0 * Modulus + sequence
      /\ candidate + Modulus = (q + 1) * Modulus + sequence
      /\ candidate - Modulus = (q - 1) * Modulus + sequence
  BY <1>2, <1>3, Distributes
<1>4. EstimateIndex(high, sequence)
        \in {sequence, candidate, candidate + Modulus, candidate - Modulus}
  BY DEF EstimateIndex
<1> HIDE DEF candidate
<1>6. q + 1 \in Int /\ q - 1 \in Int
  BY <1>1
<1>7. /\ Carried(sequence, sequence) /\ Carried(candidate, sequence)
      /\ Carried(candidate + Modulus, sequence)
      /\ Carried(candidate - Modulus, sequence)
  BY <1>1, <1>3, <1>5, <1>6 DEF Carried
<1> QED
  BY <1>2, <1>3, <1>4, <1>7

\* estimate_index recovers an index that is less than half a cycle from the
\* highest one, on either side of a rollover.
LEMMA EstimateIsExact ==
  ASSUME NEW high \in Nat, NEW index \in Nat,
         NEW sequence \in 0 .. Modulus - 1, Carried(index, sequence),
         high - index < Modulus \div 2, index - high < Modulus \div 2
  PROVE  EstimateIndex(high, sequence) = index
<1>a. high \in Int
  OBVIOUS
<1>0. PICK q \in Int, r \in 0 .. Modulus - 1 :
        high = q * Modulus + r /\ high % Modulus = r
  BY <1>a, Division, Zenon
<1> DEFINE half == Modulus \div 2
           candidate == high - r + sequence
<1>1. PICK c \in Int : index = c * Modulus + sequence
  BY DEF Carried
<1> DEFINE k == c - q
<1>2. /\ q \in Int /\ r \in 0 .. Modulus - 1 /\ k \in Int
      /\ Modulus \in Int /\ sequence \in Int /\ c \in Int
      /\ sequence \in 0 .. Modulus - 1
  BY <1>0, <1>1, SrtpAssumption
<1>3. /\ k * Modulus = c * Modulus - q * Modulus
      /\ q * Modulus \in Int /\ c * Modulus \in Int
  BY <1>2, Distributes
<1>5. candidate \in Int /\ index = candidate + k * Modulus
  BY <1>0, <1>1, <1>2, <1>3
<1>6. high # -1 /\ EstimateIndex(high, sequence) =
        IF candidate + half < high THEN candidate + Modulus
        ELSE IF candidate > high + half /\ candidate >= Modulus
        THEN candidate - Modulus ELSE candidate
  BY <1>0 DEF EstimateIndex
<1>7. candidate - high <= Modulus - 1 /\ high - candidate <= Modulus - 1
  BY <1>2
<1>8. half \in Int /\ 2 * half <= Modulus /\ Modulus <= 2 * half + 1
  BY Halves
<1>9. high - index < half /\ index - high < half
  OBVIOUS
<1> HIDE DEF half, candidate, k
<1>10. k \in {-1, 0, 1}
  <2>1. ~(k >= 2)
    BY <1>2, <1>5, <1>7, <1>8, <1>9, Multiples
  <2>2. ~(k <= -2)
    BY <1>2, <1>5, <1>7, <1>8, <1>9, Multiples
  <2> QED
    BY <1>2, <2>1, <2>2
<1>11. CASE k = 0
  <2>1. index = candidate
    BY <1>5, <1>11, Multiples
  <2> QED
    BY <2>1, <1>6, <1>8, <1>9
<1>12. CASE k = 1
  <2>1. index = candidate + Modulus
    BY <1>5, <1>12, Multiples
  <2>2. candidate + half < high
    BY <2>1, <1>2, <1>5, <1>8, <1>9
  <2> QED
    BY <2>1, <2>2, <1>6
<1>13. CASE k = -1
  <2>1. index = candidate - Modulus
    BY <1>5, <1>13, <1>2, Multiples
  <2>2. candidate > high + half /\ candidate >= Modulus
        /\ ~(candidate + half < high)
    BY <2>1, <1>2, <1>5, <1>8, <1>9
  <2> QED
    BY <2>1, <2>2, <1>6
<1> QED
  BY <1>10, <1>11, <1>12, <1>13

\* ReplayWindow::accept of a fresh index: the window still remembers all
\* that it must, the index included, and nothing else.
LEMMA AcceptRemembers ==
  ASSUME NEW index \in Nat, Fresh(window, index),
         SrtpTypes, WindowRemembers,
         window' = Accept(window, index),
         accepted' = Counted(accepted, index)
  PROVE  WindowRemembers' /\ window' \in Windows /\ window'.max >= NoIndex
<1> DEFINE w == window
<1>1. /\ w \in Windows /\ w.max \in Int /\ w.seen \subseteq 0 .. Window - 1
      /\ w.max >= -1
  BY DEF SrtpTypes, Windows
<1>2. index \notin DOMAIN accepted
  BY <1>1 DEF Fresh, WindowRemembers
<1>3. /\ DOMAIN accepted' = DOMAIN accepted \cup {index}
      /\ accepted'[index] = 1
      /\ \A i \in DOMAIN accepted : accepted'[i] = accepted[i]
  BY <1>2 DEF Counted
<1>4. CASE w.max = NoIndex
  <2>1. DOMAIN accepted = {}
    <3>1. ASSUME NEW i \in DOMAIN accepted PROVE FALSE
      <4>1. i \in Nat /\ i <= w.max
        BY DEF WindowRemembers
      <4> QED
        BY <1>4, <4>1
    <3> QED
      BY <3>1
  <2>2. window' = [max |-> index, seen |-> {0}]
    BY <1>4 DEF Accept
  <2>3. window'.max = index /\ window'.seen = {0} /\ window' \in Windows
    BY <2>2, SrtpAssumption DEF Windows
  <2> QED
    BY <1>3, <2>1, <2>3 DEF WindowRemembers
<1>5. CASE w.max # NoIndex /\ index > w.max
  <2> DEFINE kept == {d \in 0 .. Window - 1 : d - (index - w.max) \in w.seen}
  <2>1. window' = [max |-> index, seen |-> {0} \cup kept]
    BY <1>5 DEF Accept
  <2>2. window'.max = index /\ window'.seen = {0} \cup kept
        /\ window' \in Windows
    BY <2>1, SrtpAssumption DEF Windows
  <2>3. ASSUME NEW i \in DOMAIN accepted
        PROVE  /\ i \in Nat /\ i <= index
               /\ index - i < Window => index - i \in window'.seen
    <3>1. i \in Nat /\ i <= w.max
          /\ (w.max - i < Window => w.max - i \in w.seen)
      BY <2>3 DEF WindowRemembers
    <3>2. i <= index
      BY <3>1, <1>1, <1>5
    <3>3. ASSUME index - i < Window
          PROVE  index - i \in window'.seen
      <4>1. index - i \in 0 .. Window - 1 /\ w.max - i < Window
        BY <3>1, <3>2, <3>3, <1>1, <1>5, SrtpAssumption
      <4>2. (index - i) - (index - w.max) = w.max - i
        BY <3>1, <1>1
      <4> QED
        BY <4>1, <4>2, <3>1, <2>2
    <3> QED
      BY <3>1, <3>2, <3>3
  <2>4. ASSUME NEW d \in window'.seen
        PROVE  index - d \in DOMAIN accepted'
    <3>1. CASE d = 0
      BY <3>1, <1>3
    <3>2. CASE d \in kept
      <4>1. d \in Int /\ w.max - (d - (index - w.max)) = index - d
        BY <3>2, <1>1, SrtpAssumption
      <4> QED
        BY <3>2, <4>1, <1>3 DEF WindowRemembers
    <3> QED
      BY <2>2, <3>1, <3>2
  <2> QED
    BY <1>3, <2>2, <2>3, <2>4 DEF WindowRemembers
<1>6. CASE w.max # NoIndex /\ ~(index > w.max)
  <2>1. window' = [max |-> w.max, seen |-> w.seen \cup {w.max - index}]
    BY <1>6 DEF Accept
  <2>2. w.max - index \in 0 .. Window - 1
    BY <1>1, <1>6, SrtpAssumption DEF Fresh
  <2>3. window'.max = w.max /\ window'.seen = w.seen \cup {w.max - index}
        /\ window' \in Windows
    BY <2>1, <2>2, <1>1 DEF Windows
  <2>4. w.max - (w.max - index) = index
    BY <1>1
  <2> QED
    BY <1>1, <1>3, <1>6, <2>3, <2>4 DEF WindowRemembers
<1> QED
  BY <1>4, <1>5, <1>6

\* protect_rtp of a packet that advance does not refuse: its index is new.
LEMMA ProtectIsFresh ==
  ASSUME SrtpInv, NEW packet \in Packets, MayAdvance(packet.sequence),
         Protect(packet), kind = "rtp", kind' = kind, control' = control
  PROVE  SenderIsAhead' /\ KeystreamIsUsedOnce'
         /\ highest' \in NoIndex .. MaxIndex
<1> DEFINE index == EstimateIndex(highest, packet.sequence)
           new == [sequence |-> packet.sequence, index |-> index,
                   payload |-> packet.payload]
<1>1. /\ packet.sequence \in 0 .. Modulus - 1
      /\ highest \in Int /\ highest >= -1
  BY SrtpAssumption DEF SrtpInv, SrtpTypes, Packets
<1>2. index \in Int /\ Carried(index, packet.sequence)
  BY <1>1, EstimateCarries
<1>3. index > highest /\ index <= MaxIndex
  BY DEF MayAdvance
<1>4. highest' = index /\ network' = network \cup {new}
  BY DEF Protect
<1>5. new.index = index /\ new.sequence = packet.sequence
  OBVIOUS
<1> HIDE DEF index, new
<1>6. \A p \in network :
        /\ p.index \in Nat /\ p.index <= highest
        /\ p.sequence \in 0 .. Modulus - 1 /\ Carried(p.index, p.sequence)
  BY DEF SrtpInv, SenderIsAhead
<1>7. SenderIsAhead'
  <2>1. \A p \in network' :
          /\ p.index \in Nat /\ p.index <= highest'
          /\ p.sequence \in 0 .. Modulus - 1 /\ Carried(p.index, p.sequence)
    BY <1>1, <1>2, <1>3, <1>4, <1>5, <1>6
  <2> QED
    BY <2>1 DEF SenderIsAhead, Carried
<1>8. KeystreamIsUsedOnce'
  BY <1>1, <1>2, <1>3, <1>4, <1>5, <1>6 DEF KeystreamIsUsedOnce, SrtpInv
<1> QED
  BY <1>1, <1>2, <1>3, <1>4, <1>7, <1>8, SrtpAssumption

\* The invariant holds at the start and through every step.
THEOREM SrtpInductive == SrtpInit /\ [][SrtpNext]_srtpVars => []SrtpInv
<1>1. SrtpInit => SrtpInv
  <2> SUFFICES ASSUME SrtpInit PROVE SrtpInv
    OBVIOUS
  <2>1. SrtpTypes
    <3>1. window = [max |-> -1, seen |-> {}]
      BY DEF SrtpInit, EmptyWindow
    <3>2. window \in Windows /\ window.max >= NoIndex
      BY <3>1 DEF Windows
    <3>3. sentCache \in Seq(Packets) /\ Len(sentCache) <= CachePackets
      BY SrtpAssumption DEF SrtpInit
    <3> QED
      BY <3>2, <3>3, SrtpAssumption DEF SrtpInit, SrtpTypes
  <2>2. DOMAIN accepted = {} /\ network = {} /\ window.seen = {}
    BY DEF SrtpInit, EmptyWindow
  <2> QED
    BY <2>1, <2>2
    DEF SrtpInv, SenderIsAhead, WindowRemembers, KeystreamIsUsedOnce
<1>2. SrtpInv /\ [SrtpNext]_srtpVars => SrtpInv'
  <2> SUFFICES ASSUME SrtpInv, [SrtpNext]_srtpVars PROVE SrtpInv'
    OBVIOUS
  <2> USE DEF down
  <2>0. SrtpTypes /\ SenderIsAhead /\ WindowRemembers /\ KeystreamIsUsedOnce
    BY DEF SrtpInv
  <2>1. CASE Forward
    <3> DEFINE packet == [sequence |-> next, payload |-> forwarded + 1]
    <3>1. packet \in Packets /\ packet.sequence = next
      BY <2>0 DEF SrtpTypes, Packets
    <3>2. /\ kind = "rtp" /\ kind' = kind /\ control' = control
          /\ window' = window /\ accepted' = accepted
          /\ next' = (next + 1) % Modulus /\ forwarded' = forwarded + 1
          /\ sentCache' = Cached(packet)
      BY <2>1 DEF Forward
    <3>3. next' \in 0 .. Modulus - 1 /\ forwarded' \in Int
      BY <3>2, <2>0, SrtpAssumption DEF SrtpTypes
    <3>4. sentCache' \in Seq(Packets) /\ Len(sentCache') <= CachePackets
      <4> DEFINE all == Append(sentCache, packet)
      <4>1. all \in Seq(Packets) /\ all # <<>>
            /\ Len(all) <= CachePackets + 1
        <5>1. sentCache \in Seq(Packets) /\ Len(sentCache) <= CachePackets
          BY <2>0 DEF SrtpTypes
        <5> HIDE DEF packet
        <5> QED
          BY <3>1, <5>1, SrtpAssumption
      <4>2. sentCache' = IF Len(all) > CachePackets THEN Tail(all) ELSE all
        BY <3>2 DEF Cached
      <4> HIDE DEF all
      <4>3. Tail(all) \in Seq(Packets) /\ Len(Tail(all)) = Len(all) - 1
        BY <4>1
      <4> QED
        BY <4>1, <4>2, <4>3, SrtpAssumption
    <3>5. SenderIsAhead' /\ KeystreamIsUsedOnce'
          /\ highest' \in NoIndex .. MaxIndex
      <4>1. CASE MayAdvance(next)
        <5>1. Protect(packet)
          BY <2>1, <4>1 DEF Forward
        <5> QED
          BY <5>1, <4>1, <3>1, <3>2, ProtectIsFresh
      <4>2. CASE ~MayAdvance(next)
        <5>1. highest' = highest /\ network' = network
          BY <2>1, <4>2 DEF Forward
        <5> QED
          BY <5>1, <3>2, <2>0
          DEF SrtpTypes, SenderIsAhead, KeystreamIsUsedOnce
      <4> QED
        BY <4>1, <4>2
    <3>6. WindowRemembers'
      BY <3>2, <2>0 DEF WindowRemembers
    <3> QED
      BY <3>2, <3>3, <3>4, <3>5, <3>6, <2>0 DEF SrtpInv, SrtpTypes
  <2>2. CASE InstallContext
    BY <2>0, <2>2 DEF InstallContext, SrtpInv, SrtpTypes, SenderIsAhead,
      WindowRemembers, KeystreamIsUsedOnce
  <2>3. CASE ExpireCache
    <3>1. sentCache' \in Seq(Packets) /\ Len(sentCache') <= CachePackets
      BY <2>0, <2>3, SrtpAssumption DEF ExpireCache, SrtpTypes
    <3> QED
      BY <3>1, <2>0, <2>3 DEF ExpireCache, SrtpInv, SrtpTypes,
        SenderIsAhead, WindowRemembers, KeystreamIsUsedOnce
  <2>4. CASE ProtectRtcp
    <3>1. /\ kind = "rtcp" /\ kind' = kind /\ control' = control + 1
          /\ control <= MaxControl
          /\ network' = network \cup
               {[index |-> control, payload |-> control]}
          /\ highest' = highest /\ window' = window /\ accepted' = accepted
          /\ next' = next /\ sentCache' = sentCache /\ forwarded' = forwarded
      BY <2>4 DEF ProtectRtcp
    <3>2. \A p \in network : p.index \in Nat /\ p.index < control
      BY <3>1, <2>0 DEF SenderIsAhead
    <3>3. control \in Nat /\ control' \in 0 .. MaxControl + 1
      BY <3>1, <2>0, SrtpAssumption DEF SrtpTypes
    <3>4. SenderIsAhead'
      BY <3>1, <3>2, <3>3 DEF SenderIsAhead
    <3>5. KeystreamIsUsedOnce'
      BY <3>1, <3>2, <3>3, <2>0 DEF KeystreamIsUsedOnce
    <3> QED
      BY <3>1, <3>3, <3>4, <3>5, <2>0
      DEF SrtpInv, SrtpTypes, WindowRemembers
  <2>5. ASSUME NEW s \in 0 .. Modulus - 1, Resubscribe(s)
        PROVE  SrtpInv'
    BY <2>0, <2>5, SrtpAssumption DEF Resubscribe, SrtpInv, SrtpTypes,
      SenderIsAhead, WindowRemembers, KeystreamIsUsedOnce
  <2>6. ASSUME NEW k \in 1 .. Len(sentCache), Retransmit(k)
        PROVE  SrtpInv'
    <3>1. sentCache[k] \in Packets
      BY <2>0 DEF SrtpTypes
    <3>2. /\ kind' = kind /\ control' = control
          /\ window' = window /\ accepted' = accepted
          /\ next' = next /\ sentCache' = sentCache /\ forwarded' = forwarded
      BY <2>6 DEF Retransmit
    <3>3. SenderIsAhead' /\ KeystreamIsUsedOnce'
          /\ highest' \in NoIndex .. MaxIndex
      <4>1. CASE MayAdvance(sentCache[k].sequence)
        <5>1. Protect(sentCache[k])
          BY <2>6, <4>1 DEF Retransmit
        <5>2. kind = "rtp"
          BY <2>0, <2>6 DEF SrtpTypes
        <5> QED
          BY <5>1, <5>2, <4>1, <3>1, <3>2, ProtectIsFresh
      <4>2. CASE ~MayAdvance(sentCache[k].sequence)
        <5>1. highest' = highest /\ network' = network
          BY <2>6, <4>2 DEF Retransmit
        <5> QED
          BY <5>1, <3>2, <2>0
          DEF SrtpTypes, SenderIsAhead, KeystreamIsUsedOnce
      <4> QED
        BY <4>1, <4>2
    <3> QED
      BY <3>2, <3>3, <2>0 DEF SrtpInv, SrtpTypes, WindowRemembers
  <2>7. ASSUME NEW p \in network, UnprotectRtp(p)
        PROVE  SrtpInv'
    <3>1. /\ p.index \in Nat /\ Fresh(window, p.index)
          /\ window' = Accept(window, p.index)
          /\ accepted' = Counted(accepted, p.index)
      BY <2>7, <2>0 DEF UnprotectRtp, Unprotects, SenderIsAhead
    <3>2. WindowRemembers' /\ window' \in Windows
          /\ window'.max >= NoIndex
      BY <3>1, <2>0, AcceptRemembers
    <3> QED
      BY <3>2, <2>7, <2>0 DEF UnprotectRtp, SrtpInv, SrtpTypes,
        SenderIsAhead, KeystreamIsUsedOnce
  <2>8. ASSUME NEW p \in network, UnprotectRtcp(p)
        PROVE  SrtpInv'
    <3>1. /\ p.index \in Nat /\ Fresh(window, p.index)
          /\ window' = Accept(window, p.index)
          /\ accepted' = Counted(accepted, p.index)
      BY <2>8, <2>0 DEF UnprotectRtcp, SenderIsAhead
    <3>2. WindowRemembers' /\ window' \in Windows
          /\ window'.max >= NoIndex
      BY <3>1, <2>0, AcceptRemembers
    <3> QED
      BY <3>2, <2>8, <2>0 DEF UnprotectRtcp, SrtpInv, SrtpTypes,
        SenderIsAhead, KeystreamIsUsedOnce
  <2>9. CASE UNCHANGED srtpVars
    BY <2>0, <2>9 DEF srtpVars, SrtpInv, SrtpTypes, SenderIsAhead,
      WindowRemembers, KeystreamIsUsedOnce
  <2> QED
    BY <2>1, <2>2, <2>3, <2>4, <2>5, <2>6, <2>7, <2>8, <2>9 DEF SrtpNext
<1> QED
  BY <1>1, <1>2, PTL

\* unprotect_rtp and unprotect_rtcp release no index twice.
THEOREM ReplaysAreRefused == SrtpSpec => []AcceptedOnce
<1>1. SrtpInv => AcceptedOnce
  BY DEF SrtpInv, WindowRemembers, AcceptedOnce
<1> QED
  BY <1>1, SrtpInductive, PTL DEF SrtpSpec

\* protect_rtp and protect_rtcp use no index for two packets.
THEOREM KeystreamIsNotReused == SrtpSpec => []KeystreamIsUsedOnce
<1>1. SrtpInv => KeystreamIsUsedOnce
  BY DEF SrtpInv
<1> QED
  BY <1>1, SrtpInductive, PTL DEF SrtpSpec

\* A packet that was not unprotected, is not older than the window and not
\* half a cycle ahead passes unprotect_rtp, across a rollover too.
THEOREM GoodPacketsPass == SrtpSpec => []WindowIsExact
<1>1. SrtpInv => WindowIsExact
  <2> SUFFICES ASSUME SrtpInv, kind = "rtp", NEW p \in network,
                      p.index \notin DOMAIN accepted,
                      IF window.max = NoIndex THEN p.index < Modulus
                      ELSE /\ window.max - p.index < Window
                           /\ p.index - window.max < Modulus \div 2
               PROVE  Unprotects(p)
    BY DEF WindowIsExact
  <2>1. /\ p.index \in Nat /\ p.sequence \in 0 .. Modulus - 1
        /\ Carried(p.index, p.sequence)
    BY DEF SrtpInv, SenderIsAhead
  <2>2. window.max \in Int /\ window.max >= -1
    BY DEF SrtpInv, SrtpTypes, Windows
  <2>3. CASE window.max = NoIndex
    <3>1. PICK c \in Int : p.index = c * Modulus + p.sequence
      BY <2>1 DEF Carried
    <3>2. c = 0
      <4>1. c >= 1 => c * Modulus >= Modulus
        BY <3>1, SrtpAssumption
      <4>2. c <= -1 => c * Modulus <= -Modulus
        BY <3>1, SrtpAssumption
      <4>3. c * Modulus \in Int
        BY SrtpAssumption
      <4>4. p.index < Modulus
        BY <2>3
      <4> QED
        BY <2>1, <3>1, <4>1, <4>2, <4>3, <4>4, SrtpAssumption
    <3>3. p.index = p.sequence
      BY <2>1, <3>1, <3>2, SrtpAssumption
    <3> QED
      BY <2>1, <2>3, <3>3 DEF Unprotects, Fresh, EstimateIndex
  <2>4. CASE window.max # NoIndex
    <3>1. window.max \in Nat
      BY <2>2, <2>4
    <3>2. window.max - p.index < Modulus \div 2
          /\ p.index - window.max < Modulus \div 2
      BY <2>1, <2>4, <3>1, Halves, SrtpAssumption
    <3>3. EstimateIndex(window.max, p.sequence) = p.index
      BY <2>1, <3>1, <3>2, EstimateIsExact
    <3>4. Fresh(window, p.index)
      <4>1. window.max - (window.max - p.index) = p.index
        BY <2>1, <3>1
      <4>2. window.max - p.index \notin window.seen
        BY <4>1 DEF SrtpInv, WindowRemembers
      <4> QED
        BY <2>4, <4>2 DEF Fresh
    <3> QED
      BY <3>3, <3>4 DEF Unprotects
  <2> QED
    BY <2>3, <2>4
<1> QED
  BY <1>1, SrtpInductive, PTL DEF SrtpSpec

\* Every index is used once, accepted once, and refused only when it was
\* used or is too far away.
THEOREM IndicesStayUnique == SrtpSpec => []IndicesAreUsedOnce
<1>1. SrtpInv => SrtpTypeOK
  <2> SUFFICES ASSUME SrtpInv PROVE SrtpTypeOK
    OBVIOUS
  <2>1. kind = "rtcp" => \A p \in network : p.index <= MaxControl
    BY SrtpAssumption DEF SrtpInv, SrtpTypes, SenderIsAhead
  <2> QED
    BY <2>1 DEF SrtpInv, SrtpTypes, SrtpTypeOK, Windows
<1>2. SrtpTypeOK /\ KeystreamIsUsedOnce /\ AcceptedOnce /\ WindowIsExact
        => IndicesAreUsedOnce
  BY DEF IndicesAreUsedOnce
<1> QED
  BY <1>1, <1>2, SrtpInductive, ReplaysAreRefused, KeystreamIsNotReused,
     GoodPacketsPass, PTL DEF SrtpSpec

-----------------------------------------------------------------------------
(* RelayBandwidth.                                                         *)

BandwidthTypeOK ==
  /\ clock \in Nat
  /\ updated \in Nat /\ updated <= clock
  /\ since \in Nat /\ since <= clock
  /\ available \in Nat /\ passed \in Nat /\ available <= 2 * Rate

\* Once the bucket was refilled in the interval, what has passed and what may
\* still pass were in the burst or have accrued since.  Before, all of it was
\* in the burst, and if something has passed, a refill of nothing was tried.
Accrued ==
  /\ updated >= since => Ticks * (passed + available)
                           <= Ticks * (2 * Rate + 1) + Rate * (updated - since)
  /\ updated < since => /\ passed + available <= 2 * Rate
                        /\ passed = 0 \/ Rate * (since - updated) <= Ticks

BandwidthInv == BandwidthTypeOK /\ Accrued

\* Multiplication by a natural number keeps the order and distributes.
LEMMA Products ==
  ASSUME NEW k \in Nat, NEW m \in Nat, NEW n \in Nat
  PROVE  /\ k * m \in Nat
         /\ k * (m + n) = k * m + k * n
         /\ m <= n => k * m <= k * n
  OBVIOUS

\* Whole bytes never exceed what has accrued, and are none only if less than
\* one byte has.
LEMMA ReplenishedBound ==
  ASSUME BandwidthTypeOK
  PROVE  /\ Replenished \in Nat
         /\ Ticks * Replenished <= Rate * (clock - updated)
         /\ Replenished = 0 => Rate * (clock - updated) <= Ticks
  <1> DEFINE x == Rate * (clock - updated)
  <1>1. x \in Nat /\ Ticks \in Nat \ {0}
    BY BandwidthAssumption DEF BandwidthTypeOK
  <1> HIDE DEF x
  <1>2. /\ x \div Ticks \in Nat /\ Ticks * (x \div Ticks) <= x
        /\ x \div Ticks = 0 => x <= Ticks
    BY <1>1
  <1> QED BY <1>2 DEF Replenished, x

\* A datagram in the first case of the invariant: the bucket was refilled in
\* the interval.
LEMMA AfterRefill ==
  ASSUME NEW p \in Nat, NEW a \in Nat, NEW b \in Nat, NEW r \in Nat,
         NEW d \in Nat, NEW e \in Nat,
         b <= a + r, Ticks * r <= d,
         Ticks * (p + a) <= Ticks * (2 * Rate + 1) + e
  PROVE  Ticks * (p + b) <= Ticks * (2 * Rate + 1) + e + d
  <1> USE BandwidthAssumption
  <1>1. Ticks * (p + b) <= Ticks * ((p + a) + r)
    BY Products
  <1>2. Ticks * ((p + a) + r) = Ticks * (p + a) + Ticks * r
    BY Products
  <1> DEFINE u == Ticks * (p + b)
             v == Ticks * (p + a)
             w == Ticks * r
             z == Ticks * (2 * Rate + 1)
  <1>3. u \in Nat /\ v \in Nat /\ w \in Nat /\ z \in Nat
    BY Products
  <1>4. u <= v + w /\ w <= d /\ v <= z + e
    BY <1>1, <1>2
  <1> HIDE DEF u, v, w, z
  <1>5. u <= z + e + d
    BY <1>3, <1>4
  <1> QED BY <1>5 DEF u, z

\* A datagram that refills the bucket preserves the invariant.
LEMMA RefillKeepsAccrued ==
  ASSUME BandwidthInv, NEW bytes \in Nat, Consume(bytes), Replenished # 0,
         Refilled \in Nat, Refilled <= 2 * Rate,
         Refilled <= available + Replenished
  PROVE  Ticks * (passed + Refilled)
           <= Ticks * (2 * Rate + 1) + Rate * (clock - since)
  <1> USE BandwidthAssumption DEF BandwidthInv, BandwidthTypeOK
  <1> DEFINE r == Replenished
             f == Refilled
             d == Rate * (clock - updated)
             g == Rate * (clock - since)
  <1>1. /\ r \in Nat /\ Ticks * r <= d /\ f \in Nat /\ f <= 2 * Rate
        /\ f <= available + r /\ d \in Nat /\ g \in Nat
    BY ReplenishedBound, Products
  <1>2. CASE updated >= since
    <2> DEFINE e == Rate * (updated - since)
    <2>1. e \in Nat /\ e + d = g
      BY <1>2, Products
    <2>2. Ticks * (passed + available) <= Ticks * (2 * Rate + 1) + e
      BY <1>2 DEF Accrued
    <2> HIDE DEF r, f, d, e, g
    <2>3. Ticks * (passed + f) <= Ticks * (2 * Rate + 1) + e + d
      BY <1>1, <2>1, <2>2, AfterRefill
    <2>4. Ticks * (2 * Rate + 1) \in Nat
      BY Products
    <2>5. Ticks * (passed + f) <= Ticks * (2 * Rate + 1) + g
      BY <2>1, <2>3, <2>4, <1>1
    <2> QED BY <2>5 DEF f, g
  <1>3. CASE updated < since /\ passed = 0
    <2> HIDE DEF f, g
    <2>1. passed + f <= 2 * Rate + 1
      BY <1>1, <1>3
    <2>2. Ticks * (passed + f) <= Ticks * (2 * Rate + 1)
      BY <2>1, <1>1, Products
    <2>3. Ticks * (2 * Rate + 1) \in Nat /\ Ticks * (passed + f) \in Nat
      BY <1>1, Products
    <2>4. Ticks * (passed + f) <= Ticks * (2 * Rate + 1) + g
      BY <2>2, <2>3, <1>1
    <2> QED BY <2>4 DEF f, g
  <1>4. CASE updated < since /\ passed # 0
    <2> DEFINE h == Rate * (since - updated)
    <2>1. h \in Nat /\ h <= Ticks /\ g + h = d
      BY <1>4, Products DEF Accrued
    <2>2. passed + available <= 2 * Rate
      BY <1>4 DEF Accrued
    <2> HIDE DEF r, f, d, g, h
    <2>3. Ticks * (passed + f) <= Ticks * (2 * Rate + r)
      BY <1>1, <2>2, Products
    <2>4. Ticks * (2 * Rate + r) = Ticks * (2 * Rate) + Ticks * r
      BY <1>1, Products
    <2>5. Ticks * (2 * Rate + 1) = Ticks * (2 * Rate) + Ticks
      OBVIOUS
    <2> DEFINE u == Ticks * (passed + f)
               v == Ticks * (2 * Rate)
               w == Ticks * r
    <2>6. u \in Nat /\ v \in Nat /\ w \in Nat
      BY <1>1, Products
    <2>7. u <= v + w /\ w <= d /\ Ticks * (2 * Rate + 1) = v + Ticks
      BY <2>3, <2>4, <2>5, <1>1
    <2> HIDE DEF u, v, w
    <2>8. u <= (v + Ticks) + g
      BY <2>1, <2>6, <2>7, <1>1
    <2>9. u <= Ticks * (2 * Rate + 1) + g
      BY <2>7, <2>8
    <2> QED BY <2>9 DEF u, f, g
  <1> QED BY <1>2, <1>3, <1>4

\* RateIsBounded for every rate, every clock and every datagram size.
THEOREM BandwidthIsBounded == BandwidthSpec => []RateIsBounded
  <1> USE BandwidthAssumption
  <1>1. BandwidthInit => BandwidthInv
    <2>1. Ticks * (2 * Rate) <= Ticks * (2 * Rate + 1)
      BY Products
    <2> QED
      BY <2>1 DEF BandwidthInit, BandwidthInv, BandwidthTypeOK, Accrued
  <1>2. BandwidthInv /\ [BandwidthNext]_bandwidthVars => BandwidthInv'
    <2> SUFFICES ASSUME BandwidthInv, [BandwidthNext]_bandwidthVars
                 PROVE  BandwidthInv'
      OBVIOUS
    <2>1. CASE Advance
      BY <2>1 DEF Advance, BandwidthInv, BandwidthTypeOK, Accrued
    <2>2. CASE Observe
      <3>1. BandwidthTypeOK'
        BY <2>2 DEF Observe, BandwidthInv, BandwidthTypeOK
      <3>2. Ticks * (0 + available) <= Ticks * (2 * Rate + 1)
        BY Products DEF BandwidthInv, BandwidthTypeOK
      <3>3. Accrued'
        BY <2>2, <3>2 DEF Observe, BandwidthInv, BandwidthTypeOK, Accrued
      <3> QED BY <3>1, <3>3 DEF BandwidthInv
    <2>3. ASSUME NEW bytes \in 0 .. MaxDatagram, Consume(bytes)
          PROVE  BandwidthInv'
      <3> DEFINE r == Replenished
      <3>1. /\ r \in Nat /\ Ticks * r <= Rate * (clock - updated)
            /\ r = 0 => Rate * (clock - updated) <= Ticks
        BY ReplenishedBound DEF BandwidthInv
      <3>2. /\ Refilled \in Nat /\ Refilled <= 2 * Rate
            /\ Refilled <= available + r
            /\ r = 0 => Refilled = available
        BY <3>1 DEF Refilled, Least, BandwidthInv, BandwidthTypeOK
      <3>3. /\ available' \in Nat /\ available' <= 2 * Rate /\ passed' \in Nat
            /\ passed' + available' = passed + Refilled
        BY <2>3, <3>2 DEF Consume, BandwidthInv, BandwidthTypeOK
      <3>4. /\ clock' = clock /\ since' = since
            /\ updated' = IF r # 0 THEN clock ELSE updated
        BY <2>3 DEF Consume
      <3>5. BandwidthTypeOK'
        BY <3>3, <3>4 DEF BandwidthInv, BandwidthTypeOK
      <3>6. CASE r # 0
        <4>1. Ticks * (passed + Refilled)
                <= Ticks * (2 * Rate + 1) + Rate * (clock - since)
          BY <2>3, <3>2, <3>6, RefillKeepsAccrued
        <4>2. updated' = clock /\ since' = since /\ ~(updated' < since')
          BY <3>4, <3>6 DEF BandwidthInv, BandwidthTypeOK
        <4>3. Ticks * (passed' + available')
                <= Ticks * (2 * Rate + 1) + Rate * (updated' - since')
          BY <4>1, <4>2, <3>3, Zenon
        <4>4. Accrued'
          BY <4>2, <4>3 DEF Accrued
        <4> QED BY <4>4, <3>5 DEF BandwidthInv
      <3>7. CASE r = 0
        <4>1. Rate * (since - updated) <= Ticks \/ updated >= since
          <5>1. CASE updated < since
            <6>1. Rate * (since - updated) <= Rate * (clock - updated)
              BY <5>1, Products DEF BandwidthInv, BandwidthTypeOK
            <6>2. /\ Rate * (since - updated) \in Nat
                  /\ Rate * (clock - updated) \in Nat
              BY <5>1, Products DEF BandwidthInv, BandwidthTypeOK
            <6> QED BY <6>1, <6>2, <3>1, <3>7
          <5> QED BY <5>1 DEF BandwidthInv, BandwidthTypeOK
        <4>2. passed' + available' = passed + available
          BY <3>2, <3>3, <3>7
        <4>3. updated' = updated /\ since' = since
          BY <3>4, <3>7
        <4>4. Accrued'
          <5>1. CASE updated >= since
            <6>1. Ticks * (passed + available)
                    <= Ticks * (2 * Rate + 1) + Rate * (updated - since)
              BY <5>1 DEF BandwidthInv, Accrued
            <6>2. Ticks * (passed' + available')
                    <= Ticks * (2 * Rate + 1) + Rate * (updated' - since')
              BY <6>1, <4>2, <4>3, Zenon
            <6>3. ~(updated' < since')
              BY <5>1, <4>3 DEF BandwidthInv, BandwidthTypeOK
            <6> QED BY <6>2, <6>3 DEF Accrued
          <5>2. CASE updated < since
            <6>1. passed + available <= 2 * Rate
              BY <5>2 DEF BandwidthInv, Accrued
            <6>2. Rate * (since - updated) <= Ticks /\ ~(updated >= since)
              BY <4>1, <5>2 DEF BandwidthInv, BandwidthTypeOK
            <6>3. /\ passed' + available' <= 2 * Rate
                  /\ Rate * (since' - updated') <= Ticks
                  /\ ~(updated' >= since')
              BY <6>1, <6>2, <4>2, <4>3, Zenon
            <6> QED BY <6>3 DEF Accrued
          <5> QED BY <5>1, <5>2 DEF BandwidthInv, BandwidthTypeOK
        <4> QED BY <4>4, <3>5 DEF BandwidthInv
      <3> QED BY <3>6, <3>7
    <2>4. CASE UNCHANGED bandwidthVars
      BY <2>4 DEF bandwidthVars, BandwidthInv, BandwidthTypeOK, Accrued
    <2> QED BY <2>1, <2>2, <2>3, <2>4 DEF BandwidthNext
  <1>3. BandwidthInv => RateIsBounded
    <2> SUFFICES ASSUME BandwidthInv PROVE RateIsBounded
      OBVIOUS
    <2> USE DEF BandwidthInv, BandwidthTypeOK
    <2>1. /\ Ticks * passed \in Nat /\ Ticks * (passed + available) \in Nat
          /\ Ticks * (2 * Rate + 1) \in Nat /\ Rate * (clock - since) \in Nat
      BY Products
    <2>2. CASE updated >= since
      <3>1. Ticks * passed <= Ticks * (passed + available)
        BY Products
      <3>2. /\ Rate * (updated - since) <= Rate * (clock - since)
            /\ Rate * (updated - since) \in Nat
        BY <2>2, Products
      <3>3. Ticks * (passed + available)
              <= Ticks * (2 * Rate + 1) + Rate * (updated - since)
        BY <2>2 DEF Accrued
      <3> DEFINE u == Ticks * passed
                 v == Ticks * (passed + available)
                 w == Ticks * (2 * Rate + 1)
                 x == Rate * (updated - since)
                 y == Rate * (clock - since)
      <3>4. /\ u \in Nat /\ v \in Nat /\ w \in Nat /\ x \in Nat /\ y \in Nat
            /\ u <= v /\ v <= w + x /\ x <= y
        BY <2>1, <3>1, <3>2, <3>3
      <3> HIDE DEF u, v, w, x, y
      <3>5. u <= w + y
        BY <3>4
      <3> QED BY <3>5 DEF u, w, y, RateIsBounded
    <2>3. CASE updated < since
      <3>1. passed <= 2 * Rate + 1
        BY <2>3 DEF Accrued
      <3>2. Ticks * passed <= Ticks * (2 * Rate + 1)
        BY <3>1, Products
      <3> QED BY <3>2, <2>1 DEF RateIsBounded
    <2> QED BY <2>2, <2>3
  <1> QED BY <1>1, <1>2, <1>3, PTL DEF BandwidthSpec
=============================================================================

-------------------------------- MODULE Rtcp --------------------------------
(***************************************************************************)
(* The RTCP codec: compound datagrams of sender and receiver reports,      *)
(* source descriptions, NACKs, PLIs, transport-wide feedback and packets   *)
(* it does not interpret.                                                  *)
(*                                                                         *)
(* A datagram is a sequence of octets.  A result is a set: what was read   *)
(* or written, or nothing when the codec returns an error.  The machine    *)
(* around the codec encodes a compound, lets the network or a peer's own   *)
(* encoder change the datagram, and parses it.                             *)
(***************************************************************************)
EXTENDS Integers, Sequences, SequencesExt, FiniteSetsExt

CONSTANTS
  Compounds,   \* sequences of packets to encode
  Paddings     \* how much padding a peer adds: multiples of four octets

VARIABLES
  packets,   \* the compound that was sent
  wire,      \* the datagram: a set with at most one sequence of octets
  handled,   \* how it came about
  read,      \* whether it was parsed
  parsed     \* what parse_compound returned

rtcpVars == <<packets, wire, handled, read, parsed>>

ASSUME RtcpAssumption == \A n \in Paddings : n \in 1 .. 255 /\ n % 4 = 0

-----------------------------------------------------------------------------
(* Octets.                                                                 *)

\* to_be_bytes: the n octets of v, also of a negative v.
Octet(v, k) == IF k > 3 THEN (IF v < 0 THEN 255 ELSE 0)
               ELSE (v \div 256 ^ k) % 256
Be(v, n) == [i \in 1 .. n |-> Octet(v, n - i)]

Value(octets) == FoldLeft(LAMBDA acc, x : acc * 256 + x, 0, octets)
Signed(v, bits) == IF v >= 2 ^ (bits - 1) THEN v - 2 ^ bits ELSE v

\* read_array: n octets at a position that counts from zero.
Has(body, pos, n) == pos + n <= Len(body)
At(body, pos, n) == SubSeq(body, pos + 1, pos + n)
U(body, pos, n) == Value(At(body, pos, n))

Zeros(n) == [i \in 1 .. n |-> 0]
AllZero(octets) == \A i \in DOMAIN octets : octets[i] = 0
\* Zeros up to a multiple of four octets.
Gap(n) == (4 - (n % 4)) % 4
Aligned(octets) == octets \o Zeros(Gap(Len(octets)))

SumOf(numbers) == FoldSet(LAMBDA x, acc : x + acc, 0, numbers)

ReportBlockLen == 24
I24 == -(2 ^ 23) .. 2 ^ 23 - 1

-----------------------------------------------------------------------------
(* Reports.                                                                *)

BlockOctets(b) ==
  Be(b.ssrc, 4) \o Be(b.fraction, 1) \o Be(b.lost, 3) \o Be(b.highest, 4)
    \o Be(b.jitter, 4) \o Be(b.lsr, 4) \o Be(b.dlsr, 4)

EncodeReportBlocks(reports) ==
  IF \E i \in DOMAIN reports : reports[i].lost \notin I24 THEN {}
  ELSE {FlattenSeq([i \in DOMAIN reports |-> BlockOctets(reports[i])])}

ParseReportBlocks(body, start, count) ==
  [i \in 1 .. count |->
     LET pos == start + (i - 1) * ReportBlockLen IN
       [ssrc |-> U(body, pos, 4), fraction |-> U(body, pos + 4, 1),
        lost |-> Signed(U(body, pos + 5, 3), 24),
        highest |-> U(body, pos + 8, 4), jitter |-> U(body, pos + 12, 4),
        lsr |-> U(body, pos + 16, 4), dlsr |-> U(body, pos + 20, 4)]]

ParseSenderReport(count, body) ==
  IF Len(body) # 24 + count * ReportBlockLen THEN {}
  ELSE {[kind |-> "SR", ssrc |-> U(body, 0, 4), ntp |-> U(body, 4, 8),
         rtp |-> U(body, 12, 4), sent |-> U(body, 16, 4),
         octets |-> U(body, 20, 4),
         reports |-> ParseReportBlocks(body, 24, count)]}

ParseReceiverReport(count, body) ==
  IF Len(body) # 4 + count * ReportBlockLen THEN {}
  ELSE {[kind |-> "RR", ssrc |-> U(body, 0, 4),
         reports |-> ParseReportBlocks(body, 4, count)]}

CheckedCount(n) == IF n > 31 THEN {} ELSE {n}

EncodeSenderReport(p) ==
  {[count |-> n, type |-> 200,
    body |-> Be(p.ssrc, 4) \o Be(p.ntp, 8) \o Be(p.rtp, 4) \o Be(p.sent, 4)
               \o Be(p.octets, 4) \o blocks] :
     n \in CheckedCount(Len(p.reports)),
     blocks \in EncodeReportBlocks(p.reports)}

EncodeReceiverReport(p) ==
  {[count |-> n, type |-> 201, body |-> Be(p.ssrc, 4) \o blocks] :
     n \in CheckedCount(Len(p.reports)),
     blocks \in EncodeReportBlocks(p.reports)}

-----------------------------------------------------------------------------
(* Source descriptions.                                                    *)

ItemOctets(item) == <<item.type, Len(item.value)>> \o item.value

\* Mutant of EncodeChunk: a chunk that ends on a word has no end of its own.
EncodeChunkShort(c) ==
  Aligned(Be(c.ssrc, 4)
          \o FlattenSeq([i \in DOMAIN c.items |-> ItemOctets(c.items[i])]))

\* A chunk: its items, a zero octet, and zeros up to the next word.
EncodeChunk(c) ==
  Aligned(Be(c.ssrc, 4)
          \o FlattenSeq([i \in DOMAIN c.items |-> ItemOctets(c.items[i])])
          \o <<0>>)

EncodeSdes(p) ==
  IF \E i \in DOMAIN p.chunks : \E j \in DOMAIN p.chunks[i].items :
       Len(p.chunks[i].items[j].value) > 255
  THEN {}
  ELSE {[count |-> n, type |-> 202,
         body |-> FlattenSeq([i \in DOMAIN p.chunks |->
                                EncodeChunk(p.chunks[i])])] :
          n \in CheckedCount(Len(p.chunks))}

\* The items from a position on, with the position after their zero octet.
RECURSIVE ParseItems(_, _)
ParseItems(body, pos) ==
  IF ~Has(body, pos, 1) THEN {}
  ELSE IF U(body, pos, 1) = 0 THEN {[items |-> <<>>, end |-> pos + 1]}
  ELSE IF ~Has(body, pos, 2) THEN {}
  ELSE LET len == U(body, pos + 1, 1) IN
       IF ~Has(body, pos + 2, len) THEN {}
       ELSE {[items |-> <<[type |-> U(body, pos, 1),
                           value |-> At(body, pos + 2, len)]>> \o rest.items,
              end |-> rest.end] : rest \in ParseItems(body, pos + 2 + len)}

RECURSIVE ParseChunks(_, _, _)
ParseChunks(body, pos, count) ==
  IF count = 0 THEN IF pos = Len(body) THEN {<<>>} ELSE {}
  ELSE IF ~Has(body, pos, 4) THEN {}
  ELSE UNION {LET pad == Gap(r.end - pos) IN
                IF Has(body, r.end, pad) /\ AllZero(At(body, r.end, pad))
                THEN {<<[ssrc |-> U(body, pos, 4), items |-> r.items]>> \o rest
                        : rest \in ParseChunks(body, r.end + pad, count - 1)}
                ELSE {} : r \in ParseItems(body, pos + 4)}

ParseSourceDescription(count, body) ==
  {[kind |-> "SDES", chunks |-> c] : c \in ParseChunks(body, 0, count)}

-----------------------------------------------------------------------------
(* NACK and PLI.                                                           *)

EncodeNack(p) ==
  Be(p.ssrc, 4) \o Be(p.media, 4)
    \o FlattenSeq([i \in DOMAIN p.entries |->
                     Be(p.entries[i].id, 2) \o Be(p.entries[i].mask, 2)])

ParseNack(body) ==
  IF Len(body) < 8 \/ (Len(body) - 8) % 4 # 0 THEN {}
  ELSE {[kind |-> "NACK", ssrc |-> U(body, 0, 4), media |-> U(body, 4, 4),
         entries |-> [i \in 1 .. (Len(body) - 8) \div 4 |->
                        [id |-> U(body, 4 + 4 * i, 2),
                         mask |-> U(body, 6 + 4 * i, 2)]]]}

BitsOf(mask) == {k \in 0 .. 15 : (mask \div 2 ^ k) % 2 = 1}

\* expand_nack: the packets a NACK asks for.
ExpandNack(entries) ==
  UNION {{entries[i].id} \cup {(entries[i].id + bit + 1) % 2 ^ 16 :
                                bit \in BitsOf(entries[i].mask)} :
           i \in DOMAIN entries}

EncodePli(p) == Be(p.ssrc, 4) \o Be(p.media, 4)
ParsePli(body) ==
  IF Len(body) # 8 THEN {}
  ELSE {[kind |-> "PLI", ssrc |-> U(body, 0, 4), media |-> U(body, 4, 4)]}

-----------------------------------------------------------------------------
(* Transport-wide feedback.  A status is <<>>, <<"small", d>> or           *)
(* <<"large", d>>.                                                         *)

Symbol(status) == CASE status = <<>> -> 0
                    [] status # <<>> -> IF status[1] = "small" THEN 1 ELSE 2

\* The last chunk of a vector may be partly filled.
VectorChunk(symbols, width, mark) ==
  FoldLeft(LAMBDA acc, i : acc + symbols[i] * 2 ^ (14 - width * i),
           mark, [i \in 1 .. Len(symbols) |-> i])
Groups(symbols, per) ==
  [g \in 1 .. (Len(symbols) + per - 1) \div per |->
     SubSeq(symbols, (g - 1) * per + 1,
            IF g * per <= Len(symbols) THEN g * per ELSE Len(symbols))]
Vectors(symbols, per, width, mark) ==
  LET groups == Groups(symbols, per) IN
    [g \in DOMAIN groups |-> VectorChunk(groups[g], width, mark)]

DeltaOctets(status) ==
  IF status = <<>> THEN <<>>
  ELSE IF status[1] = "small" THEN Be(status[2], 1) ELSE Be(status[2], 2)

TwccBody(p, chunks) ==
  Aligned(Be(p.ssrc, 4) \o Be(p.media, 4) \o Be(p.base, 2)
          \o Be(Len(p.statuses), 2) \o Be(p.reference, 3) \o Be(p.feedback, 1)
          \o FlattenSeq([i \in DOMAIN chunks |-> Be(chunks[i], 2)])
          \o FlattenSeq([i \in DOMAIN p.statuses |->
                           DeltaOctets(p.statuses[i])]))

SymbolsOf(p) == [i \in DOMAIN p.statuses |-> Symbol(p.statuses[i])]

\* twcc::encode: only vectors of seven two-bit symbols.
EncodeTwcc(p) ==
  IF Len(p.statuses) > 2 ^ 16 - 1 \/ p.reference \notin I24 THEN {}
  ELSE {TwccBody(p, Vectors(SymbolsOf(p), 7, 2, 2 ^ 15 + 2 ^ 14))}

\* decode_chunk: the symbols a chunk adds to the ones already read.
DecodeChunk(chunk, count, have) ==
  LET left == count - have
      AtMost(n) == IF n <= left THEN n ELSE left IN
  IF chunk < 2 ^ 15
  THEN LET symbol == chunk \div 2 ^ 13
           run == chunk % 2 ^ 13 IN
       IF symbol = 3 \/ run = 0 THEN {}
       ELSE {[i \in 1 .. AtMost(run) |-> symbol]}
  ELSE LET two == (chunk \div 2 ^ 14) % 2 = 1
           width == IF two THEN 2 ELSE 1
           symbols == [i \in 1 .. AtMost(14 \div width) |->
                         (chunk \div 2 ^ (14 - width * i)) % 2 ^ width] IN
       IF \E i \in DOMAIN symbols : symbols[i] = 3 THEN {} ELSE {symbols}

\* The loop over the chunks: all symbols, and where the deltas begin.
RECURSIVE ReadChunks(_, _, _, _)
ReadChunks(body, pos, count, symbols) ==
  IF Len(symbols) >= count THEN {[symbols |-> symbols, pos |-> pos]}
  ELSE IF ~Has(body, pos, 2) THEN {}
  ELSE UNION {ReadChunks(body, pos + 2, count, symbols \o more) :
                more \in DecodeChunk(U(body, pos, 2), count, Len(symbols))}

\* The loop over the deltas: the statuses, and where they end.
RECURSIVE ReadDeltas(_, _, _)
ReadDeltas(body, pos, symbols) ==
  IF symbols = <<>> THEN {[statuses |-> <<>>, end |-> pos]}
  ELSE LET n == Head(symbols)
           status == CASE n = 0 -> <<>>
                       [] n = 1 -> <<"small", U(body, pos, 1)>>
                       [] n = 2 -> <<"large", Signed(U(body, pos, 2), 16)>> IN
       IF ~Has(body, pos, n) THEN {}
       ELSE {[statuses |-> <<status>> \o rest.statuses, end |-> rest.end] :
               rest \in ReadDeltas(body, pos + n, Tail(symbols))}

\* After the deltas come at most three octets, all zero.
PadOk(body, end) ==
  /\ Len(body) - end <= 3
  /\ AllZero(SubSeq(body, end + 1, Len(body)))

\* twcc::parse.
ParseTwcc(body) ==
  IF Len(body) < 16 THEN {}
  ELSE UNION {{[kind |-> "TWCC", ssrc |-> U(body, 0, 4),
                media |-> U(body, 4, 4), base |-> U(body, 8, 2),
                reference |-> Signed(U(body, 12, 3), 24),
                feedback |-> U(body, 15, 1), statuses |-> d.statuses] :
                 d \in {d \in ReadDeltas(body, c.pos, c.symbols) :
                          PadOk(body, d.end)}} :
                c \in ReadChunks(body, 16, U(body, 10, 2), <<>>)}

-----------------------------------------------------------------------------
(* Compounds.                                                              *)

EncodePacket(p) ==
  CASE p.kind = "SR" -> EncodeSenderReport(p)
    [] p.kind = "RR" -> EncodeReceiverReport(p)
    [] p.kind = "SDES" -> EncodeSdes(p)
    [] p.kind = "NACK" -> {[count |-> 1, type |-> 205, body |-> EncodeNack(p)]}
    [] p.kind = "PLI" -> {[count |-> 1, type |-> 206, body |-> EncodePli(p)]}
    [] p.kind = "TWCC" -> {[count |-> 15, type |-> 205, body |-> body] :
                             body \in EncodeTwcc(p)}
    [] p.kind = "Raw" -> {[count |-> p.count, type |-> p.type,
                           body |-> p.body]}

ParsePacket(count, type, body) ==
  CASE type = 200 -> ParseSenderReport(count, body)
    [] type = 201 -> ParseReceiverReport(count, body)
    [] type = 202 -> ParseSourceDescription(count, body)
    [] type = 205 /\ count = 1 -> ParseNack(body)
    [] type = 205 /\ count = 15 -> ParseTwcc(body)
    [] type = 206 /\ count = 1 -> ParsePli(body)
    [] OTHER -> {[kind |-> "Raw", count |-> count, type |-> type,
                  body |-> body]}

\* A packet on the wire: version 2, the count, the type and the length in
\* words, without the header's own.
Framed(count, type, body, padded) ==
  <<128 + (IF padded THEN 32 ELSE 0) + count, type>> \o Be(Len(body) \div 4, 2)
    \o body

\* encode_compound.
EncodeCompound(ps) ==
  LET encoded(p) == {Framed(e.count, e.type, Aligned(e.body), FALSE) :
                       e \in {e \in EncodePacket(p) : e.count <= 31}}
      all == [i \in DOMAIN ps |-> encoded(ps[i])] IN
    IF \E i \in DOMAIN ps : all[i] = {} THEN {}
    ELSE {FlattenSeq([i \in DOMAIN ps |-> CHOOSE w \in all[i] : TRUE])}

\* strip_padding: the last octet counts the padding, itself included, and the
\* others are zero.
StripPadding(padded, body) ==
  IF ~padded THEN {body}
  ELSE IF Len(body) = 0 \/ body[Len(body)] \notin 1 .. Len(body) THEN {}
  ELSE LET content == Len(body) - body[Len(body)] IN
       IF AllZero(SubSeq(body, content + 1, Len(body) - 1))
       THEN {SubSeq(body, 1, content)} ELSE {}

\* The octets of a packet after its header, when they are all there.
Body(input, pos, len) ==
  IF Has(input, pos, len) THEN {At(input, pos + 4, len - 4)} ELSE {}

\* parse_compound.
RECURSIVE ParseFrom(_, _)
ParseFrom(input, pos) ==
  IF pos >= Len(input) THEN {<<>>}
  ELSE IF ~Has(input, pos, 4) \/ input[pos + 1] \div 64 # 2 THEN {}
  ELSE LET first == input[pos + 1]
           len == (U(input, pos + 2, 2) + 1) * 4
           bodies == UNION {StripPadding((first \div 32) % 2 = 1, b) :
                              b \in Body(input, pos, len)}
           found == UNION {ParsePacket(first % 32, input[pos + 2], b) :
                             b \in bodies} IN
       IF found = {} THEN {}
       ELSE {<<p>> \o rest : p \in found, rest \in ParseFrom(input, pos + len)}
ParseCompound(input) == IF input = <<>> THEN {} ELSE ParseFrom(input, 0)

-----------------------------------------------------------------------------
(* What happens to a datagram.                                             *)

RtcpInit ==
  /\ packets \in Compounds
  /\ wire = {} /\ handled = "new" /\ read = FALSE /\ parsed = {}

Encode ==
  /\ handled = "new"
  /\ wire' = EncodeCompound(packets)
  /\ handled' = "encoded"
  /\ UNCHANGED <<packets, read, parsed>>

\* A peer pads its last packet.
PeerPads(n) ==
  LET last == packets[Len(packets)]
      before == EncodeCompound(SubSeq(packets, 1, Len(packets) - 1))
      pad == Zeros(n - 1) \o <<n>> IN
    /\ handled = "encoded" /\ wire # {} /\ ~read
    /\ wire' = {b \o Framed(e.count, e.type, Aligned(e.body) \o pad, TRUE) :
                  b \in before, e \in EncodePacket(last)}
    /\ handled' = "padded"
    /\ UNCHANGED <<packets, read, parsed>>

\* A peer writes its feedback with other chunks: run lengths, one for each
\* status or one for as many as there are and more, or one-bit vectors.
PeerChunks(p, form) ==
  LET s == SymbolsOf(p) IN
    CASE form = "runs" -> {[i \in DOMAIN s |-> s[i] * 2 ^ 13 + 1]}
      [] form = "run" /\ s # <<>> /\ (\A i \in DOMAIN s : s[i] = s[1]) ->
           {<<s[1] * 2 ^ 13 + Len(s) + 1>>}
      [] form = "bits" /\ (\A i \in DOMAIN s : s[i] < 2) ->
           {Vectors(s, 14, 1, 2 ^ 15)}
      [] OTHER -> {}

PeerRecodes(form) ==
  LET p == packets[1] IN
    /\ handled = "encoded" /\ wire # {} /\ ~read
    /\ Len(packets) = 1 /\ p.kind = "TWCC" /\ PeerChunks(p, form) # {}
    /\ wire' = {Framed(15, 205, TwccBody(p, c), FALSE) :
                  c \in PeerChunks(p, form)}
    /\ handled' = "recoded"
    /\ UNCHANGED <<packets, read, parsed>>

\* Only the first n octets come.
Truncate(n) ==
  /\ handled = "encoded" /\ ~read
  /\ \E w \in wire : n \in 0 .. Len(w) - 1 /\ wire' = {SubSeq(w, 1, n)}
  /\ handled' = "truncated"
  /\ UNCHANGED <<packets, read, parsed>>

Parse ==
  /\ wire # {} /\ ~read
  /\ parsed' = UNION {ParseCompound(w) : w \in wire}
  /\ read' = TRUE
  /\ UNCHANGED <<packets, wire, handled>>

Rest == (read \/ (handled # "new" /\ wire = {})) /\ UNCHANGED rtcpVars

RtcpNext ==
  \/ Encode \/ Parse \/ Rest
  \/ \E n \in Paddings : PeerPads(n)
  \/ \E form \in {"runs", "run", "bits"} : PeerRecodes(form)
  \/ \E n \in 0 .. 120 : Truncate(n)

RtcpSpec == RtcpInit /\ [][RtcpNext]_rtcpVars

-----------------------------------------------------------------------------
(* Properties.                                                             *)

\* A packet the codec does not interpret comes back with its body filled up to
\* a word.
Canonical(p) == IF p.kind = "Raw" THEN [p EXCEPT !.body = Aligned(@)] ELSE p
Sent == [i \in DOMAIN packets |-> Canonical(packets[i])]

\* The variables have the shape of what they stand for, and every datagram
\* that was not cut is made of whole words.
RtcpTypeOK ==
  /\ packets # <<>> /\ read \in BOOLEAN
  /\ handled \in {"new", "encoded", "padded", "recoded", "truncated"}
  /\ \A w \in wire : /\ w \in Seq(0 .. 255)
                     /\ handled # "truncated" => Len(w) % 4 = 0

\* Decoding inverts encoding: parse_compound returns the packets that
\* encode_compound was given, whatever stands beside them in the compound.
RoundTrip == read /\ handled = "encoded" => parsed = {Sent}

\* A peer that pads its datagram, or writes its feedback with run lengths or
\* one-bit vectors, is understood as one that does not: strip_padding and
\* decode_chunk.
PeerFormsAgree ==
  read /\ handled \in {"padded", "recoded"} => parsed = {Sent}

\* A datagram cut short is refused, unless the cut falls between two packets;
\* no packet is ever read from a part of itself.
TruncationIsRefused ==
  read /\ handled = "truncated" =>
    \/ parsed = {}
    \/ \E n \in 1 .. Len(packets) - 1 :
         /\ parsed = {SubSeq(Sent, 1, n)}
         /\ wire = EncodeCompound(SubSeq(packets, 1, n))

\* The NACK with which a peer asks for packet first and the ones at offsets
\* after it, up to sixteen.
PeerNack(first, offsets) ==
  [kind |-> "NACK", ssrc |-> 1, media |-> 2,
   entries |-> <<[id |-> first,
                  mask |-> SumOf({2 ^ (k - 1) : k \in offsets})]>>]

\* A NACK asks for exactly the packets its sender misses, across the end of
\* the sequence numbers too: expand_nack.
NacksNameTheLost ==
  \A first \in {7, 65534}, offsets \in SUBSET {1, 2, 16} :
    read /\ handled = "encoded" /\ packets = <<PeerNack(first, offsets)>> =>
      \A p \in parsed : ExpandNack(p[1].entries)
                          = {first} \cup {(first + k) % 2 ^ 16 : k \in offsets}

\* A datagram is read as what its sender meant, in any form, or refused.
DatagramsAreUnderstood ==
  /\ RtcpTypeOK /\ RoundTrip /\ PeerFormsAgree /\ TruncationIsRefused
  /\ NacksNameTheLost
=============================================================================

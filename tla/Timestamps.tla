----------------------------- MODULE Timestamps -----------------------------
(***************************************************************************)
(* The RTP timestamps of one down-track (rewrite_timestamp of              *)
(* crates/webrtc/sfu-core/src/down_track.rs).                              *)
(*                                                                         *)
(* The layers of a track share a clock and not an origin.  A down-track    *)
(* shifts the timestamps of the layer it forwards; when it moves to        *)
(* another, it continues one frame after the timestamp it sent last.       *)
(* Arithmetic is modulo 2^32, and later means less than half of it ahead.  *)
(***************************************************************************)
EXTENDS Integers

CONSTANTS
  Encodings, \* the layers of the track
  Origins,   \* how far the timestamps of the layers may be apart
  Wrap,      \* 2^32
  FirstStep, \* clock_rate / 30 or / 50
  StepLimit, \* 900_000
  MaxJump,   \* bound: ticks between two frames, and of a late packet
  MaxSilence \* bound: ticks without a forwarded packet

ASSUME TimeAssumption ==
  /\ {Wrap, FirstStep, StepLimit, MaxJump, MaxSilence} \subseteq Nat \ {0}
  /\ FirstStep < StepLimit /\ 2 * StepLimit <= Wrap + 1
  /\ 2 * MaxSilence < Wrap

VARIABLES
  rtpClock,  \* the clock of the publisher
  origin,    \* the timestamp of every layer at clock 0
  lastInput, \* current_input_ssrc: the layer forwarded last
  bases,     \* input_timestamp_base and output_timestamp_base
  last,      \* last_output_timestamp
  step,      \* timestamp_step
  silence,   \* history: ticks since the newest frame was forwarded
  delayed    \* history: the last packet sent was of an earlier frame

timeVars ==
  <<rtpClock, origin, lastInput, bases, last, step, silence, delayed>>

NoneYet == -1
Stamps == 0 .. Wrap - 1
Ahead(a, b) == (a - b) % Wrap
Input(l, age) == (rtpClock + origin[l] - age) % Wrap

TimeInit ==
  /\ rtpClock = 0
  /\ origin \in [Encodings -> Origins]
  /\ lastInput = NoneYet /\ last = NoneYet
  /\ \E first \in {0, Wrap - 1} : bases = [input |-> 0, output |-> first]
  /\ step = FirstStep /\ silence = 0 /\ delayed = FALSE

-----------------------------------------------------------------------------

\* Mutant of NewBases: a switch continues at the last timestamp itself.
NewBasesAtLast(l, input) ==
  IF lastInput = NoneYet THEN [bases EXCEPT !.input = input]
  ELSE IF lastInput # l THEN [input |-> input, output |-> last]
  ELSE bases

\* The bases of a switch, of the first packet, of any other.
NewBases(l, input) ==
  IF lastInput = NoneYet THEN [bases EXCEPT !.input = input]
  ELSE IF lastInput # l THEN [input |-> input,
                            output |-> (last + step) % Wrap]
  ELSE bases

\* rewrite_timestamp, for a packet of layer l that is age ticks old.
Rewrite(l, age) ==
  LET input == Input(l, age)
      output == (bases'.output + Ahead(input, bases'.input)) % Wrap
      moved == Ahead(output, last)
  IN  /\ bases' = NewBases(l, input)
      /\ step' = IF last # NoneYet /\ moved > 0 /\ moved < StepLimit
                   THEN moved ELSE step
      /\ last' = output
      /\ lastInput' = l

\* DownTrack::forward of a packet of the newest frame.
ForwardNewest(l) ==
  /\ Rewrite(l, 0)
  /\ silence' = 0 /\ delayed' = FALSE
  /\ UNCHANGED <<rtpClock, origin>>

\* DownTrack::forward of a packet the network has delayed.
ForwardDelayed(l, age) ==
  /\ Rewrite(l, age)
  /\ delayed' = TRUE
  /\ UNCHANGED <<rtpClock, origin, silence>>

\* The publisher captures the next frame.
NextFrame(jump) ==
  /\ silence + jump <= MaxSilence
  /\ rtpClock' = (rtpClock + jump) % Wrap
  /\ silence' = silence + jump
  /\ UNCHANGED <<origin, lastInput, bases, last, step, delayed>>

TimeNext ==
  \/ \E l \in Encodings : \/ ForwardNewest(l)
                          \/ \E age \in 1 .. MaxJump : ForwardDelayed(l, age)
  \/ \E jump \in 1 .. MaxJump : NextFrame(jump)

TimeSpec == TimeInit /\ [][TimeNext]_timeVars

-----------------------------------------------------------------------------
(* Properties.                                                             *)

\* What the subscriber sees is one stream: packets of one frame have one
\* timestamp, a later frame and every frame after a switch has a later one,
\* as far ahead as the publisher's clock within a layer.  The exception is
\* the packet after a delayed one: rewrite_timestamp takes the older
\* timestamp for the last, and a switch then continues from there.
TimestampsAdvance ==
  [][\A l \in Encodings :
       ForwardNewest(l) /\ last # NoneYet /\ ~delayed =>
         IF lastInput = l THEN Ahead(last', last) = silence
         ELSE Ahead(last', last) \in 1 .. StepLimit - 1]_timeVars
=============================================================================

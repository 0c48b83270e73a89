----------------------------- MODULE Congestion -----------------------------
(***************************************************************************)
(* Adaptive layers: the bandwidth estimate of one subscriber and the layer *)
(* of one of its subscriptions (crates/webrtc/congestion-control/src       *)
(* /{estimator,layer}.rs, apply_transport_feedback and register_sent of    *)
(* crates/services/media-node/src/sfu_runtime.rs).                         *)
(*                                                                         *)
(* Packets handed to the socket are remembered under the transport-wide    *)
(* number they carry, which is the one their publisher gave them.  Reports *)
(* of the subscriber name numbers; what the report says of remembered      *)
(* packets moves the target rate, and the target rate the layer.  Rates    *)
(* are in units of 10 kbit/s, time in seconds.  The smoothed delay trend   *)
(* is kept as the side of the two thresholds it is on.                     *)
(***************************************************************************)
EXTENDS Integers, Sequences, FiniteSets

CONSTANTS
  Numbers,       \* transport-wide numbers: 0 .. 2^16 - 1
  Options,       \* possible rates of the layers: LayerOptions
  Initial,       \* initial_bitrate_bps
  Minimum,       \* minimum_bitrate_bps
  Maximum,       \* maximum_bitrate_bps
  HistoryLength, \* history_packets
  HistoryAge,    \* history_age
  Hold,          \* upgrade_hold
  Deliveries     \* delivery rates that a report may show

ASSUME CongestionAssumption ==
  /\ {Initial, Minimum, Maximum, HistoryLength, HistoryAge, Hold}
       \subseteq Nat
  /\ Minimum <= Maximum /\ HistoryLength > 0 /\ Deliveries \subseteq Nat \ {0}

VARIABLES
  options,     \* the rate of every layer of the track
  history,     \* packets sent, with their age
  rate,        \* target_bitrate_bps
  trend,       \* delay_trend_micros: "low", "middle" or "high"
  sinceUpdate, \* seconds since last_update, up to 5; none before the first
  current,     \* LayerSelector: the committed layer
  candidate,   \* LayerSelector: the layer to move up to, and for how long
  aim,         \* target_layer of the down-track
  manual,      \* history: set_layer has been called since the last decision
  unseen,      \* history: a report matched nothing since the last selection
  headroom     \* history: for every layer, seconds since a selection that
               \* lacked the room to move up to it

estimator == <<history, rate, trend, sinceUpdate>>
selector == <<current, candidate>>
congestionVars == <<options, estimator, selector, aim, manual, unseen,
                    headroom>>

Longest == 5
Clamp(r) == IF r < Minimum THEN Minimum ELSE IF r > Maximum THEN Maximum
                                                            ELSE r
Smaller(a, b) == IF a < b THEN a ELSE b

CongestionInit ==
  /\ options \in Options
  /\ history = <<>> /\ rate = Clamp(Initial) /\ trend = "low"
  /\ sinceUpdate = {} /\ current = {} /\ candidate = {}
  /\ aim \in DOMAIN options
  /\ manual = FALSE /\ unseen = FALSE
  /\ headroom = [l \in DOMAIN options |-> 0]

-----------------------------------------------------------------------------
(* The estimator.                                                          *)

\* BandwidthEstimator::register_sent.
Kept(packet) ==
  LET room == IF Len(history) >= HistoryLength THEN Tail(history)
                                               ELSE history
  IN  Append(room, packet)

\* register_sent of the runtime.
RegisterSent(number) ==
  /\ history' = Kept([number |-> number, age |-> 0])
  /\ UNCHANGED <<options, rate, trend, sinceUpdate, selector, aim, manual,
                 unseen, headroom>>

\* match_feedback: the numbers that some remembered packet has.
Matched(numbers) == {history[i].number : i \in DOMAIN history} \cap numbers

\* calculate_metrics and classify, for the statuses of the matched packets:
\* loss above 100 per mille or a high trend; below 20 and a low one.
Usage(received, lost, level) ==
  LET total == received + lost
      loss == IF total = 0 THEN 0 ELSE (lost * 1000) \div total
  IN  CASE loss > 100 \/ level = "high" -> "over"
        [] loss < 20 /\ level = "low" -> "under"
        [] ~(loss > 100 \/ level = "high") /\ ~(loss < 20 /\ level = "low")
             -> "normal"

\* update_target.
Updated(usage, delivery) ==
  LET elapsed == IF sinceUpdate = {} THEN 1
                 ELSE CHOOSE u \in sinceUpdate : TRUE
      step == IF rate \div 20 > 1 THEN rate \div 20 ELSE 1
      raised == rate + step * elapsed
  IN  Clamp(CASE usage = "over" ->
                   ((IF delivery > 0 THEN Smaller(rate, delivery)
                                     ELSE rate) * 85) \div 100
              [] usage = "under" ->
                   IF delivery > 0
                   THEN Smaller(raised, (delivery * 11) \div 10)
                                   ELSE raised
              [] usage = "normal" -> rate)

-----------------------------------------------------------------------------
(* The selector.                                                           *)

\* The dearest layer the rate affords, or the cheapest.
Affordable(r) ==
  LET within == {l \in DOMAIN options : options[l] <= r}
  IN  IF within # {}
        THEN {l \in within : \A m \in within : options[m] <= options[l]}
        ELSE {l \in DOMAIN options :
                \A m \in DOMAIN options : options[l] <= options[m]}

Required(l) == (options[l] * 120) \div 100

\* Mutant of Select: the wait is not begun again when headroom is missing.
SelectPatient(best, r) ==
  LET now == CHOOSE l \in current : TRUE
      held == candidate # {} /\ \A c \in candidate : c.layer = best
      ripe == held /\ \A c \in candidate : c.age >= Hold
  IN  IF current = {}
        THEN current' = {best} /\ UNCHANGED candidate
      ELSE IF options[best] < options[now]
        THEN current' = {best} /\ candidate' = {}
      ELSE IF options[best] = options[now]
        THEN candidate' = {} /\ UNCHANGED current
      ELSE IF r < Required(best) THEN UNCHANGED selector
      ELSE IF ripe
        THEN current' = {best} /\ candidate' = {}
      ELSE /\ candidate' = IF held THEN candidate
                                   ELSE {[layer |-> best, age |-> 0]}
           /\ UNCHANGED current

\* Mutant of Select: a step down waits like a step up.
SelectReluctant(best, r) ==
  LET now == CHOOSE l \in current : TRUE
      held == candidate # {} /\ \A c \in candidate : c.layer = best
      ripe == held /\ \A c \in candidate : c.age >= Hold
  IN  IF current = {}
        THEN current' = {best} /\ UNCHANGED candidate
      ELSE IF options[best] = options[now]
        THEN candidate' = {} /\ UNCHANGED current
      ELSE IF options[best] > options[now] /\ r < Required(best)
        THEN candidate' = {} /\ UNCHANGED current
      ELSE IF ripe
        THEN current' = {best} /\ candidate' = {}
      ELSE /\ candidate' = IF held THEN candidate
                                   ELSE {[layer |-> best, age |-> 0]}
           /\ UNCHANGED current

\* LayerSelector::select with the rate r, of which best is affordable.
Select(best, r) ==
  LET now == CHOOSE l \in current : TRUE
      held == candidate # {} /\ \A c \in candidate : c.layer = best
      ripe == held /\ \A c \in candidate : c.age >= Hold
  IN  IF current = {}
        THEN current' = {best} /\ UNCHANGED candidate
      ELSE IF options[best] < options[now]
        THEN current' = {best} /\ candidate' = {}
      ELSE IF options[best] = options[now] \/ r < Required(best)
        THEN candidate' = {} /\ UNCHANGED current
      ELSE IF ripe
        THEN current' = {best} /\ candidate' = {}
      ELSE /\ candidate' = IF held THEN candidate
                                   ELSE {[layer |-> best, age |-> 0]}
           /\ UNCHANGED current

\* The part of apply_transport_feedback after the estimate, and
\* set_target_layer.
ApplyDecision(r) ==
  /\ \E best \in Affordable(r) : Select(best, r)
  /\ aim' = IF current' # current THEN CHOOSE l \in current' : TRUE ELSE aim
  /\ manual' = (manual /\ current' = current)
  /\ unseen' = FALSE
  /\ headroom' = [l \in DOMAIN options |->
                    IF r >= Required(l) THEN headroom[l] ELSE 0]

\* apply_transport_feedback, for a report on some numbers of which the
\* subscriber has got some.
Feedback(numbers, got) ==
  LET known == Matched(numbers)
      received == Cardinality(known \cap got)
      lost == Cardinality(known \ got)
  IN  \E delivery \in (IF received = 0 THEN {0} ELSE Deliveries),
         level \in (IF received < 2 THEN {trend}
                    ELSE {"low", "middle", "high"}) :
        /\ trend' = level
        /\ rate' = Updated(Usage(received, lost, level), delivery)
        /\ sinceUpdate' = {0}
        /\ IF known = {}
             THEN /\ unseen' = TRUE
                  /\ UNCHANGED <<selector, aim, manual, headroom>>
             ELSE ApplyDecision(rate')
        /\ UNCHANGED <<options, history>>

\* set_layer of the API: the down-track is aimed elsewhere, the selector is
\* not told.
SetLayer(l) ==
  /\ l # aim
  /\ aim' = l /\ manual' = TRUE
  /\ UNCHANGED <<options, estimator, selector, unseen, headroom>>

\* A second passes; expire_history is applied at once.
Second ==
  /\ history' = SelectSeq([i \in DOMAIN history |->
                             [history[i] EXCEPT !.age = @ + 1]],
                          LAMBDA p : p.age <= HistoryAge)
  /\ sinceUpdate' = {Smaller(u + 1, Longest) : u \in sinceUpdate}
  /\ candidate' = {[c EXCEPT !.age = Smaller(@ + 1, Hold)] : c \in candidate}
  /\ headroom' = [l \in DOMAIN options |-> Smaller(headroom[l] + 1, Hold)]
  /\ UNCHANGED <<options, rate, trend, current, aim, manual, unseen>>

CongestionNext ==
  \/ \E n \in Numbers : RegisterSent(n)
  \/ \E numbers \in SUBSET Numbers \ {{}} : \E got \in SUBSET numbers :
       Feedback(numbers, got)
  \/ \E l \in DOMAIN options : SetLayer(l)
  \/ Second

CongestionSpec == CongestionInit /\ [][CongestionNext]_congestionVars

-----------------------------------------------------------------------------
(* Properties.                                                             *)

CongestionTypeOK ==
  /\ options \in Options
  /\ Len(history) <= HistoryLength
  /\ \A i \in DOMAIN history : history[i].age \in 0 .. HistoryAge
  /\ rate \in Minimum .. Maximum
  /\ trend \in {"low", "middle", "high"}
  /\ sinceUpdate \subseteq 0 .. Longest /\ Cardinality(sinceUpdate) <= 1
  /\ current \subseteq DOMAIN options /\ Cardinality(current) <= 1
  /\ Cardinality(candidate) <= 1 /\ aim \in DOMAIN options

\* "Downgrades happen immediately.": the committed layer costs no more than
\* the target rate, or is the cheapest, after any sequence of reports; not
\* after a report that lowered the rate and matched no packet, for which
\* apply_transport_feedback selects nothing.
CommittedIsAffordable ==
  \A l \in current :
    \/ options[l] <= rate \/ unseen
    \/ \A m \in DOMAIN options : options[l] <= options[m]

\* "Upgrades require 20% headroom for two seconds.": when the selector moves
\* to a dearer layer, every report that selected a layer in the last two
\* seconds, the present one included, has shown the headroom for it.
UpgradesAreEarned ==
  [][\A l \in current, m \in current' :
       options[m] > options[l] =>
         headroom[m] >= Hold /\ rate' >= Required(m)]_congestionVars

\* The down-track is aimed at the layer the selector has committed to,
\* unless the API has aimed it elsewhere since the last decision: the
\* LayerSelector and target_layer are two copies of one choice.
AimIsCommitted == current # {} /\ ~manual => current = {aim}

\* The layer that is sent is the one that was chosen, and the rate affords it.
LayersAreAffordable ==
  /\ CongestionTypeOK /\ CommittedIsAffordable /\ AimIsCommitted
=============================================================================

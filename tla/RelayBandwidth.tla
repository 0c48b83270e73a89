--------------------------- MODULE RelayBandwidth ---------------------------
(***************************************************************************)
(* BandwidthLimiter of the TURN server: the token bucket of an allocation. *)
(* The clock has Ticks units in a second (10^9 in the code); the bucket is *)
(* refilled in whole bytes, and the remainder of a refill is dropped.      *)
(***************************************************************************)
EXTENDS Integers

CONSTANTS
  Rate,        \* bytes_per_second
  Ticks,       \* clock units in a second
  MaxDatagram, \* bytes of the largest datagram
  MaxClock     \* model bound

ASSUME BandwidthAssumption ==
  /\ Rate \in Nat /\ Ticks \in Nat \ {0}
  /\ MaxDatagram \in Nat /\ MaxClock \in Nat

VARIABLES
  clock,      \* the time
  available,  \* available_bytes
  updated,    \* updated_at
  since,      \* history: the start of some interval
  passed      \* history: bytes relayed since then

bandwidthVars == <<clock, available, updated, since, passed>>

BandwidthInit ==
  /\ clock = 0 /\ available = 2 * Rate /\ updated = 0
  /\ since = 0 /\ passed = 0

Least(m, n) == IF m <= n THEN m ELSE n

\* The bytes that accrued since the last refill.
Replenished == (Rate * (clock - updated)) \div Ticks

\* Mutant of Refilled: the bucket has no limit.
RefilledUnbounded == available + Replenished

Refilled == Least(available + Replenished, 2 * Rate)

\* consume: a refill of nothing keeps updated_at, so that short intervals add
\* up; a datagram larger than what is left is dropped.
Consume(bytes) ==
  /\ updated' = IF Replenished # 0 THEN clock ELSE updated
  /\ IF bytes <= Refilled
     THEN available' = Refilled - bytes /\ passed' = passed + bytes
     ELSE available' = Refilled /\ passed' = passed
  /\ UNCHANGED <<clock, since>>

Advance ==
  /\ clock < MaxClock /\ clock' = clock + 1
  /\ UNCHANGED <<available, updated, since, passed>>

\* The interval of the property begins.
Observe ==
  /\ since' = clock /\ passed' = 0
  /\ UNCHANGED <<clock, available, updated>>

BandwidthNext ==
  \/ Advance \/ Observe
  \/ \E bytes \in 0 .. MaxDatagram : Consume(bytes)

BandwidthSpec == BandwidthInit /\ [][BandwidthNext]_bandwidthVars

\* In every interval BandwidthLimiter lets through at most its burst of two
\* seconds and what the configured rate yields in the interval, to within the
\* byte that a refill of nothing leaves for later, however datagrams, refills
\* and pauses interleave.
RateIsBounded ==
  Ticks * passed <= Ticks * (2 * Rate + 1) + Rate * (clock - since)
=============================================================================

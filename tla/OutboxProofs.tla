---------------------------- MODULE OutboxProofs ----------------------------
(***************************************************************************)
(* Proofs about Outbox, for any set of rows and dispatchers and any batch  *)
(* size, lease, backoff cap, duplicate window and retention.               *)
(***************************************************************************)
EXTENDS Outbox, TLAPS

\* What Next does, one dispatcher step at a time.
DispatcherStep(d) ==
  \/ Claim(d)
  \/ \E id \in Ids : PublishOk(d, id) \/ PublishFails(d, id)
  \/ Ack(d) \/ AckFails(d)
  \/ Retry(d) \/ RetryFails(d)
  \/ Crash(d)

\* The delay retry_delay asks for never exceeds its cap.
LEMMA RetryDelayBounded ==
  ASSUME NEW a \in 0 .. BackoffCap + 1
  PROVE  RetryDelay(a) \in 0 .. 2 ^ BackoffCap
<1> DEFINE n == IF a = 0 THEN 0 ELSE Least(a - 1, BackoffCap)
<1>1. n \in 0 .. BackoffCap
  BY TimingAssumption DEF Least
<1>2. 2 ^ n \in 1 .. 2 ^ BackoffCap
  BY <1>1, BackoffAssumption
<1>3. RetryDelay(a) = 2 ^ n
  BY DEF RetryDelay
<1> QED
  BY <1>2, <1>3, BackoffAssumption

\* A timer that runs down stays within its bound.
LEMMA DownBounded ==
  ASSUME NEW m \in Nat, NEW n \in 0 .. m
  PROVE  Down(n) \in 0 .. m
  BY DEF Down

\* acknowledge_outbox and retry_outbox keep the table well-formed.
LEMMA StatementsType ==
  ASSUME OutboxTypeOK, NEW d \in Dispatchers, NEW id \in Ids
  PROVE  /\ Acknowledged(d, id) \in [Ids -> Row]
         /\ Released(d, id) \in [Ids -> Row]
<1>1. 0 \in 0 .. LeaseTtl /\ outbox[id] \in Row
  BY TimingAssumption DEF OutboxTypeOK
<1>2. [outbox[id] EXCEPT !.state = "delivered", !.owner = Nobody, !.lease = 0]
        \in Row
  BY <1>1 DEF Row, RowStates
<1>3. RetryDelay(outbox[id].attempts) \in 0 .. 2 ^ BackoffCap
  BY <1>1, RetryDelayBounded DEF Row
<1>4. [outbox[id] EXCEPT !.wait = RetryDelay(outbox[id].attempts),
                         !.owner = Nobody, !.lease = 0] \in Row
  BY <1>1, <1>3 DEF Row
<1> QED
  BY <1>2, <1>4 DEF OutboxTypeOK, Acknowledged, Released

\* retry_outbox changes the state of no row.
LEMMA ReleasedKeepsState ==
  ASSUME OutboxTypeOK, NEW d \in Dispatchers, NEW id \in Ids
  PROVE  \A other \in Ids :
           Released(d, id)[other].state = outbox[other].state
<1>1. outbox[id] \in Row /\ outbox \in [Ids -> Row]
  BY DEF OutboxTypeOK
<1> DEFINE row == [outbox[id] EXCEPT !.wait = RetryDelay(outbox[id].attempts),
                                     !.owner = Nobody, !.lease = 0]
<1>2. row.state = outbox[id].state
  BY <1>1 DEF Row
<1>3. Released(d, id) = outbox \/ Released(d, id) = [outbox EXCEPT ![id] = row]
  BY DEF Released
<1> HIDE DEF row
<1> QED
  BY <1>1, <1>2, <1>3

\* A dispatcher that is not idle works on a row, so the statements it sends
\* name one.
Working ==
  \A d \in Dispatchers : pc[d] # "idle" => cur[d] \in Ids

\* What the clock does to a row keeps its type.
LEMMA AgedRow ==
  ASSUME NEW row \in Row, NEW lease \in 0 .. LeaseTtl,
         NEW wait \in 0 .. 2 ^ BackoffCap, NEW age \in 0 .. Retention + 1
  PROVE  [row EXCEPT !.lease = lease, !.wait = wait, !.age = age] \in Row
  BY DEF Row

\* Type correctness: every table, dispatcher and broker record keeps the shape
\* the code's structures give it.
THEOREM TypeCorrect == OutboxSpec => [](OutboxTypeOK /\ Working)
<1>1. OutboxInit => OutboxTypeOK /\ Working
  BY TimingAssumption, BackoffAssumption, NobodyAssumption
     DEF OutboxInit, OutboxTypeOK, Working, Row, RowStates
<1>2. OutboxTypeOK /\ Working /\ [OutboxNext]_outboxVars
        => OutboxTypeOK' /\ Working'
  <2> SUFFICES ASSUME OutboxTypeOK, Working, [OutboxNext]_outboxVars
               PROVE  OutboxTypeOK' /\ Working'
    OBVIOUS
  <2>1. ASSUME NEW id \in Ids, Insert(id) \/ Prune(id)
        PROVE  OutboxTypeOK' /\ Working'
    <3>1. outbox[id] \in Row
      BY DEF OutboxTypeOK
    <3>2. /\ [outbox[id] EXCEPT !.state = "pending"] \in Row
          /\ [outbox[id] EXCEPT !.state = "pruned"] \in Row
      BY <3>1 DEF Row, RowStates
    <3> QED
      BY <2>1, <3>2 DEF Insert, Prune, OutboxTypeOK, Working
  <2>2. ASSUME NEW d \in Dispatchers, DispatcherStep(d)
        PROVE  OutboxTypeOK' /\ Working'
    <3>1. CASE Claim(d)
      <4>1. \A id \in Ids :
              Least(outbox[id].attempts + 1, BackoffCap + 1)
                \in 0 .. BackoffCap + 1
        BY TimingAssumption DEF OutboxTypeOK, Row, Least
      <4>2. Selected \subseteq Ids
        BY DEF Selected, Claimable
      <4>3. LeaseTtl \in 0 .. LeaseTtl
        BY TimingAssumption
      <4>4. \A id \in Ids :
              [outbox[id] EXCEPT
                 !.owner = d, !.lease = LeaseTtl,
                 !.attempts = Least(@ + 1, BackoffCap + 1)] \in Row
        <5> TAKE id \in Ids
        <5> DEFINE attempts == Least(outbox[id].attempts + 1, BackoffCap + 1)
        <5>1. outbox[id] \in Row /\ attempts \in 0 .. BackoffCap + 1
          BY <4>1 DEF OutboxTypeOK
        <5> HIDE DEF attempts
        <5>2. [outbox[id] EXCEPT !.owner = d, !.lease = LeaseTtl,
                                 !.attempts = attempts] \in Row
          BY <4>3, <5>1 DEF Row
        <5> QED
          BY <5>2 DEF attempts
      <4>5. outbox' \in [Ids -> Row]
        BY <3>1, <4>4 DEF Claim, OutboxTypeOK
      <4> QED
        BY <3>1, <4>2, <4>5 DEF Claim, OutboxTypeOK, Working
    <3>2. CASE \E id \in Ids : PublishOk(d, id) \/ PublishFails(d, id)
      <4> PICK id \in Ids : PublishOk(d, id) \/ PublishFails(d, id)
        BY <3>2
      <4>1. /\ copies' \in [Ids -> 0 .. MaxCopies]
            /\ dedup' \in [Ids -> 0 .. DupWindow]
        BY TimingAssumption
           DEF PublishOk, PublishFails, Store, Least, OutboxTypeOK
      <4> QED
        BY <4>1 DEF PublishOk, PublishFails, OutboxTypeOK, Working
    <3>3. CASE Ack(d)
      BY <3>3, StatementsType DEF Ack, OutboxTypeOK, Working
    <3>4. CASE AckFails(d)
      BY <3>4, StatementsType DEF AckFails, OutboxTypeOK, Working
    <3>5. CASE Retry(d)
      BY <3>5, StatementsType DEF Retry, OutboxTypeOK, Working
    <3>6. CASE RetryFails(d)
      BY <3>6, StatementsType DEF RetryFails, OutboxTypeOK, Working
    <3>7. CASE Crash(d)
      BY <3>7 DEF Crash, OutboxTypeOK, Working
    <3> QED
      BY <2>2, <3>1, <3>2, <3>3, <3>4, <3>5, <3>6, <3>7 DEF DispatcherStep
  <2>3. CASE Tick
    <3>1. \A id \in Ids :
            /\ Down(outbox[id].lease) \in 0 .. LeaseTtl
            /\ Down(outbox[id].wait) \in 0 .. 2 ^ BackoffCap
            /\ Least(outbox[id].age + 1, Retention + 1) \in 0 .. Retention + 1
            /\ Down(dedup[id]) \in 0 .. DupWindow
      <4> TAKE id \in Ids
      <4>1. /\ outbox[id].lease \in 0 .. LeaseTtl
            /\ outbox[id].wait \in 0 .. 2 ^ BackoffCap
            /\ outbox[id].age \in 0 .. Retention + 1
            /\ dedup[id] \in 0 .. DupWindow
        BY DEF OutboxTypeOK, Row
      <4>2. Least(outbox[id].age + 1, Retention + 1) \in 0 .. Retention + 1
        BY <4>1, TimingAssumption DEF Least
      <4> QED
        BY <4>1, <4>2, DownBounded, TimingAssumption, BackoffAssumption
    <3>2. \A id \in Ids :
            [outbox[id] EXCEPT
               !.lease = Down(@),
               !.wait = Down(@),
               !.age = IF outbox[id].state = "delivered"
                       THEN Least(@ + 1, Retention + 1) ELSE @] \in Row
      <4> TAKE id \in Ids
      <4> DEFINE age == IF outbox[id].state = "delivered"
                        THEN Least(outbox[id].age + 1, Retention + 1)
                        ELSE outbox[id].age
      <4>1. outbox[id] \in Row
        BY DEF OutboxTypeOK
      <4>2. outbox[id].age \in 0 .. Retention + 1
        BY <4>1 DEF Row
      <4>3. age \in 0 .. Retention + 1
        BY <3>1, <4>2
      <4> HIDE DEF age
      <4>4. [outbox[id] EXCEPT !.lease = Down(outbox[id].lease),
               !.wait = Down(outbox[id].wait), !.age = age] \in Row
        BY <3>1, <4>1, <4>3, AgedRow
      <4> QED
        BY <4>4 DEF age
    <3> QED
      BY <2>3, <3>1, <3>2 DEF Tick, OutboxTypeOK, Working
  <2>4. CASE UNCHANGED outboxVars
    BY <2>4 DEF outboxVars, OutboxTypeOK, Working
  <2> QED
    BY <2>1, <2>2, <2>3, <2>4 DEF OutboxNext, DispatcherStep
<1> QED
  BY <1>1, <1>2, PTL DEF OutboxSpec

-----------------------------------------------------------------------------
(* No event is lost.                                                       *)

\* A copy JetStream has stored stays counted.
LEMMA StoreKeeps ==
  ASSUME OutboxTypeOK, NEW id \in Ids, Store(id)
  PROVE  /\ copies'[id] > 0 \/ dedup[id] > 0
         /\ \A other \in Ids : copies[other] > 0 => copies'[other] > 0
  BY TimingAssumption DEF Store, OutboxTypeOK, Least

\* A message in JetStream's duplicate window has been stored.
WindowIsStored == \A id \in Ids : dedup[id] > 0 => copies[id] > 0

\* No event is lost: what acknowledge_outbox marks delivered, and what the
\* cleanup deletes afterwards, is in the stream.
THEOREM NoEventLost == OutboxSpec => []DeliveredIsStored
<1> DEFINE Inv == DeliveredIsStored /\ AckingIsStored /\ WindowIsStored
<1>1. OutboxInit => Inv
  BY DEF OutboxInit, DeliveredIsStored, AckingIsStored, WindowIsStored
<1>2. OutboxTypeOK /\ Working /\ Inv /\ [OutboxNext]_outboxVars => Inv'
  <2> SUFFICES ASSUME OutboxTypeOK, Working, Inv, [OutboxNext]_outboxVars
               PROVE  Inv'
    OBVIOUS
  <2> USE DEF DeliveredIsStored, AckingIsStored, WindowIsStored
  <2>1. ASSUME NEW id \in Ids, Insert(id) \/ Prune(id)
        PROVE  Inv'
    BY <2>1 DEF Insert, Prune, OutboxTypeOK, Row
  <2>2. ASSUME NEW d \in Dispatchers, DispatcherStep(d)
        PROVE  Inv'
    <3>1. CASE Claim(d)
      <4>1. \A id \in Ids : outbox'[id].state = outbox[id].state
        <5> TAKE id \in Ids
        <5>1. outbox[id] \in Row
          BY DEF OutboxTypeOK
        <5>2. \/ outbox'[id] = outbox[id]
              \/ \E lease, attempts :
                   outbox'[id] = [outbox[id] EXCEPT !.owner = d,
                                    !.lease = lease, !.attempts = attempts]
          BY <3>1 DEF Claim
        <5> QED
          BY <5>1, <5>2 DEF Row
      <4> QED
        BY <3>1, <4>1 DEF Claim
    <3>2. CASE \E id \in Ids : PublishOk(d, id) \/ PublishFails(d, id)
      <4> PICK id \in Ids : PublishOk(d, id) \/ PublishFails(d, id)
        BY <3>2
      <4>1. /\ \A other \in Ids : copies[other] > 0 => copies'[other] > 0
            /\ PublishOk(d, id) => copies'[id] > 0
        BY StoreKeeps DEF PublishOk, PublishFails
      <4>2. WindowIsStored'
        BY TimingAssumption
           DEF PublishOk, PublishFails, Store, OutboxTypeOK, Least
      <4>3. DeliveredIsStored'
        BY <4>1 DEF PublishOk, PublishFails
      <4>4. AckingIsStored'
        BY <4>1 DEF PublishOk, PublishFails, OutboxTypeOK
      <4> QED
        BY <4>2, <4>3, <4>4
    <3>3. CASE Ack(d) \/ AckFails(d)
      <4>1. /\ cur[d] \in Ids /\ copies[cur[d]] > 0
            /\ UNCHANGED <<copies, dedup>>
        BY <3>3 DEF Ack, AckFails
      <4>2. DeliveredIsStored'
        BY <3>3, <4>1 DEF Ack, AckFails, Acknowledged, OutboxTypeOK, Row
      <4>3. AckingIsStored'
        BY <3>3, <4>1 DEF Ack, AckFails, OutboxTypeOK
      <4> QED
        BY <4>1, <4>2, <4>3
    <3>4. CASE Retry(d) \/ RetryFails(d)
      <4>1. cur[d] \in Ids /\ UNCHANGED <<copies, dedup>>
        BY <3>4 DEF Retry, RetryFails, Working
      <4>2. \A id \in Ids : outbox'[id].state = outbox[id].state
        BY <3>4, <4>1, ReleasedKeepsState DEF Retry, RetryFails
      <4>3. DeliveredIsStored'
        BY <4>1, <4>2
      <4>4. AckingIsStored'
        BY <3>4, <4>1 DEF Retry, RetryFails, OutboxTypeOK
      <4> QED
        BY <4>1, <4>3, <4>4
    <3>5. CASE Crash(d)
      BY <3>5 DEF Crash, OutboxTypeOK
    <3> QED
      BY <2>2, <3>1, <3>2, <3>3, <3>4, <3>5 DEF DispatcherStep
  <2>3. CASE Tick
    <3>1. \A id \in Ids : outbox'[id].state = outbox[id].state
      <4> TAKE id \in Ids
      <4>1. outbox[id] \in Row
        BY DEF OutboxTypeOK
      <4>2. PICK lease, wait, age :
              outbox'[id] = [outbox[id] EXCEPT !.lease = lease, !.wait = wait,
                                               !.age = age]
        BY <2>3 DEF Tick
      <4> QED
        BY <4>1, <4>2 DEF Row
    <3>2. \A id \in Ids : dedup'[id] > 0 => dedup[id] > 0
      <4>1. dedup' = [id \in Ids |-> Down(dedup[id])]
        BY <2>3 DEF Tick
      <4>2. \A id \in Ids : dedup[id] \in 0 .. DupWindow
        BY DEF OutboxTypeOK
      <4> QED
        BY <4>1, <4>2 DEF Down
    <3> QED
      BY <2>3, <3>1, <3>2 DEF Tick
  <2>4. CASE UNCHANGED outboxVars
    BY <2>4 DEF outboxVars
  <2> QED
    BY <2>1, <2>2, <2>3, <2>4 DEF OutboxNext, DispatcherStep
<1> QED
  BY <1>1, <1>2, TypeCorrect, PTL DEF OutboxSpec

-----------------------------------------------------------------------------
(* The lease is a fence.                                                   *)

\* A live lease ends only by a statement of its owner about that message: a
\* dispatcher that lost its lease can neither acknowledge nor release the row
\* under the new owner.
THEOREM LeaseIsFence == OutboxSpec => LiveLeaseIsFence
<1>1. OutboxTypeOK /\ Working /\ [OutboxNext]_outboxVars => FenceStep
  <2> SUFFICES ASSUME OutboxTypeOK, Working, [OutboxNext]_outboxVars
               PROVE  FenceStep
    OBVIOUS
  <2> SUFFICES ASSUME NEW id \in Ids, NEW d \in Dispatchers,
                      outbox[id].owner = d, outbox[id].lease > 0,
                      outbox'[id].owner # d
               PROVE  pc[d] \in {"ack", "retry"} /\ cur[d] = id
    BY DEF FenceStep
  <2>0. outbox \in [Ids -> Row] /\ outbox[id] \in Row
    BY DEF OutboxTypeOK
  <2>1. ASSUME NEW i \in Ids, Insert(i) \/ Prune(i)
        PROVE  FALSE
    BY <2>0, <2>1 DEF Insert, Prune, Row
  <2>2. ASSUME NEW e \in Dispatchers, DispatcherStep(e)
        PROVE  pc[d] \in {"ack", "retry"} /\ cur[d] = id
    <3>1. CASE Claim(e)
      <4>1. id \notin Selected
        BY DEF Selected, Claimable
      <4> QED
        BY <3>1, <4>1 DEF Claim
    <3>2. CASE \E i \in Ids : PublishOk(e, i) \/ PublishFails(e, i)
      BY <3>2 DEF PublishOk, PublishFails
    <3>3. CASE Ack(e) \/ AckFails(e)
      <4>1. /\ outbox' = Acknowledged(e, cur[e])
            /\ pc[e] = "ack" /\ cur[e] \in Ids
        BY <3>3 DEF Ack, AckFails, Working
      <4>2. cur[e] = id /\ Owned(e, id)
        BY <2>0, <4>1 DEF Acknowledged
      <4> QED
        BY <4>1, <4>2 DEF Owned
    <3>4. CASE Retry(e) \/ RetryFails(e)
      <4>1. outbox' = Released(e, cur[e]) /\ pc[e] = "retry" /\ cur[e] \in Ids
        BY <3>4 DEF Retry, RetryFails, Working
      <4>2. cur[e] = id /\ Owned(e, id)
        BY <2>0, <4>1 DEF Released
      <4> QED
        BY <4>1, <4>2 DEF Owned
    <3>5. CASE Crash(e)
      BY <3>5 DEF Crash
    <3> QED
      BY <2>2, <3>1, <3>2, <3>3, <3>4, <3>5 DEF DispatcherStep
  <2>3. CASE Tick
    BY <2>0, <2>3 DEF Tick, Row
  <2>4. CASE UNCHANGED outboxVars
    BY <2>4 DEF outboxVars
  <2> QED
    BY <2>1, <2>2, <2>3, <2>4 DEF OutboxNext, DispatcherStep
<1> QED
  BY <1>1, TypeCorrect, PTL DEF OutboxSpec, LiveLeaseIsFence
-----------------------------------------------------------------------------
(* The life of a row.                                                      *)

\* What one step can do to a row: nothing but run its lease down, insert it,
\* claim or release it while it is pending, settle it, or delete it.
RowStep(id) ==
  LET old == outbox[id] new == outbox'[id] IN
    \/ /\ new.state = old.state /\ new.owner = old.owner
       /\ new.lease \in {old.lease, Down(old.lease)}
    \/ old.state \in {"absent", "pending"} /\ new.state = "pending"
    \/ /\ old.state = "pending" /\ new.state = "delivered"
       /\ new.owner = Nobody /\ new.lease = 0
    \/ /\ old.state = "delivered" /\ new.state = "pruned"
       /\ old.age > Retention
       /\ new.owner = old.owner /\ new.lease = old.lease

\* Every statement of the store, and the clock, does one of these.
LEMMA RowSteps ==
  ASSUME OutboxTypeOK, Working, [OutboxNext]_outboxVars, NEW id \in Ids
  PROVE  RowStep(id)
<1>0. outbox \in [Ids -> Row] /\ outbox[id] \in Row
  BY DEF OutboxTypeOK
<1>1. ASSUME NEW i \in Ids, Insert(i) \/ Prune(i)
      PROVE  RowStep(id)
  BY <1>0, <1>1 DEF Insert, Prune, RowStep, Row
<1>2. ASSUME NEW d \in Dispatchers, DispatcherStep(d)
      PROVE  RowStep(id)
  <2>1. CASE Claim(d)
    <3>1. CASE id \in Selected
      <4>1. outbox[id].state = "pending"
        BY <3>1 DEF Selected, Claimable
      <4>2. PICK lease, attempts :
              outbox'[id] = [outbox[id] EXCEPT !.owner = d, !.lease = lease,
                                               !.attempts = attempts]
        BY <2>1, <3>1 DEF Claim
      <4> QED
        BY <1>0, <4>1, <4>2 DEF RowStep, Row
    <3>2. CASE id \notin Selected
      BY <2>1, <3>2 DEF Claim, RowStep
    <3> QED
      BY <3>1, <3>2
  <2>2. CASE \E i \in Ids : PublishOk(d, i) \/ PublishFails(d, i)
    BY <2>2 DEF PublishOk, PublishFails, RowStep
  <2>3. CASE Ack(d) \/ AckFails(d)
    <3>1. outbox' = outbox \/ outbox' = Acknowledged(d, cur[d])
      BY <2>3 DEF Ack, AckFails
    <3>2. \/ outbox'[id] = outbox[id]
          \/ /\ outbox[id].state = "pending"
             /\ outbox'[id] = [outbox[id] EXCEPT !.state = "delivered",
                                 !.owner = Nobody, !.lease = 0]
      BY <1>0, <3>1 DEF Acknowledged, Owned
    <3>3. CASE outbox'[id] = outbox[id]
      BY <3>3 DEF RowStep
    <3>4. CASE outbox'[id] # outbox[id]
      <4>1. /\ outbox'[id].state = "delivered"
            /\ outbox'[id].owner = Nobody /\ outbox'[id].lease = 0
        BY <1>0, <3>2, <3>4 DEF Row
      <4> QED
        BY <3>2, <3>4, <4>1 DEF RowStep
    <3> QED
      BY <3>3, <3>4
  <2>4. CASE Retry(d) \/ RetryFails(d)
    <3>1. outbox' = outbox \/ outbox' = Released(d, cur[d])
      BY <2>4 DEF Retry, RetryFails
    <3>2. \/ outbox'[id] = outbox[id]
          \/ /\ outbox[id].state = "pending"
             /\ outbox'[id] = [outbox[id] EXCEPT
                                 !.wait = RetryDelay(outbox[id].attempts),
                                 !.owner = Nobody, !.lease = 0]
      BY <1>0, <3>1 DEF Released, Owned
    <3>3. CASE outbox'[id] = outbox[id]
      BY <3>3 DEF RowStep
    <3>4. CASE outbox'[id] # outbox[id]
      <4>1. outbox'[id].state = "pending"
        BY <1>0, <3>2, <3>4 DEF Row
      <4> QED
        BY <3>2, <3>4, <4>1 DEF RowStep
    <3> QED
      BY <3>3, <3>4
  <2>5. CASE Crash(d)
    BY <2>5 DEF Crash, RowStep
  <2> QED
    BY <1>2, <2>1, <2>2, <2>3, <2>4, <2>5 DEF DispatcherStep
<1>3. CASE Tick
  <2>1. PICK wait, age :
          outbox'[id] = [outbox[id] EXCEPT !.lease = Down(outbox[id].lease),
                                           !.wait = wait, !.age = age]
    BY <1>3 DEF Tick
  <2> QED
    BY <1>0, <2>1 DEF RowStep, Row
<1>4. CASE UNCHANGED outboxVars
  BY <1>4 DEF outboxVars, RowStep
<1> QED
  BY <1>1, <1>2, <1>3, <1>4 DEF OutboxNext, DispatcherStep

\* Only a pending row is leased: settling it ends the lease in the same
\* statement, and no claim, acknowledgement or release touches it again.
THEOREM SettledRowsAreFree == OutboxSpec => []SettledIsUnleased
<1>1. OutboxInit => SettledIsUnleased
  BY DEF OutboxInit, SettledIsUnleased
<1>2. OutboxTypeOK /\ Working /\ SettledIsUnleased /\ [OutboxNext]_outboxVars
        => SettledIsUnleased'
  <2> SUFFICES ASSUME OutboxTypeOK, Working, SettledIsUnleased,
                      [OutboxNext]_outboxVars, NEW id \in Ids,
                      outbox'[id].state # "pending"
               PROVE  outbox'[id].owner = Nobody /\ outbox'[id].lease = 0
    BY DEF SettledIsUnleased
  <2>1. RowStep(id)
    BY RowSteps
  <2> QED
    BY <2>1 DEF RowStep, SettledIsUnleased, Down
<1> QED
  BY <1>1, <1>2, TypeCorrect, PTL DEF OutboxSpec

\* A row goes from absent to pending to delivered to pruned and never back,
\* and prune_delivered_outbox deletes it only after its retention time.
THEOREM RowsGoForward == OutboxSpec => RowsMoveForward
<1>1. OutboxTypeOK /\ Working /\ [OutboxNext]_outboxVars
        => \A id \in Ids : RowStep(id)
  BY RowSteps
<1>2. (\A id \in Ids : RowStep(id)) =>
        \A id \in Ids :
          \/ outbox'[id].state = outbox[id].state
          \/ outbox[id].state = "absent" /\ outbox'[id].state = "pending"
          \/ outbox[id].state = "pending" /\ outbox'[id].state = "delivered"
          \/ /\ outbox[id].state = "delivered" /\ outbox'[id].state = "pruned"
             /\ outbox[id].age > Retention
  BY DEF RowStep
<1> QED
  BY <1>1, <1>2, TypeCorrect, PTL DEF OutboxSpec, RowsMoveForward

\* The rows are sound: of their types, delivered or pruned only when their
\* message is in the stream, and without a lease once they are settled.
THEOREM RowsStaySound == OutboxSpec => []RowsAreSound
<1>1. OutboxTypeOK /\ DeliveredIsStored /\ SettledIsUnleased => RowsAreSound
  BY DEF RowsAreSound
<1> QED
  BY <1>1, TypeCorrect, NoEventLost, SettledRowsAreFree, PTL
=============================================================================

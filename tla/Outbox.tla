------------------------------- MODULE Outbox -------------------------------
(***************************************************************************)
(* The transactional outbox of the control store and the event dispatchers *)
(* that drain it to JetStream.                                             *)
(*                                                                         *)
(* A row of fluvora_outbox is written by the transaction that changes a    *)
(* room.  Every dispatcher runs one loop: claim a batch under a lease,     *)
(* publish each message, acknowledge the row, or release it for a retry    *)
(* when any of those steps fails.  Each SQL statement and each broker call *)
(* is one step here, so another dispatcher, the clock, a crash or the      *)
(* cleanup task can act between any two of them.                           *)
(*                                                                         *)
(* Time is kept as the time that REMAINS on each timestamp (0: the         *)
(* timestamp is not after clock_timestamp()), so the model needs no bound  *)
(* on the clock.                                                           *)
(***************************************************************************)
EXTENDS Integers, FiniteSets

CONSTANTS
  Ids,          \* outbox row identifiers (a subset of Nat: ORDER BY id)
  Dispatchers,  \* event-dispatcher instances (FLUVORA_INSTANCE_ID)
  Nobody,       \* lease_owner IS NULL
  BatchSize,    \* claim_outbox's maximum_messages
  LeaseTtl,     \* claim_outbox's lease_ttl
  BackoffCap,   \* largest exponent of retry_delay (6 in the code)
  DupWindow,    \* JetStream's duplicate_window
  Retention,    \* prune_delivered_outbox's retention
  MaxCopies     \* model bound: copies of one message counted in the stream

ASSUME IdsAssumption == Ids \subseteq Nat
ASSUME NobodyAssumption == Nobody \notin Dispatchers
ASSUME TimingAssumption ==
  /\ BatchSize \in Nat \ {0}
  /\ LeaseTtl \in Nat \ {0}
  /\ BackoffCap \in Nat
  /\ DupWindow \in Nat \ {0}
  /\ Retention \in Nat
  /\ MaxCopies \in Nat \ {0}

\* Arithmetic the provers do not know: powers of two up to the cap.
ASSUME BackoffAssumption ==
  /\ 2 ^ BackoffCap \in Nat
  /\ \A n \in 0 .. BackoffCap : 2 ^ n \in 1 .. 2 ^ BackoffCap

VARIABLES
  outbox,   \* outbox[id]: the row, or its absence before and after its life
  batch,    \* batch[d]: messages of d's last claim that d has yet to publish
  pc,       \* pc[d]: what d does next
  cur,      \* cur[d]: the message d works on, when pc[d] # "idle"
  copies,   \* copies[id]: copies of the message JetStream has stored
  dedup     \* dedup[id]: time left in JetStream's duplicate window

outboxVars == <<outbox, batch, pc, cur, copies, dedup>>

RowStates == {"absent", "pending", "delivered", "pruned"}

Row ==
  [ state    : RowStates,
    owner    : Dispatchers \cup {Nobody},  \* lease_owner
    lease    : 0 .. LeaseTtl,              \* lease_until, as time left
    wait     : 0 .. 2 ^ BackoffCap,        \* available_at, as time left
    attempts : 0 .. BackoffCap + 1,        \* attempts; retry_delay saturates
    age      : 0 .. Retention + 1 ]        \* time since delivered_at

\* One inductive type invariant: every row, dispatcher and broker record has
\* the shape the code's structures give it.
OutboxTypeOK ==
  /\ outbox \in [Ids -> Row]
  /\ batch \in [Dispatchers -> SUBSET Ids]
  /\ pc \in [Dispatchers -> {"idle", "ack", "retry"}]
  /\ cur \in [Dispatchers -> Ids \cup {Nobody}]
  /\ copies \in [Ids -> 0 .. MaxCopies]
  /\ dedup \in [Ids -> 0 .. DupWindow]

OutboxInit ==
  /\ outbox = [id \in Ids |-> [state |-> "absent", owner |-> Nobody,
                               lease |-> 0, wait |-> 0, attempts |-> 0,
                               age |-> 0]]
  /\ batch = [d \in Dispatchers |-> {}]
  /\ pc = [d \in Dispatchers |-> "idle"]
  /\ cur = [d \in Dispatchers |-> Nobody]
  /\ copies = [id \in Ids |-> 0]
  /\ dedup = [id \in Ids |-> 0]

-----------------------------------------------------------------------------
(* Writers: insert_event_and_outbox and append_room_signal.                *)

\* The bigserial id is drawn before the writing transaction commits, so rows
\* of different rooms may appear in any order of id.
Insert(id) ==
  /\ outbox[id].state = "absent"
  /\ outbox' = [outbox EXCEPT ![id].state = "pending"]
  /\ UNCHANGED <<batch, pc, cur, copies, dedup>>

-----------------------------------------------------------------------------
(* The store's statements.                                                 *)

\* Mutant of Claimable: an expired lease is not taken over.
ClaimableUnleasedOnly ==
  {id \in Ids : /\ outbox[id].state = "pending"
                /\ outbox[id].wait = 0
                /\ outbox[id].owner = Nobody}

\* The WHERE clause of claim_outbox.
Claimable ==
  {id \in Ids : /\ outbox[id].state = "pending"
                /\ outbox[id].wait = 0
                /\ outbox[id].lease = 0}

\* ORDER BY id ... LIMIT maximum_messages.
Selected ==
  {id \in Claimable :
     Cardinality({other \in Claimable : other < id}) < BatchSize}

Least(m, n) == IF m < n THEN m ELSE n

\* claim_outbox.  UPDATE ... RETURNING promises no order, so the batch is a
\* set; an empty result leaves the loop polling.
Claim(d) ==
  /\ pc[d] = "idle" /\ batch[d] = {}
  /\ Selected # {}
  /\ outbox' = [id \in Ids |->
                  IF id \in Selected
                  THEN [outbox[id] EXCEPT
                          !.owner = d,
                          !.lease = LeaseTtl,
                          !.attempts = Least(@ + 1, BackoffCap + 1)]
                  ELSE outbox[id]]
  /\ batch' = [batch EXCEPT ![d] = Selected]
  /\ UNCHANGED <<pc, cur, copies, dedup>>

\* Mutant of Owned: the lease_owner test is dropped.
OwnedByAnyone(d, id) == outbox[id].state = "pending"

\* The WHERE clause shared by acknowledge_outbox and retry_outbox.  Neither
\* asks whether the lease has expired.
Owned(d, id) ==
  /\ outbox[id].state = "pending"
  /\ outbox[id].owner = d

\* acknowledge_outbox's effect on the row when the statement matches it.
Acknowledged(d, id) ==
  IF Owned(d, id)
  THEN [outbox EXCEPT ![id] = [@ EXCEPT !.state = "delivered",
                                        !.owner = Nobody, !.lease = 0]]
  ELSE outbox

\* retry_delay: 1 << min(attempts - 1, 6).
RetryDelay(attempts) ==
  2 ^ (IF attempts = 0 THEN 0 ELSE Least(attempts - 1, BackoffCap))

\* retry_outbox's effect on the row when the statement matches it.  While d
\* owns the row, the attempts d read at its claim are still the row's.
Released(d, id) ==
  IF Owned(d, id)
  THEN [outbox EXCEPT ![id] =
          [@ EXCEPT !.wait = RetryDelay(outbox[id].attempts),
                    !.owner = Nobody, !.lease = 0]]
  ELSE outbox

-----------------------------------------------------------------------------
(* dispatch_message.                                                       *)

\* JetStream stores a message unless its Nats-Msg-Id is still in the window.
Store(id) ==
  IF dedup[id] > 0
  THEN UNCHANGED <<copies, dedup>>
  ELSE /\ copies' = [copies EXCEPT ![id] = Least(@ + 1, MaxCopies)]
       /\ dedup' = [dedup EXCEPT ![id] = DupWindow]

\* The broker stored the message and its acknowledgement came back.
PublishOk(d, id) ==
  /\ pc[d] = "idle" /\ id \in batch[d]
  /\ Store(id)
  /\ batch' = [batch EXCEPT ![d] = @ \ {id}]
  /\ cur' = [cur EXCEPT ![d] = id]
  /\ pc' = [pc EXCEPT ![d] = "ack"]
  /\ UNCHANGED outbox

\* Mutant of PublishFails: the broker's acknowledgement is not awaited.
PublishUnconfirmed(d, id) ==
  /\ pc[d] = "idle" /\ id \in batch[d]
  /\ Store(id) \/ UNCHANGED <<copies, dedup>>
  /\ batch' = [batch EXCEPT ![d] = @ \ {id}]
  /\ cur' = [cur EXCEPT ![d] = id]
  /\ pc' = [pc EXCEPT ![d] = "ack"]
  /\ UNCHANGED outbox

\* The publish failed, or the acknowledgement was lost after the store.
PublishFails(d, id) ==
  /\ pc[d] = "idle" /\ id \in batch[d]
  /\ Store(id) \/ UNCHANGED <<copies, dedup>>
  /\ batch' = [batch EXCEPT ![d] = @ \ {id}]
  /\ cur' = [cur EXCEPT ![d] = id]
  /\ pc' = [pc EXCEPT ![d] = "retry"]
  /\ UNCHANGED outbox

\* acknowledge_outbox returned: true ends the message, false ("outbox lease
\* ownership was lost") is an error like any other.
Ack(d) ==
  /\ pc[d] = "ack"
  /\ outbox' = Acknowledged(d, cur[d])
  /\ pc' = [pc EXCEPT ![d] = IF Owned(d, cur[d]) THEN "idle" ELSE "retry"]
  /\ cur' = [cur EXCEPT ![d] = IF Owned(d, cur[d]) THEN Nobody ELSE @]
  /\ UNCHANGED <<batch, copies, dedup>>

\* The acknowledgement statement failed, before or after PostgreSQL ran it.
AckFails(d) ==
  /\ pc[d] = "ack"
  /\ outbox' \in {outbox, Acknowledged(d, cur[d])}
  /\ pc' = [pc EXCEPT ![d] = "retry"]
  /\ UNCHANGED <<batch, cur, copies, dedup>>

\* retry_outbox ran; its Boolean result is not looked at.
Retry(d) ==
  /\ pc[d] = "retry"
  /\ outbox' = Released(d, cur[d])
  /\ pc' = [pc EXCEPT ![d] = "idle"]
  /\ cur' = [cur EXCEPT ![d] = Nobody]
  /\ UNCHANGED <<batch, copies, dedup>>

\* retry_outbox failed: the loop goes on and the lease is left to expire.
RetryFails(d) ==
  /\ pc[d] = "retry"
  /\ outbox' \in {outbox, Released(d, cur[d])}
  /\ pc' = [pc EXCEPT ![d] = "idle"]
  /\ cur' = [cur EXCEPT ![d] = Nobody]
  /\ UNCHANGED <<batch, copies, dedup>>

\* The process stops (or dispatch.abort() drops the task) and starts again
\* under the same instance_id: the batch is gone, its leases are not.
Crash(d) ==
  /\ batch[d] # {} \/ pc[d] # "idle"
  /\ batch' = [batch EXCEPT ![d] = {}]
  /\ pc' = [pc EXCEPT ![d] = "idle"]
  /\ cur' = [cur EXCEPT ![d] = Nobody]
  /\ UNCHANGED <<outbox, copies, dedup>>

-----------------------------------------------------------------------------
(* Cleanup and time.                                                       *)

\* prune_delivered_outbox, in the loop of outbox_cleanup::run.  The rows of
\* one call beyond its LIMIT are the next call's.
Prune(id) ==
  /\ outbox[id].state = "delivered"
  /\ outbox[id].age > Retention
  /\ outbox' = [outbox EXCEPT ![id].state = "pruned"]
  /\ UNCHANGED <<batch, pc, cur, copies, dedup>>

Down(n) == IF n = 0 THEN 0 ELSE n - 1

Tick ==
  /\ outbox' = [id \in Ids |->
       [outbox[id] EXCEPT
          !.lease = Down(@),
          !.wait = Down(@),
          !.age = IF outbox[id].state = "delivered"
                  THEN Least(@ + 1, Retention + 1) ELSE @]]
  /\ dedup' = [id \in Ids |-> Down(dedup[id])]
  /\ UNCHANGED <<batch, pc, cur, copies>>

-----------------------------------------------------------------------------
OutboxNext ==
  \/ \E id \in Ids : Insert(id) \/ Prune(id)
  \/ \E d \in Dispatchers :
       \/ Claim(d)
       \/ \E id \in Ids : PublishOk(d, id) \/ PublishFails(d, id)
       \/ Ack(d) \/ AckFails(d)
       \/ Retry(d) \/ RetryFails(d)
       \/ Crash(d)
  \/ Tick

OutboxSpec == OutboxInit /\ [][OutboxNext]_outboxVars

\* Time passes and every dispatcher keeps running its loop.  The broker and
\* PostgreSQL may fail any number of times, but not every time: a publish, an
\* acknowledgement or a release that is tried again and again succeeds.
OutboxFairness ==
  /\ WF_outboxVars(Tick)
  /\ \A d \in Dispatchers :
       /\ WF_outboxVars(Claim(d))
       /\ WF_outboxVars(Ack(d) \/ AckFails(d))
       /\ WF_outboxVars(Retry(d) \/ RetryFails(d))
       /\ \A id \in Ids :
            WF_outboxVars(PublishOk(d, id) \/ PublishFails(d, id))
  /\ \A id \in Ids : SF_outboxVars(\E d \in Dispatchers : PublishOk(d, id))
  /\ SF_outboxVars(\E d \in Dispatchers : Ack(d) /\ Owned(d, cur[d]))

OutboxFairSpec == OutboxSpec /\ OutboxFairness

-----------------------------------------------------------------------------
(* Properties.                                                             *)

\* No event is lost: a row that acknowledge_outbox marked delivered, or that
\* the cleanup then deleted, is in the stream.
DeliveredIsStored ==
  \A id \in Ids :
    outbox[id].state \in {"delivered", "pruned"} => copies[id] > 0

\* A dispatcher that is about to acknowledge has its message in the stream.
\* (The strengthening that makes DeliveredIsStored inductive.)
AckingIsStored ==
  \A d \in Dispatchers :
    pc[d] = "ack" => cur[d] \in Ids /\ copies[cur[d]] > 0

\* A row that has left the pending state is never leased again, so a late
\* dispatcher finds nothing to claim, acknowledge or release.
SettledIsUnleased ==
  \A id \in Ids :
    outbox[id].state # "pending" =>
      outbox[id].owner = Nobody /\ outbox[id].lease = 0

\* A live lease is a fence: only its owner, working on that very message, can
\* end it.  A dispatcher whose own lease was lost can neither acknowledge nor
\* release the row under the new owner.
FenceStep ==
  \A id \in Ids, d \in Dispatchers :
    /\ outbox[id].owner = d /\ outbox[id].lease > 0
    /\ outbox'[id].owner # d
    => pc[d] \in {"ack", "retry"} /\ cur[d] = id
\* FenceStep holds of every step of the dispatchers, the cleanup and the clock.
LiveLeaseIsFence == [][FenceStep]_outboxVars

\* A row only moves forward: once delivered it is never pending again, and it
\* is deleted only after it was delivered and kept for the retention time.
RowsMoveForward ==
  [][\A id \in Ids :
       \/ outbox'[id].state = outbox[id].state
       \/ outbox[id].state = "absent" /\ outbox'[id].state = "pending"
       \/ outbox[id].state = "pending" /\ outbox'[id].state = "delivered"
       \/ /\ outbox[id].state = "delivered" /\ outbox'[id].state = "pruned"
          /\ outbox[id].age > Retention]_outboxVars

\* Every committed event reaches the stream, whatever crashes, lost leases
\* and failed calls happen on the way: no row stays pending for ever with
\* nothing of it stored (and no other state follows before it is stored, see
\* DeliveredIsStored).
EventuallyStored ==
  \A id \in Ids : []<>(outbox[id].state = "pending" => copies[id] > 0)

\* ... and, once the other dispatchers hold nothing and take nothing over, its
\* row is marked delivered, so it is not published for ever.
EventuallyDelivered ==
  (\E d \in Dispatchers :
     <>[](\A e \in Dispatchers \ {d} : batch[e] = {} /\ pc[e] = "idle"))
  => \A id \in Ids : []<>(outbox[id].state # "pending")

\* Every committed event is stored and, when the dispatchers allow, settled.
EventsAreDelivered == EventuallyStored /\ EventuallyDelivered

\* The outbox table tells the truth whatever fails: a delivered row is in the
\* stream, a settled one is nobody's, and no delay exceeds its cap.
RowsAreSound ==
  /\ OutboxTypeOK /\ DeliveredIsStored /\ SettledIsUnleased
=============================================================================

----------------------------- MODULE MCDelivery -----------------------------
(* The event dispatchers, one VOD asset of the gateway, or two browsers that*)
(* negotiate a connection: a behaviour is one of one of these, and the rest*)
(* stays as it began.                                                      *)
EXTENDS Outbox, VodAssets, P2pSession

CONSTANTS d1, d2, a, b

\* One browser offers twice; each offers once; one offers, and either side
\* may end or see a request fail.
Makes(n, m) == [p \in Peers |-> IF p = a THEN n ELSE m]
MCPlans == {[left |-> Makes(2, 0), ends |-> FALSE],
            [left |-> Makes(1, 1), ends |-> FALSE],
            [left |-> Makes(1, 0), ends |-> TRUE]}

VARIABLE part

Init == /\ OutboxInit /\ VodInit /\ P2pInit
        /\ part \in {"outbox", "vod", "p2p"}
        /\ part # "p2p" => plan.ends

\* An asset may be left as it is, browsers may have nothing more to say.
Next ==
  \/ part = "outbox" /\ OutboxNext /\ UNCHANGED <<vodVars, p2pVars, part>>
  \/ /\ part = "vod" /\ (VodNext \/ UNCHANGED vodVars)
     /\ UNCHANGED <<outboxVars, p2pVars, part>>
  \/ /\ part = "p2p" /\ (P2pNext \/ UNCHANGED p2pVars)
     /\ UNCHANGED <<outboxVars, vodVars, part>>

\* The fairness of each part, while it is the one that runs.
InOutbox == part = "outbox"
OutboxIsFair ==
  /\ WF_outboxVars(InOutbox /\ Tick)
  /\ \A d \in Dispatchers :
       /\ WF_outboxVars(InOutbox /\ Claim(d))
       /\ WF_outboxVars(InOutbox /\ (Ack(d) \/ AckFails(d)))
       /\ WF_outboxVars(InOutbox /\ (Retry(d) \/ RetryFails(d)))
       /\ \A id \in Ids :
            WF_outboxVars(InOutbox /\ (\/ PublishOk(d, id)
                                       \/ PublishFails(d, id)))
  /\ \A id \in Ids :
       SF_outboxVars(InOutbox /\ \E d \in Dispatchers : PublishOk(d, id))
  /\ SF_outboxVars(InOutbox /\ \E d \in Dispatchers :
                                 Ack(d) /\ Owned(d, cur[d]))

InVod == part = "vod"
VodIsFair ==
  /\ WF_vodVars(InVod /\ MonitorSteps)
  /\ \A g \in Generations : WF_vodVars(InVod /\ WorkerSteps(g))

InP2p == part = "p2p"
P2pIsFair ==
  \A p \in Peers :
    /\ WF_p2pVars(InP2p /\ Runs(p))
    /\ WF_p2pVars(InP2p /\ SetOffer(p)) /\ WF_p2pVars(InP2p /\ PostOffer(p))
    /\ WF_p2pVars(InP2p /\ \E cred \in posting[p] : PostCandidate(p, cred))

Spec == /\ Init /\ [][Next]_<<outboxVars, vodVars, p2pVars, part>>
        /\ OutboxIsFair /\ VodIsFair /\ P2pIsFair
=============================================================================

------------------------------- MODULE MCWork -------------------------------
(* One media worker, or the signals of one room: a behaviour is one of     *)
(* the one or of the other, and the rest stays as it began.                *)
EXTENDS WorkerAssignments, Signals

CONSTANTS h1, h2, live, vod, c1, c2, r1, w1, b1, m1, s1

OneReplica == [x \in {w1, b1, m1, s1} |-> r1]

VARIABLE part

Init == WorkerInit /\ SignalsInit /\ part \in {"worker", "signals"}

\* A worker may be idle; signals never end.
Next ==
  \/ /\ part = "worker" /\ (WorkerNext \/ UNCHANGED workerVars)
     /\ UNCHANGED <<signalsVars, part>>
  \/ part = "signals" /\ SignalsNext /\ UNCHANGED <<workerVars, part>>

\* The fairness of each part, while it is the one that runs.
InWorker == part = "worker"
WorkerIsFair ==
  /\ \A h \in Handlers : WF_workerVars(InWorker /\ HandlerStep(h))
  /\ \A j \in JobIds : /\ WF_workerVars(InWorker /\ (\/ RunStarts(j)
                                                   \/ SpawnFails(j)))
                       /\ WF_workerVars(InWorker /\ CancelledWaiting(j))
                       /\ WF_workerVars(InWorker /\ Stops(j))

InSignals == part = "signals"
SignalsIsFair ==
  /\ \A t \in Tasks : WF_signalsVars(InSignals /\ CachingStep(t))
  /\ \A s \in Sockets : /\ WF_signalsVars(InSignals /\ Replay(s))
                        /\ WF_signalsVars(InSignals /\ Receive(s))

Spec == /\ Init /\ [][Next]_<<workerVars, signalsVars, part>>
        /\ WorkerIsFair /\ SignalsIsFair
=============================================================================

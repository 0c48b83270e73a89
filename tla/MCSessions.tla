----------------------------- MODULE MCSessions -----------------------------
(* The sessions of a media node, or the allocations of a TURN server: a    *)
(* behaviour is one of the one or of the other, and the rest stays as it   *)
(* began.                                                                  *)
EXTENDS MediaSessions, Turn, TLC

CONSTANTS s1, s2, m1, a1, a2, u1, t1, alice, bob, x, y

Peer(addresses, full) ==
  [addresses |-> addresses, shakes |-> full, steady |-> ~full]

\* A peer that moves between two addresses; a session that replaces another
\* at the same address, neither of which gets to a handshake.
MCPopulations ==
  { s1 :> Peer({a1, a2}, TRUE),
    s1 :> Peer({a1}, FALSE) @@ s2 :> Peer({a1}, FALSE) }

OneAddress == [c \in {u1, t1} |-> 1]

\* One peer that is served, and two that are refused.
PeersDef == {[ip |-> x, port |-> 1, family |-> "v4", kind |-> "public"],
             [ip |-> y, port |-> 1, family |-> "v4", kind |-> "private"],
             [ip |-> y, port |-> 1, family |-> "v6", kind |-> "public"]}

VARIABLE part

Init == /\ MediaInit /\ TurnInit /\ part \in {"sessions", "turn"}
        /\ part # "sessions" => s2 \in DOMAIN peers

\* Either may have nothing more to do.
Next ==
  \/ part = "sessions" /\ MediaNext /\ UNCHANGED <<turnVars, part>>
  \/ part = "turn" /\ TurnNext /\ UNCHANGED <<mediaVars, part>>

\* The fairness of each part, while it is the one that runs.
InSessions == part = "sessions"
SessionsIsFair ==
  /\ WF_mediaVars(InSessions /\ SecondPasses)
  /\ \A i \in SessionIds : WF_mediaVars(InSessions /\ TickTimer(i))

InTurn == part = "turn"
TurnIsFair ==
  /\ WF_turnVars(InTurn /\ RemoveExpired) /\ WF_turnVars(InTurn /\ TurnTick)
  /\ \A c \in Clients : WF_turnVars(InTurn /\ FinishAllocate(c))
  /\ \A i \in 1 .. MaxIds :
       WF_turnVars(InTurn /\ \E t \in tasks : t.id = i /\ TaskEnds(t))

Spec == /\ Init /\ [][Next]_<<mediaVars, turnVars, part>>
        /\ SessionsIsFair /\ TurnIsFair
=============================================================================

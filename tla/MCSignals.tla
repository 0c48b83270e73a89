----------------------------- MODULE MCSignals -----------------------------
(* Small instances of Signals.                                             *)
EXTENDS Signals, TLC

CONSTANTS c1, c2, c3, r1, w1, w2, b1, m1, s1, p1

OneReplica == [x \in {w1, w2, b1, m1, s1, p1} |-> r1]
=============================================================================

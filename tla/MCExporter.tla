----------------------------- MODULE MCExporter -----------------------------
(* Small instances of Exporter for TLC: connections a1..a3 of one peer and *)
(* b1, b2 of another, so that with two workers the limit per peer (2) and  *)
(* the queue (1) are both exceeded.                                        *)
EXTENDS Exporter, TLC

CONSTANTS a1, a2, a3, b1, b2, A, B, w1, w2

MCConns == {a1, a2, a3, b1, b2}
MCIPs == {A, B}
MCPeer == [c \in MCConns |-> IF c \in {b1, b2} THEN B ELSE A]
MCWorkers == {w1, w2}
MCSymmetry == Permutations({a1, a2, a3})
              \cup Permutations({b1, b2}) \cup Permutations({w1, w2})

\* Two connections of one peer, for the temporal properties (no symmetry
\* there): both workers busy, the queue full, every close path.
LiveConns == {a1, a2}
LivePeer == [c \in LiveConns |-> A]
=============================================================================

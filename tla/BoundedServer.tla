--------------------------- MODULE BoundedServer ---------------------------
(***************************************************************************)
(* What the exporter promises about admission, without queue, threads or   *)
(* locks: at most MaxPerIP connections of a peer and at most Capacity in   *)
(* all are admitted at a time, and after the owner has let the server go   *)
(* nothing is admitted and nothing ever will be.                           *)
(***************************************************************************)
EXTENDS Naturals, FiniteSets

CONSTANTS Conns, Peer, MaxPerIP, Capacity

VARIABLES admitted,  \* connections admitted and not yet finished
          phase      \* "up", "stopping" or "down"

svars == <<admitted, phase>>

SInit == admitted = {} /\ phase = "up"

\* A connection is admitted below both limits, also while stopping (the
\* acceptor may be past its test of the stop flag).
Admit(c) ==
  /\ phase # "down" /\ c \notin admitted
  /\ Cardinality({d \in admitted : Peer[d] = Peer[c]}) < MaxPerIP
  /\ Cardinality(admitted) < Capacity
  /\ admitted' = admitted \cup {c}
  /\ UNCHANGED phase

Finish(c) ==
  /\ c \in admitted
  /\ admitted' = admitted \ {c}
  /\ UNCHANGED phase

BeginStop == phase = "up" /\ phase' = "stopping" /\ UNCHANGED admitted

\* The owner gets control back only when every admitted connection is gone.
Down == phase = "stopping" /\ admitted = {} /\ phase' = "down" /\ UNCHANGED admitted

SNext == (\E c \in Conns : Admit(c) \/ Finish(c)) \/ BeginStop \/ Down

\* Every admitted connection finishes, and a stop completes.
SFairness == WF_svars(Down) /\ \A c \in Conns : WF_svars(Finish(c))

SSpec == SInit /\ [][SNext]_svars /\ SFairness
=============================================================================

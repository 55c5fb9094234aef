------------------------------ MODULE MCHistory ------------------------------
(* One monitor whose endpoint exposes a gauge below zero for a while.      *)
EXTENDS History

Queue(waiting) ==
  [at |-> 1, host |-> "h", gpus |-> <<>>, findings |-> <<>>, sources |-> <<>>,
   endpoints |-> <<[reachable |-> TRUE, waiting |-> waiting, cache |-> 40, rate |-> None]>>]
MCCollected == {Queue(1), Queue(-1)}
=============================================================================

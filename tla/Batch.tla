------------------------------- MODULE Batch -------------------------------
(***************************************************************************)
(* What execute_batch promises its callers, without threads: either no     *)
(* operation of the batch runs and the call is refused, or every index     *)
(* runs exactly once and the call reports all the results in index order,  *)
(* or the lowest index that panicked.                                      *)
(***************************************************************************)
EXTENDS Naturals

CONSTANTS MaxSize  \* bound on the size of a batch

VARIABLES size,    \* the number of operations of this batch
          ran,     \* per index: "no", "ok" or "panic"
          result   \* [kind |-> "pending"], or what the call returned

bvars == <<size, ran, result>>

Pending == [kind |-> "pending"]
Batch == {i \in 0..(MaxSize - 1) : i < size}
Panics == {i \in Batch : ran[i] = "panic"}

BInit ==
  /\ size \in 0..MaxSize
  /\ ran = [i \in 0..(MaxSize - 1) |-> "no"]
  /\ result = Pending

Invoke(i) ==
  /\ result = Pending /\ i \in Batch /\ ran[i] = "no"
  /\ \E o \in {"ok", "panic"} : ran' = [ran EXCEPT ![i] = o]
  /\ UNCHANGED <<size, result>>

\* Refused before anything ran; an empty batch never is.
Refuse ==
  /\ result = Pending /\ size > 0 /\ \A i \in Batch : ran[i] = "no"
  /\ \E k \in {"zeroConcurrency", "spawnFailed"} : result' = [kind |-> k]
  /\ UNCHANGED <<size, ran>>

ReturnResults ==
  /\ result = Pending /\ \A i \in Batch : ran[i] = "ok"
  /\ result' = [kind |-> "ok", results |-> [k \in 1..size |-> k - 1]]
  /\ UNCHANGED <<size, ran>>

ReturnPanic ==
  /\ result = Pending /\ \A i \in Batch : ran[i] # "no"
  /\ \E i \in Panics : /\ \A j \in Panics : i <= j
                       /\ result' = [kind |-> "panicked", index |-> i]
  /\ UNCHANGED <<size, ran>>

BNext == (\E i \in Batch : Invoke(i)) \/ Refuse \/ ReturnResults \/ ReturnPanic

\* The call returns.
BSpec == BInit /\ [][BNext]_bvars /\ WF_bvars(BNext)
=============================================================================

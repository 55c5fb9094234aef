----------------------------- MODULE MCMonitor -----------------------------
(* Small instances of Monitor. *)
EXTENDS Monitor

CONSTANTS g0, g1

\* A healthy node; a warning on the unselected GPU; a critical one on the
\* host with a failed required source; a node that lost the selected GPU.
MCReports ==
  {[gpus |-> {g0, g1}, findings |-> {<<g0, "info">>}, sourceFailed |-> FALSE],
   [gpus |-> {g0, g1}, findings |-> {<<g1, "warning">>}, sourceFailed |-> FALSE],
   [gpus |-> {g0, g1}, findings |-> {<<g0, "warning">>, <<Host, "critical">>},
    sourceFailed |-> TRUE],
   [gpus |-> {g1}, findings |-> {}, sourceFailed |-> TRUE]}

Argument(interval, listen, history, quiet, failOn, gpus) ==
  [interval |-> interval, listen |-> listen, history |-> history, quiet |-> quiet,
   failOn |-> failOn, gpus |-> gpus]

\* snapshot, top and serve with and without a selection.
MCArguments ==
  {Argument(FALSE, FALSE, TRUE, FALSE, f, s) : f \in {"never", "warning"}, s \in {{}, {g0}}}
  \cup {Argument(TRUE, FALSE, FALSE, FALSE, f, s) : f \in {"never", "critical"}, s \in {{}, {g0}}}
  \cup {Argument(TRUE, TRUE, TRUE, TRUE, f, s) : f \in {"never", "warning"}, s \in {{}, {g0}}}
OneService == {Argument(TRUE, TRUE, TRUE, TRUE, "never", {})}
=============================================================================

------------------------- MODULE PluginCallContract -------------------------
(***************************************************************************)
(* What calling all plugins promises the command: either it succeeds, and  *)
(* then every plugin that has a validation component has answered and all  *)
(* answers were gathered, or it reports an error that one of the plugins   *)
(* caused, or, only once the user has interrupted it, a cancellation.      *)
(***************************************************************************)
CONSTANT Plugins

VARIABLES
  collects,     \* whether results are gathered (never changes)
  behaviour,    \* per plugin, how a call to it goes (never changes)
  interrupted,  \* the user has interrupted the command
  gathered,     \* the plugins whose results were gathered
  outcome       \* "running", and then "none" or the error reported

vars == <<collects, behaviour, interrupted, gathered, outcome>>

Answering == {p \in Plugins : behaviour[p] = "answers"}

Init ==
  /\ collects \in BOOLEAN
  /\ behaviour \in [Plugins -> {"missing", "noRules", "answers", "fails", "hangs"}]
  /\ interrupted = FALSE
  /\ gathered = {}
  /\ outcome = "running"

Gather(p) ==
  /\ outcome = "running"
  /\ collects
  /\ p \in Answering \ gathered
  /\ gathered' = gathered \cup {p}
  /\ UNCHANGED <<collects, behaviour, interrupted, outcome>>

Succeed ==
  /\ outcome = "running"
  /\ \A p \in Plugins : behaviour[p] \in {"answers", "missing"}
  /\ collects => gathered = Answering
  /\ outcome' = "none"
  /\ UNCHANGED <<collects, behaviour, interrupted, gathered>>

ReportPluginError(p) ==
  /\ outcome = "running"
  /\ behaviour[p] \in {"noRules", "fails"}
  /\ outcome' = behaviour[p]
  /\ UNCHANGED <<collects, behaviour, interrupted, gathered>>

ReportCancellation ==
  /\ outcome = "running"
  /\ interrupted
  /\ outcome' \in {"skipped", "cancelled"}
  /\ UNCHANGED <<collects, behaviour, interrupted, gathered>>

Interrupt ==
  /\ outcome = "running"
  /\ ~ interrupted
  /\ interrupted' = TRUE
  /\ UNCHANGED <<collects, behaviour, gathered, outcome>>

Next ==
  \/ \E p \in Plugins : Gather(p) \/ ReportPluginError(p)
  \/ Succeed
  \/ ReportCancellation
  \/ Interrupt

Spec == Init /\ [][Next]_vars
=============================================================================

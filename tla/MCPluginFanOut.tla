--------------------------- MODULE MCPluginFanOut ---------------------------
(***************************************************************************)
(* The instance of PluginFanOut for TLC: more plugins than may run at a    *)
(* time, and what the plugins do in every combination.  The plugins are    *)
(* interchangeable, so one order of each combination stands for the        *)
(* others; they are not made a symmetry set, which liveness rules out.     *)
(***************************************************************************)
EXTENDS PluginFanOut

BehaviourOf == <<"missing", "noRules", "answers", "fails", "hangs">>

MCCases ==
  {[p \in Plugins |-> BehaviourOf[b[p]]] :
     b \in {c \in [Plugins -> DOMAIN BehaviourOf] : \A p, q \in Plugins : p < q => c[p] <= c[q]}}
=============================================================================

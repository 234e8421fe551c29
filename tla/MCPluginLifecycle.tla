-------------------------- MODULE MCPluginLifecycle --------------------------
(***************************************************************************)
(* The instance of PluginLifecycle for TLC: two plugins, so that one may   *)
(* be up when the launch of the other fails, with every combination of     *)
(* requests, manifests, configurations and behaviours.                     *)
(***************************************************************************)
EXTENDS PluginLifecycle
=============================================================================

--------------------------- MODULE PluginLifecycle ---------------------------
(***************************************************************************)
(* The plugin processes of one "generate" or "scan" command, from the      *)
(* manifests of the requested providers to the cleanup before it exits.    *)
(*                                                                         *)
(*   finding -> selecting -> launching -> calling -> [reporting]           *)
(*      |           |            |           |            |                *)
(*      +-----------+--> exited  +-----------+------------+                *)
(*                                           +--> cleaning -> exited       *)
(*                                                                         *)
(* Until a process may exist the command just returns its error; from then *)
(* on a deferred cleanup kills every client that was created.  Launching   *)
(* and configuring do not look at the command's context, and an interrupt  *)
(* does nothing but cancel that context.  The calls are those of           *)
(* PluginCallContract, which PluginFanOut implements.                      *)
(*                                                                         *)
(* A plugin that dies while it is called is one whose call fails.  Left    *)
(* out: a kill of the command itself, after which its plugins live on.     *)
(***************************************************************************)
EXTENDS FiniteSets

CONSTANT
  Plugins   \* the providers that a plan may name or a manifest may describe

ASSUME PluginsAssumption == IsFiniteSet(Plugins)

(* The manifest file of a plugin: absent; not usable (unreadable, naming   *)
(* another id, or an executable that cannot be run); of a plugin that is   *)
(* not a policy plugin; or usable, without or with configuration options.  *)
Manifests == {"absent", "invalid", "otherType", "plain", "configurable"}

(* What the plugin's own Configure does. *)
Configurations == {"accepts", "refuses", "hangs"}

VARIABLES
  collects,       \* TRUE: "scan"; FALSE: "generate" (never changes)
  requested,      \* the validation components of the plan (never changes)
  manifest,       \* per plugin, its manifest (never changes)
  configuration,  \* per plugin, what configuring it does (never changes)
  behaviour,      \* per plugin, how a call to it goes (never changes)
  interrupted,    \* the user has interrupted the command
  main,           \* where the command stands
  found,          \* the manifests to launch
  process,        \* per plugin, its process
  gathered,       \* the plugins whose results were gathered
  outcome,        \* what the calls ended with
  result          \* what the command ends with

environment == <<collects, requested, manifest, configuration, behaviour>>
vars == <<environment, interrupted, main, found, process, gathered, outcome, result>>

TypeOK ==
  /\ collects \in BOOLEAN
  /\ requested \in SUBSET Plugins
  /\ manifest \in [Plugins -> Manifests]
  /\ configuration \in [Plugins -> Configurations]
  /\ behaviour \in [Plugins -> {"missing", "noRules", "answers", "fails", "hangs"}]
  /\ interrupted \in BOOLEAN
  /\ main \in {"finding", "selecting", "launching", "calling", "reporting",
               "cleaning", "exited"}
  /\ found \in SUBSET Plugins
  /\ process \in [Plugins -> {"none", "started", "ready", "killed"}]
  /\ gathered \in SUBSET Plugins
  /\ outcome \in {"running", "none", "noRules", "fails", "skipped", "cancelled"}
  /\ result \in {"none", "ok", "error"}

Init ==
  /\ collects \in BOOLEAN
  /\ requested \in SUBSET Plugins
  /\ manifest \in [Plugins -> Manifests]
  /\ configuration \in [Plugins -> Configurations]
  /\ behaviour \in [Plugins -> {"missing", "noRules", "answers", "fails", "hangs"}]
  /\ \A p \in Plugins : behaviour[p] = "missing" <=> p \notin requested
  /\ interrupted = FALSE
  /\ main = "finding"
  /\ found = {}
  /\ process = [p \in Plugins |-> "none"]
  /\ gathered = {}
  /\ outcome = "running"
  /\ result = "none"

Alive(p) == process[p] \in {"started", "ready"}

-----------------------------------------------------------------------------
(* Finding the manifests. *)

Available == {p \in Plugins : manifest[p] # "absent"}

(* A plan that requests nobody selects every plugin there is. *)
Candidates == IF requested = {} THEN Available ELSE requested

(* Mutant: a requested plugin without a manifest is passed over. *)
DiscoveryIgnoresAbsent ==
  /\ Candidates \cap Available # {}
  /\ \A p \in Candidates : manifest[p] # "invalid"

(* Plugins of another type are dropped, but not if nobody remains.         *)
DiscoverySucceeds ==
  /\ Candidates \subseteq Available
  /\ \A p \in Candidates : manifest[p] # "invalid"
  /\ \E p \in Candidates : manifest[p] # "otherType"

FindRequestedPlugins ==
  /\ main = "finding"
  /\ IF DiscoverySucceeds
     THEN /\ found' = {p \in Candidates : manifest[p] \in {"plain", "configurable"}}
          /\ main' = "selecting"
          /\ UNCHANGED result
     ELSE main' = "exited" /\ result' = "error" /\ UNCHANGED found
  /\ UNCHANGED <<environment, interrupted, process, gathered, outcome>>

(* The workspace, the framework and the user's own manifests are checked   *)
(* for all plugins, or the command gives up.                               *)
ResolveSelections ==
  /\ main = "selecting"
  /\ \/ main' = "launching" /\ UNCHANGED result
     \/ main' = "exited" /\ result' = "error"
  /\ UNCHANGED <<environment, interrupted, found, process, gathered, outcome>>

-----------------------------------------------------------------------------
(* Launching, one plugin after another in the order of a map. *)

(* Mutant: a launch that fails ends the command as an earlier error does.  *)
AbandonWithoutCleanup == main' = "exited" /\ result' = "error"

Abandon == main' = "cleaning" /\ result' = "error"

Launch(p) ==
  /\ main = "launching"
  /\ p \in found
  /\ process[p] = "none"
  /\ \A q \in Plugins : process[q] # "started"
  /\ process' = [process EXCEPT ![p] = IF manifest[p] = "configurable" THEN "started" ELSE "ready"]
  /\ UNCHANGED <<environment, interrupted, main, found, gathered, outcome, result>>

(* The process cannot be started, does not complete its handshake and is   *)
(* killed, or is running and does not serve the policy interface.          *)
LaunchFails(p) ==
  /\ main = "launching"
  /\ p \in found
  /\ process[p] = "none"
  /\ \A q \in Plugins : process[q] # "started"
  /\ \E outcomeOfStart \in {"none", "killed", "started"} :
       process' = [process EXCEPT ![p] = outcomeOfStart]
  /\ Abandon
  /\ UNCHANGED <<environment, interrupted, found, gathered, outcome>>

(* Options that do not satisfy the manifest are refused before the plugin  *)
(* sees them.                                                              *)
Configure(p) ==
  /\ main = "launching"
  /\ process[p] = "started"
  /\ configuration[p] = "accepts"
  /\ process' = [process EXCEPT ![p] = "ready"]
  /\ UNCHANGED <<environment, interrupted, main, found, gathered, outcome, result>>

ConfigureFails(p) ==
  /\ main = "launching"
  /\ process[p] = "started"
  /\ configuration[p] = "refuses"
  /\ Abandon
  /\ UNCHANGED <<environment, interrupted, found, process, gathered, outcome>>

(* Mutant: the calls begin when the first plugin is up. *)
EndLaunchingWithFirst ==
  /\ main = "launching"
  /\ \E p \in found : process[p] = "ready"
  /\ main' = "calling"
  /\ UNCHANGED <<environment, interrupted, found, process, gathered, outcome, result>>

EndLaunching ==
  /\ main = "launching"
  /\ \A p \in found : process[p] = "ready"
  /\ main' = "calling"
  /\ UNCHANGED <<environment, interrupted, found, process, gathered, outcome, result>>

-----------------------------------------------------------------------------
(* Calling the launched plugins.  Nobody calls one that was not launched.  *)

Calls == INSTANCE PluginCallContract WITH
  behaviour <- [p \in Plugins |-> IF process[p] = "ready" THEN behaviour[p] ELSE "missing"]

CallStep ==
  /\ main = "calling"
  /\ UNCHANGED <<environment, main, found, process, result>>
  /\ \/ \E p \in Plugins : Calls!Gather(p) \/ Calls!ReportPluginError(p)
     \/ Calls!Succeed
     \/ Calls!ReportCancellation

EndCalling ==
  /\ main = "calling"
  /\ outcome # "running"
  /\ \/ outcome = "none" /\ collects /\ main' = "reporting" /\ UNCHANGED result
     \/ outcome = "none" /\ ~ collects /\ main' = "cleaning" /\ result' = "ok"
     \/ outcome # "none" /\ main' = "cleaning" /\ result' = "error"
  /\ UNCHANGED <<environment, interrupted, found, process, gathered, outcome>>

(* The report may fail, or the writing of its files. *)
Report ==
  /\ main = "reporting"
  /\ main' = "cleaning"
  /\ result' \in {"ok", "error"}
  /\ UNCHANGED <<environment, interrupted, found, process, gathered, outcome>>

-----------------------------------------------------------------------------
(* CleanupClients kills all clients in parallel and waits for all of them. *)

Kill(p) ==
  /\ main = "cleaning"
  /\ Alive(p)
  /\ process' = [process EXCEPT ![p] = "killed"]
  /\ UNCHANGED <<environment, interrupted, main, found, gathered, outcome, result>>

Exit ==
  /\ main = "cleaning"
  /\ \A p \in Plugins : ~ Alive(p)
  /\ main' = "exited"
  /\ UNCHANGED <<environment, interrupted, found, process, gathered, outcome, result>>

Interrupt ==
  /\ main # "exited"
  /\ ~ interrupted
  /\ interrupted' = TRUE
  /\ UNCHANGED <<environment, main, found, process, gathered, outcome, result>>

Done == main = "exited" /\ UNCHANGED vars

(* A plugin whose Configure hangs stops the command for good. *)
Stuck ==
  /\ main = "launching"
  /\ \E p \in Plugins : process[p] = "started" /\ configuration[p] = "hangs"
  /\ UNCHANGED vars

Command ==
  \/ FindRequestedPlugins
  \/ ResolveSelections
  \/ \E p \in Plugins : Launch(p) \/ LaunchFails(p) \/ Configure(p) \/ ConfigureFails(p)
  \/ EndLaunching
  \/ EndCalling
  \/ Report
  \/ \E p \in Plugins : Kill(p)
  \/ Exit

Next == Command \/ CallStep \/ Interrupt \/ Done \/ Stuck

(* Mutant: the calls are not given the command's context. *)
CallsMustEndByAnswer == \A p \in Plugins : process[p] = "ready" => behaviour[p] # "hangs"

(* Mutant: nobody closes the channel of the results. *)
CallsMustEndByInterrupt == interrupted

(* What PluginFanOut shows of the calls (EndsWhenPluginsAnswer,            *)
(* EndsAfterInterrupt): they end unless a plugin hangs, and an interrupt   *)
(* ends them even then.                                                    *)
CallsMustEnd ==
  interrupted \/ \A p \in Plugins : process[p] = "ready" => behaviour[p] # "hangs"

SafetySpec == Init /\ [][Next]_vars
Spec == SafetySpec /\ WF_vars(Command) /\ WF_vars(CallsMustEnd /\ CallStep)

-----------------------------------------------------------------------------
(* No plugin process outlives its command, however it ends: a failed       *)
(* launch, a failed call, an interrupt, a failed report.                   *)
NoPluginOutlivesCommand == main = "exited" => \A p \in Plugins : ~ Alive(p)

(* No process is started for a plan that requests a plugin without a       *)
(* usable manifest, and none for a plugin that the plan does not request,  *)
(* unless it requests nobody.                                              *)
LaunchedAsRequested ==
  \A p \in Plugins : process[p] # "none" =>
    /\ requested # {} => p \in requested
    /\ \A q \in requested : manifest[q] \notin {"absent", "invalid"}

(* A command that succeeds has had an answer from every requested policy   *)
(* plugin, and a scan reports the results of all of them.  A requested     *)
(* plugin whose manifest is not that of a policy plugin does not count.    *)
SuccessCoversRequested ==
  main = "exited" /\ result = "ok" =>
    \A p \in requested : manifest[p] # "otherType" =>
      behaviour[p] = "answers" /\ (collects => p \in gathered)

(* An interrupt ends the command, unless it is waiting for a plugin to be  *)
(* configured.                                                             *)
EndsAfterInterrupt ==
  interrupted ~> (main = "exited" \/ \E p \in Plugins : process[p] = "started"
                                                      /\ configuration[p] = "hangs")

(* Plugins that are all configured and called without hanging are all      *)
(* gone in the end, and so is the command.                                 *)
EndsWhenPluginsBehave ==
  (\A p \in Plugins : configuration[p] # "hangs" /\ behaviour[p] # "hangs")
    ~> (main = "exited")
=============================================================================

----------------------- MODULE PluginLifecycle_proofs -----------------------
(***************************************************************************)
(* Theorems about PluginLifecycle, for any set of plugins: no process      *)
(* outlives its command, none runs that was not asked for, a command       *)
(* succeeds only with all requested plugins, and nothing but a plugin that *)
(* hangs keeps it from ending.                                             *)
(***************************************************************************)
EXTENDS PluginLifecycle, FiniteSetTheorems, TLAPS

Launchable == {p \in Candidates : manifest[p] \in {"plain", "configurable"}}

(* A plugin has no validation component in the plan exactly when the plan  *)
(* does not request it.                                                    *)
Requesting == \A p \in Plugins : behaviour[p] = "missing" <=> p \notin requested

(* The command goes on after the discovery only with all plugins that it   *)
(* can launch, which are some.                                             *)
Found ==
  /\ found # {} => DiscoverySucceeds /\ found = Launchable
  /\ main \notin {"finding", "exited"} => found # {}
  /\ result = "ok" => found # {}

(* Only found plugins have processes, none before launching, all of them   *)
(* while they are called, and none after the cleanup.                      *)
Processes ==
  /\ \A p \in Plugins : process[p] # "none" => p \in found
  /\ main \in {"finding", "selecting"} => \A p \in Plugins : process[p] = "none"
  /\ main \in {"calling", "reporting"} => \A p \in found : process[p] = "ready"
  /\ NoPluginOutlivesCommand

(* Nothing is known of the calls before they begin, and they have ended    *)
(* without an error only if all found plugins that the plan requests have  *)
(* answered.                                                               *)
Outcome ==
  /\ main \in {"finding", "selecting", "launching"} => outcome = "running"
  /\ outcome = "none" =>
       \A p \in found : p \in requested =>
         behaviour[p] = "answers" /\ (collects => p \in gathered)
  /\ main = "reporting" \/ result = "ok" => outcome = "none"

(* While plugins are launched none has been killed; results come from      *)
(* plugins that are up and answer.                                         *)
Pending ==
  /\ main = "launching" => \A p \in Plugins : process[p] \in {"none", "started", "ready"}
  /\ main \in {"finding", "selecting", "launching"} => gathered = {}
  /\ main = "calling" => gathered \subseteq {p \in Plugins : process[p] = "ready"
                                                           /\ behaviour[p] = "answers"}

IInv == TypeOK /\ Requesting /\ Found /\ Processes /\ Outcome /\ Pending

USE DEF vars, environment, Alive

-----------------------------------------------------------------------------
(* Init establishes the invariant. *)
LEMMA InitIInv == Init => IInv
BY DEF Init, IInv, TypeOK, Requesting, Found, Processes, Outcome, Pending, NoPluginOutlivesCommand

(* What is launchable depends on the request and the manifests alone. *)
LEMMA SameRequest ==
  ASSUME UNCHANGED environment
  PROVE  DiscoverySucceeds' = DiscoverySucceeds /\ Launchable' = Launchable
BY DEF DiscoverySucceeds, Launchable, Candidates, Available

(* A discovery that succeeds finds a plugin. *)
LEMMA SomeLaunchable ==
  ASSUME TypeOK, DiscoverySucceeds
  PROVE  Launchable # {} /\ Launchable \subseteq Plugins
<1>1. Candidates \subseteq Plugins
  BY DEF TypeOK, Candidates, Available
<1>2. PICK p \in Candidates : manifest[p] # "otherType"
  BY DEF DiscoverySucceeds
<1>3. manifest[p] \in Manifests /\ manifest[p] # "absent" /\ manifest[p] # "invalid"
  BY <1>1, <1>2 DEF TypeOK, DiscoverySucceeds, Available
<1>4. p \in Launchable
  BY <1>2, <1>3 DEF Launchable, Manifests
<1> QED BY <1>1, <1>4 DEF Launchable

(* Discovery and selection preserve the invariant. *)
LEMMA FindIInv ==
  ASSUME IInv, FindRequestedPlugins \/ ResolveSelections
  PROVE  IInv'
<1>1. DiscoverySucceeds' = DiscoverySucceeds /\ Launchable' = Launchable
  BY SameRequest DEF FindRequestedPlugins, ResolveSelections
<1>2. CASE FindRequestedPlugins
  <2>1. CASE DiscoverySucceeds
    <3>1. found' = Launchable /\ Launchable # {} /\ Launchable \subseteq Plugins
      BY <1>2, <2>1, SomeLaunchable DEF FindRequestedPlugins, Launchable, IInv
    <3>2. TypeOK' /\ Requesting'
      BY <1>2, <2>1, <3>1 DEF FindRequestedPlugins, IInv, TypeOK, Requesting
    <3>3. Found' /\ Processes'
      BY <1>1, <1>2, <2>1, <3>1 DEF FindRequestedPlugins, IInv, Found, Processes,
                                    NoPluginOutlivesCommand
    <3>4. Outcome' /\ Pending'
      BY <1>2, <2>1 DEF FindRequestedPlugins, IInv, Outcome, Pending
    <3> QED BY <3>2, <3>3, <3>4 DEF IInv
  <2>2. CASE ~ DiscoverySucceeds
    BY <1>1, <1>2, <2>2 DEF FindRequestedPlugins, IInv, TypeOK, Requesting, Found, Processes,
                            Outcome, Pending, NoPluginOutlivesCommand
  <2> QED BY <2>1, <2>2
<1>3. CASE ResolveSelections
  BY <1>1, <1>3 DEF ResolveSelections, IInv, TypeOK, Requesting, Found, Processes, Outcome, Pending,
                    NoPluginOutlivesCommand
<1> QED BY <1>2, <1>3

(* Launching does, whatever becomes of a plugin's process. *)
LEMMA LaunchIInv ==
  ASSUME IInv,
         \/ \E p \in Plugins : Launch(p) \/ LaunchFails(p) \/ Configure(p) \/ ConfigureFails(p)
         \/ EndLaunching
  PROVE  IInv'
<1>1. DiscoverySucceeds' = DiscoverySucceeds /\ Launchable' = Launchable
  BY SameRequest DEF Launch, LaunchFails, Configure, ConfigureFails, EndLaunching
<1>2. ASSUME NEW p \in Plugins, Launch(p) PROVE IInv'
  BY <1>1, <1>2 DEF Launch, IInv, TypeOK, Requesting, Found, Processes, Outcome, Pending,
                    NoPluginOutlivesCommand
<1>3. ASSUME NEW p \in Plugins, LaunchFails(p) PROVE IInv'
  BY <1>1, <1>3 DEF LaunchFails, Abandon, IInv, TypeOK, Requesting, Found, Processes, Outcome, Pending,
                    NoPluginOutlivesCommand
<1>4. ASSUME NEW p \in Plugins, Configure(p) PROVE IInv'
  BY <1>1, <1>4 DEF Configure, IInv, TypeOK, Requesting, Found, Processes, Outcome, Pending,
                    NoPluginOutlivesCommand
<1>5. ASSUME NEW p \in Plugins, ConfigureFails(p) PROVE IInv'
  BY <1>1, <1>5 DEF ConfigureFails, Abandon, IInv, TypeOK, Requesting, Found, Processes, Outcome, Pending,
                    NoPluginOutlivesCommand
<1>6. CASE EndLaunching
  BY <1>1, <1>6 DEF EndLaunching, IInv, TypeOK, Requesting, Found, Processes, Outcome, Pending,
                    NoPluginOutlivesCommand
<1> QED BY <1>2, <1>3, <1>4, <1>5, <1>6

(* So do the calls, by their contract. *)
LEMMA CallIInv ==
  ASSUME IInv, CallStep
  PROVE  IInv'
<1>1. DiscoverySucceeds' = DiscoverySucceeds /\ Launchable' = Launchable
  BY SameRequest DEF CallStep
<1>2. outcome = "running" /\ interrupted' = interrupted
  BY DEF CallStep, Calls!Gather, Calls!Succeed, Calls!ReportPluginError, Calls!ReportCancellation
<1>3. ASSUME NEW p \in Plugins, Calls!Gather(p) PROVE IInv'
  BY <1>1, <1>3 DEF CallStep, Calls!Gather, Calls!Answering, IInv, TypeOK, Requesting, Found,
                    Processes, Outcome, Pending, NoPluginOutlivesCommand
<1>4. ASSUME NEW p \in Plugins, Calls!ReportPluginError(p) PROVE IInv'
  BY <1>1, <1>2, <1>4 DEF CallStep, Calls!ReportPluginError, IInv, TypeOK, Requesting, Found,
                          Processes, Outcome, Pending, NoPluginOutlivesCommand
<1>5. CASE Calls!Succeed
  <2>1. ASSUME NEW p \in found, p \in requested
        PROVE  behaviour[p] = "answers" /\ (collects => p \in gathered)
    <3>1. p \in Plugins /\ process[p] = "ready"
      BY <2>1 DEF CallStep, IInv, TypeOK, Processes
    <3>2. behaviour[p] = "answers"
      BY <1>5, <2>1, <3>1 DEF Calls!Succeed, IInv, Requesting
    <3> QED BY <1>5, <3>1, <3>2 DEF Calls!Succeed, Calls!Answering
  <2> QED BY <1>1, <1>2, <1>5, <2>1
          DEF CallStep, Calls!Succeed, IInv, TypeOK, Requesting, Found, Processes, Outcome, Pending,
              NoPluginOutlivesCommand
<1>6. CASE Calls!ReportCancellation
  BY <1>1, <1>2, <1>6 DEF CallStep, Calls!ReportCancellation, IInv, TypeOK, Requesting, Found,
                          Processes, Outcome, Pending, NoPluginOutlivesCommand
<1> QED BY <1>3, <1>4, <1>5, <1>6 DEF CallStep

(* So do the end of the command and the steps in which it does nothing. *)
LEMMA EndIInv ==
  ASSUME IInv,
         \/ EndCalling \/ Report \/ Exit \/ Interrupt \/ UNCHANGED vars
         \/ \E p \in Plugins : Kill(p)
  PROVE  IInv'
<1>1. DiscoverySucceeds' = DiscoverySucceeds /\ Launchable' = Launchable
  BY SameRequest DEF EndCalling, Report, Kill, Exit, Interrupt
<1>2. CASE EndCalling
  BY <1>1, <1>2 DEF EndCalling, IInv, TypeOK, Requesting, Found, Processes, Outcome, Pending,
                    NoPluginOutlivesCommand
<1>3. CASE Report
  <2>1. TypeOK' /\ Requesting' /\ Found'
    BY <1>1, <1>3 DEF Report, IInv, TypeOK, Requesting, Found
  <2>2. Processes'
    BY <1>3 DEF Report, IInv, Processes, NoPluginOutlivesCommand
  <2>3. Outcome' /\ Pending'
    BY <1>3 DEF Report, IInv, Outcome, Pending
  <2> QED BY <2>1, <2>2, <2>3 DEF IInv
<1>4. ASSUME NEW p \in Plugins, Kill(p) PROVE IInv'
  BY <1>1, <1>4 DEF Kill, IInv, TypeOK, Requesting, Found, Processes, Outcome, Pending,
                    NoPluginOutlivesCommand
<1>5. CASE Exit
  BY <1>1, <1>5 DEF Exit, IInv, TypeOK, Requesting, Found, Processes, Outcome, Pending,
                    NoPluginOutlivesCommand
<1>6. CASE Interrupt \/ UNCHANGED vars
  <2>1. TypeOK' /\ Requesting' /\ Found'
    BY <1>1, <1>6 DEF Interrupt, IInv, TypeOK, Requesting, Found
  <2>2. Processes'
    BY <1>6 DEF Interrupt, IInv, Processes, NoPluginOutlivesCommand
  <2>3. Outcome' /\ Pending'
    BY <1>6 DEF Interrupt, IInv, Outcome, Pending
  <2> QED BY <2>1, <2>2, <2>3 DEF IInv
<1> QED BY <1>2, <1>3, <1>4, <1>5, <1>6

(* Every reachable state satisfies the inductive invariant. *)
THEOREM Invariance == SafetySpec => []IInv
<1>1. IInv /\ [Next]_vars => IInv'
  BY FindIInv, LaunchIInv, CallIInv, EndIInv DEF Next, Command, Done, Stuck
<1> QED BY InitIInv, <1>1, PTL DEF SafetySpec

(* The command and its plugins keep their types (generate.go, scan.go). *)
THEOREM TypeCorrect == SafetySpec => []TypeOK
BY Invariance, PTL DEF IInv

(* However many plugins there are and wherever the command fails, no       *)
(* process outlives it (generate.go:88, go-plugin client.go:359).          *)
THEOREM NoneOutlives == SafetySpec => []NoPluginOutlivesCommand
BY Invariance, PTL DEF IInv, Processes

(* A process is only started for a plugin that was asked for, and only if  *)
(* all that were asked for have usable manifests (discovery.go:60-126).    *)
THEOREM AsRequested == SafetySpec => []LaunchedAsRequested
<1>1. IInv => LaunchedAsRequested
  BY DEF IInv, TypeOK, Found, Processes, LaunchedAsRequested, DiscoverySucceeds, Launchable,
         Candidates, Available
<1> QED BY Invariance, <1>1, PTL

(* A command succeeds only if every policy plugin that the plan requests   *)
(* has been launched and has answered (discovery.go:60-126).               *)
THEOREM Covers == SafetySpec => []SuccessCoversRequested
<1>1. ASSUME IInv, result = "ok", NEW p \in requested, manifest[p] # "otherType"
      PROVE  p \in found
  <2>1. p \in Candidates /\ DiscoverySucceeds /\ found = Launchable
    BY <1>1 DEF IInv, Found, Candidates
  <2>2. manifest[p] \in Manifests /\ manifest[p] # "absent" /\ manifest[p] # "invalid"
    BY <1>1, <2>1 DEF IInv, TypeOK, DiscoverySucceeds, Available
  <2> QED BY <1>1, <2>1, <2>2 DEF Launchable, Manifests
<1>2. IInv => SuccessCoversRequested
  BY <1>1 DEF IInv, Outcome, SuccessCoversRequested
<1> QED BY Invariance, <1>2, PTL
-----------------------------------------------------------------------------
(* What the command and its calls wait for: the guards of their steps.     *)
Starting == \E p \in Plugins : process[p] = "started"

LaunchingCanMove ==
  \/ ~ Starting /\ \E p \in found : process[p] = "none"
  \/ \E p \in Plugins : process[p] = "started" /\ configuration[p] \in {"accepts", "refuses"}
  \/ \A p \in found : process[p] = "ready"

CallsCanMove ==
  \/ collects /\ \E p \in Plugins :
       process[p] = "ready" /\ behaviour[p] = "answers" /\ p \notin gathered
  \/ \E p \in Plugins : process[p] = "ready" /\ behaviour[p] \in {"noRules", "fails"}
  \/ /\ \A p \in Plugins : process[p] = "ready" => behaviour[p] \in {"answers", "missing"}
     /\ collects =>
          gathered = {p \in Plugins : process[p] = "ready" /\ behaviour[p] = "answers"}
  \/ interrupted

CanMove ==
  \/ main \in {"finding", "selecting", "reporting", "cleaning"}
  \/ main = "launching" /\ LaunchingCanMove
  \/ main = "calling" /\ (outcome # "running" \/ CallsCanMove)

(* Until the command has exited it can go on, whatever its plugins are and *)
(* do, or one of them does not return from Configure, or does not answer a *)
(* call that nobody has interrupted.                                       *)
HeldUpOnlyByHanging ==
  main # "exited" =>
    \/ CanMove
    \/ main = "launching" /\ \E p \in Plugins :
         process[p] = "started" /\ configuration[p] = "hangs"
    \/ main = "calling" /\ ~ interrupted /\ \E p \in Plugins :
         process[p] = "ready" /\ behaviour[p] = "hangs"

(* For any plugins nothing but a plugin that hangs holds up the command    *)
(* (generate.go:56-117, scan.go:66-151, discovery.go:60-126).              *)
THEOREM NothingElseHoldsUp == SafetySpec => []HeldUpOnlyByHanging
<1>1. ASSUME IInv, main = "launching"
      PROVE  \/ LaunchingCanMove
             \/ \E p \in Plugins : process[p] = "started" /\ configuration[p] = "hangs"
  <2>1. \A p \in Plugins : configuration[p] \in {"accepts", "refuses", "hangs"}
    BY <1>1 DEF IInv, TypeOK, Configurations
  <2>2. CASE Starting
    BY <2>1, <2>2 DEF Starting, LaunchingCanMove
  <2>3. CASE ~ Starting
    <3>1. \A p \in found : process[p] \in {"none", "ready"}
      BY <1>1, <2>3 DEF IInv, TypeOK, Pending, Starting
    <3> QED BY <2>3, <3>1 DEF LaunchingCanMove
  <2> QED BY <2>2, <2>3
<1>2. ASSUME IInv, main = "calling"
      PROVE  CallsCanMove \/ (~ interrupted /\ \E p \in Plugins : process[p] = "ready"
                                                               /\ behaviour[p] = "hangs")
  <2>1. \A p \in Plugins : behaviour[p] \in {"missing", "noRules", "answers", "fails", "hangs"}
    BY <1>2 DEF IInv, TypeOK
  <2>2. gathered \subseteq {p \in Plugins : process[p] = "ready" /\ behaviour[p] = "answers"}
    BY <1>2 DEF IInv, Pending
  <2> QED BY <2>1, <2>2 DEF CallsCanMove
<1>3. IInv => HeldUpOnlyByHanging
  BY <1>1, <1>2 DEF HeldUpOnlyByHanging, CanMove, IInv, TypeOK
<1> QED BY Invariance, <1>3, PTL

(* The steps that are left: of the command, of each plugin's process to    *)
(* its end, one result per plugin, the end of the calls, an interrupt.     *)
MainLeft == [finding |-> 6, selecting |-> 5, launching |-> 4, calling |-> 3, reporting |-> 2,
             cleaning |-> 1, exited |-> 0]
ProcessRank == [none |-> 0, started |-> 1, ready |-> 2, killed |-> 3]

ProcessSteps == {s \in Plugins \X (1 .. 3) : ProcessRank[process[s[1]]] < s[2]}
NotGathered == Plugins \ gathered
OthersLeft ==
  MainLeft[main] + (IF outcome = "running" THEN 1 ELSE 0) + (IF interrupted THEN 0 ELSE 1)

StepsLeft == Cardinality(ProcessSteps) + Cardinality(NotGathered) + OthersLeft

(* Nothing is retried or repeated: with n plugins a command takes no more  *)
(* than 4 n + 8 steps, however it ends.                                    *)
StepsRunOut ==
  /\ [](StepsLeft \in 0 .. 4 * Cardinality(Plugins) + 8)
  /\ [][StepsLeft' < StepsLeft]_vars

(* The numbers are numbers. *)
LEMMA LeftTypes ==
  ASSUME TypeOK
  PROVE  /\ IsFiniteSet(ProcessSteps) /\ IsFiniteSet(NotGathered)
         /\ Cardinality(ProcessSteps) \in Nat /\ Cardinality(NotGathered) \in Nat
         /\ OthersLeft \in 0 .. 8
         /\ StepsLeft \in 0 .. 4 * Cardinality(Plugins) + 8
<1>1. IsFiniteSet(Plugins \X (1 .. 3)) /\ Cardinality(Plugins \X (1 .. 3)) = Cardinality(Plugins) * 3
  <2>1. IsFiniteSet(1 .. 3) /\ Cardinality(1 .. 3) = 3
    <3>1. ASSUME NEW k \in Nat PROVE IsFiniteSet(1 .. k) /\ Cardinality(1 .. k) = k
      BY FS_Interval
    <3>2. 3 \in Nat
      OBVIOUS
    <3> QED BY <3>1, <3>2, Zenon
  <2> QED BY <2>1, FS_Product, PluginsAssumption
<1>2. Cardinality(Plugins) \in Nat
  BY PluginsAssumption, FS_CardinalityType
<1>3. IsFiniteSet(ProcessSteps) /\ Cardinality(ProcessSteps) \in Nat
      /\ Cardinality(ProcessSteps) <= Cardinality(Plugins \X (1 .. 3))
  BY <1>1, FS_Subset, FS_CardinalityType DEF ProcessSteps
<1>4. IsFiniteSet(NotGathered) /\ Cardinality(NotGathered) \in Nat
      /\ Cardinality(NotGathered) <= Cardinality(Plugins)
  BY PluginsAssumption, FS_Subset, FS_CardinalityType DEF NotGathered
<1>5. OthersLeft \in 0 .. 8
  BY DEF TypeOK, OthersLeft, MainLeft
<1> QED BY <1>1, <1>2, <1>3, <1>4, <1>5 DEF StepsLeft

(* A set that loses an element and gains none becomes smaller. *)
LEMMA LosesElement ==
  ASSUME NEW S, NEW T, IsFiniteSet(S), T \subseteq S, NEW x \in S, x \notin T
  PROVE  Cardinality(T) < Cardinality(S)
<1>1. Cardinality(T) <= Cardinality(S) /\ (Cardinality(S) = Cardinality(T) => S = T)
  BY FS_Subset
<1>2. Cardinality(S) \in Nat /\ Cardinality(T) \in Nat
  BY FS_Subset, FS_CardinalityType
<1> QED BY <1>1, <1>2

(* A process never goes back: a plugin is neither restarted nor configured *)
(* again.                                                                  *)
LEMMA ProcessAdvances ==
  ASSUME TypeOK, NEW p \in Plugins, NEW l, process' = [process EXCEPT ![p] = l],
         ProcessRank[l] \in 0 .. 3, ProcessRank[process[p]] < ProcessRank[l]
  PROVE  Cardinality(ProcessSteps') < Cardinality(ProcessSteps)
<1>1. \A q \in Plugins : ProcessRank[process[q]] \in 0 .. 3
  BY DEF TypeOK, ProcessRank
<1>2. <<p, ProcessRank[l]>> \in ProcessSteps /\ <<p, ProcessRank[l]>> \notin ProcessSteps'
  BY <1>1 DEF ProcessSteps, TypeOK
<1>3. ProcessSteps' \subseteq ProcessSteps
  BY <1>1 DEF ProcessSteps, TypeOK
<1> QED BY <1>2, <1>3, LosesElement, LeftTypes

(* Together with NothingElseHoldsUp: the command ends, unless a plugin     *)
(* hangs in Configure, or in a call and nobody interrupts (generate.go:56, *)
(* scan.go:66).                                                            *)
THEOREM EveryStepCounts == SafetySpec => StepsRunOut
<1>1. ASSUME IInv, IInv', Next, ~ UNCHANGED vars
      PROVE  StepsLeft' < StepsLeft
  <2>1. TypeOK /\ TypeOK'
    BY <1>1 DEF IInv
  <2>2. /\ Cardinality(ProcessSteps) \in Nat /\ Cardinality(NotGathered) \in Nat
        /\ OthersLeft \in Nat /\ IsFiniteSet(NotGathered)
    BY <2>1, LeftTypes
  <2>3. /\ Cardinality(ProcessSteps') \in Nat /\ Cardinality(NotGathered') \in Nat
        /\ OthersLeft' \in Nat
    <3>1. (TypeOK => /\ Cardinality(ProcessSteps) \in Nat /\ Cardinality(NotGathered) \in Nat
                     /\ OthersLeft \in 0 .. 8)'
      BY LeftTypes, PTL
    <3> QED BY <2>1, <3>1
  <2>4. ASSUME NEW p \in Plugins, Launch(p) \/ Configure(p) \/ Kill(p)
        PROVE  StepsLeft' < StepsLeft
    <3>1. PICK l : process' = [process EXCEPT ![p] = l] /\ ProcessRank[l] \in 0 .. 3
                   /\ ProcessRank[process[p]] < ProcessRank[l]
      BY <2>4 DEF Launch, Configure, Kill, ProcessRank
    <3>2. NotGathered' = NotGathered /\ OthersLeft' = OthersLeft
      BY <2>4 DEF Launch, Configure, Kill, NotGathered, OthersLeft
    <3>3. Cardinality(ProcessSteps') < Cardinality(ProcessSteps)
      BY <2>1, <3>1, ProcessAdvances
    <3> QED BY <2>2, <2>3, <3>2, <3>3 DEF StepsLeft
  <2>5. ASSUME NEW p \in Plugins, LaunchFails(p) PROVE StepsLeft' < StepsLeft
    <3>1. ProcessSteps' = ProcessSteps \/ Cardinality(ProcessSteps') < Cardinality(ProcessSteps)
      <4>1. PICK l \in {"none", "killed", "started"} : process' = [process EXCEPT ![p] = l]
        BY <2>5 DEF LaunchFails
      <4>2. CASE l = "none"
        BY <2>1, <2>5, <4>1, <4>2 DEF LaunchFails, TypeOK, ProcessSteps
      <4>3. CASE l # "none"
        <5>1. ProcessRank[l] \in 0 .. 3 /\ ProcessRank[process[p]] < ProcessRank[l]
          BY <2>5, <4>3 DEF LaunchFails, ProcessRank
        <5> QED BY <2>1, <4>1, <5>1, ProcessAdvances
      <4> QED BY <4>2, <4>3
    <3>2. NotGathered' = NotGathered /\ OthersLeft' < OthersLeft
      BY <2>1, <2>5 DEF LaunchFails, Abandon, TypeOK, NotGathered, OthersLeft, MainLeft
    <3> QED BY <2>2, <2>3, <3>1, <3>2 DEF StepsLeft
  <2>6. ASSUME NEW p \in Plugins, CallStep, Calls!Gather(p) PROVE StepsLeft' < StepsLeft
    <3>1. p \in NotGathered /\ p \notin NotGathered' /\ NotGathered' \subseteq NotGathered
      BY <2>1, <2>6 DEF Calls!Gather, NotGathered
    <3>2. Cardinality(NotGathered') < Cardinality(NotGathered)
      BY <2>2, <3>1, LosesElement
    <3>3. ProcessSteps' = ProcessSteps /\ OthersLeft' = OthersLeft
      BY <2>6 DEF CallStep, Calls!Gather, ProcessSteps, OthersLeft
    <3> QED BY <2>2, <2>3, <3>2, <3>3 DEF StepsLeft
  <2>7. CASE /\ CallStep
             /\ \/ \E p \in Plugins : Calls!ReportPluginError(p)
                \/ Calls!Succeed \/ Calls!ReportCancellation
    <3>1. UNCHANGED <<process, gathered, main, interrupted>>
      BY <2>7 DEF CallStep, Calls!ReportPluginError, Calls!Succeed, Calls!ReportCancellation
    <3>2. outcome = "running" /\ outcome' # "running"
      BY <2>7 DEF Calls!ReportPluginError, Calls!Succeed, Calls!ReportCancellation
    <3>3. OthersLeft' < OthersLeft
      BY <2>1, <3>1, <3>2 DEF TypeOK, OthersLeft, MainLeft
    <3>4. ProcessSteps' = ProcessSteps /\ NotGathered' = NotGathered
      BY <3>1 DEF ProcessSteps, NotGathered
    <3> QED BY <2>2, <2>3, <3>3, <3>4 DEF StepsLeft
  <2>8. CASE \/ FindRequestedPlugins \/ ResolveSelections \/ EndLaunching \/ EndCalling \/ Report
             \/ Exit \/ Interrupt \/ \E p \in Plugins : ConfigureFails(p)
    <3>1. OthersLeft' < OthersLeft
      BY <2>1, <2>8 DEF FindRequestedPlugins, ResolveSelections, EndLaunching, EndCalling, Report,
                        Exit, Interrupt, ConfigureFails, Abandon, TypeOK, OthersLeft, MainLeft
    <3>2. UNCHANGED <<process, gathered>>
      BY <2>8 DEF FindRequestedPlugins, ResolveSelections, EndLaunching, EndCalling, Report,
                  Exit, Interrupt, ConfigureFails
    <3>3. ProcessSteps' = ProcessSteps /\ NotGathered' = NotGathered
      BY <3>2 DEF ProcessSteps, NotGathered
    <3> QED BY <2>2, <2>3, <3>1, <3>3 DEF StepsLeft
  <2> QED BY <1>1, <2>4, <2>5, <2>6, <2>7, <2>8 DEF Next, Command, CallStep, Done, Stuck
<1>2. IInv => StepsLeft \in 0 .. 4 * Cardinality(Plugins) + 8
  BY LeftTypes DEF IInv
<1>3. IInv /\ IInv' /\ [Next]_vars => [StepsLeft' < StepsLeft]_vars
  BY <1>1
<1> QED BY Invariance, <1>2, <1>3, PTL DEF SafetySpec, StepsRunOut
=============================================================================

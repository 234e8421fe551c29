---------------------------- MODULE PluginFanOut ----------------------------
(***************************************************************************)
(* How "generate" and "scan" call all policy plugins at once.              *)
(*                                                                         *)
(* GeneratePolicy and AggregateResults start one goroutine per launched    *)
(* plugin in an error group that runs at most Limit of them at a time.     *)
(* The group's context is cancelled by the first error, by the end of the  *)
(* group's Wait, and by an interrupt of the command.  AggregateResults     *)
(* (collects) also gathers the results: the goroutines send them on a      *)
(* channel with room for one result per plugin, a closer goroutine closes  *)
(* it once the group is done, and the main goroutine, having started all   *)
(* of them, ranges over it and then waits for the group a second time.     *)
(*                                                                         *)
(* The sequence of a goroutine's steps is its pc:                          *)
(*                                                                         *)
(*   idle -> running -> calling -> sending -> returning -> released -> done *)
(*              |          |                      ^                        *)
(*              +--> failed (-> recording) -------+                        *)
(*                                                                         *)
(* Each result is sent once and none is ordered before another, so the     *)
(* channel's buffer and the gathered results are sets of plugins.          *)
(***************************************************************************)
EXTENDS Naturals, FiniteSets

CONSTANTS
  Plugins,   \* the launched plugins
  Limit,     \* InputContext.MaxConcurrency
  Cases      \* the combinations of what the plugins do that are considered

(* What a goroutine meets when it runs: no validation component for the    *)
(* plugin, no rule of it in scope, or a plugin that answers, fails, or     *)
(* never answers.                                                          *)
Behaviours == {"missing", "noRules", "answers", "fails", "hangs"}

ASSUME PluginsAssumption == IsFiniteSet(Plugins)
ASSUME LimitAssumption   == Limit \in Nat \ {0}
ASSUME CasesAssumption   == Cases \subseteq [Plugins -> Behaviours]

(* The errors of a goroutine: its own, or only the group's cancellation,   *)
(* seen before the call or during it.                                      *)
OwnErrors == {"noRules", "fails"}
CancelErrors == {"skipped", "cancelled"}
Errors == OwnErrors \cup CancelErrors
None == "none"

VARIABLES
  collects,     \* TRUE: AggregateResults; FALSE: GeneratePolicy (never changes)
  behaviour,    \* per plugin, what its goroutine meets (never changes)
  interrupted,  \* SIGINT cancelled the command's context
  main,         \* where the goroutine of the command stands
  pc,           \* where each plugin's goroutine stands
  failure,      \* the error each goroutine's function returned
  once,         \* the group's errOnce
  err,          \* the group's err
  cancelled,    \* the group's cancel function was called
  buffer,       \* resultChan: the results it holds
  closed,       \* resultChan was closed
  closer,       \* where the goroutine that closes it stands
  allResults    \* what main has received

given == <<collects, behaviour>>
vars == <<given, interrupted, main, pc, failure, once, err, cancelled,
          buffer, closed, closer, allResults>>
channelVars == <<buffer, closed, closer, allResults>>
groupVars == <<once, err, cancelled>>

TypeOK ==
  /\ collects \in BOOLEAN
  /\ behaviour \in [Plugins -> Behaviours]
  /\ interrupted \in BOOLEAN
  /\ main \in {"spawning", "receiving", "waiting", "returned"}
  /\ pc \in [Plugins -> {"idle", "running", "calling", "sending", "failed",
                         "recording", "returning", "released", "done"}]
  /\ failure \in [Plugins -> Errors \cup {None}]
  /\ once \in {"free", "running", "done"}
  /\ err \in Errors \cup {None}
  /\ cancelled \in BOOLEAN
  /\ buffer \in SUBSET Plugins
  /\ closed \in BOOLEAN
  /\ closer \in {"none", "waiting", "closing", "done"}
  /\ allResults \in SUBSET Plugins

(* Mutant: the calls do not see that the command is interrupted. *)
CtxDoneDetached == cancelled

CtxDone == interrupted \/ cancelled

(* Mutant: the channel has no room of its own. *)
NoCapacity == 0

(* make(chan policy.PVPResult, len(pluginSet)) *)
Capacity == Cardinality(Plugins)

(* Mutant: the token is given back before the call. *)
HoldingUntilCalled == {p \in Plugins : pc[p] = "running"}

(* The semaphore's tokens and the wait group's count, as the goroutines    *)
(* that account for them.                                                  *)
Holding == {p \in Plugins : pc[p] \notin {"idle", "released", "done"}}

(* Mutant: the group counts tokens instead of goroutines. *)
NoTokenHeld == Holding = {}

WaitGroupZero == \A p \in Plugins : pc[p] \in {"idle", "done"}

Init ==
  /\ collects \in BOOLEAN
  /\ behaviour \in Cases
  /\ interrupted = FALSE
  /\ main = "spawning"
  /\ pc = [p \in Plugins |-> "idle"]
  /\ failure = [p \in Plugins |-> None]
  /\ once = "free"
  /\ err = None
  /\ cancelled = FALSE
  /\ buffer = {}
  /\ closed = FALSE
  /\ closer = "none"
  /\ allResults = {}

-----------------------------------------------------------------------------
(* The goroutine of a plugin. *)

Goto(p, label) == pc' = [pc EXCEPT ![p] = label]

Fail(p, e) == Goto(p, "failed") /\ failure' = [failure EXCEPT ![p] = e]

(* The context is looked at once, before any work. *)
Skip(p) ==
  /\ pc[p] = "running"
  /\ CtxDone
  /\ Fail(p, "skipped")
  /\ UNCHANGED <<given, interrupted, main, groupVars, channelVars>>

Resolve(p) ==
  /\ pc[p] = "running"
  /\ ~ CtxDone
  /\ \/ /\ behaviour[p] = "missing"
        /\ Goto(p, "returning")
        /\ UNCHANGED failure
     \/ /\ behaviour[p] = "noRules"
        /\ Fail(p, "noRules")
     \/ /\ behaviour[p] \in {"answers", "fails", "hangs"}
        /\ Goto(p, "calling")
        /\ UNCHANGED failure
  /\ UNCHANGED <<given, interrupted, main, groupVars, channelVars>>

(* The call ends with the plugin's answer or with the cancellation, and    *)
(* when both are there either may win.                                     *)
Answer(p) ==
  /\ pc[p] = "calling"
  /\ \/ /\ behaviour[p] = "answers"
        /\ Goto(p, IF collects THEN "sending" ELSE "returning")
        /\ UNCHANGED failure
     \/ /\ behaviour[p] = "fails"
        /\ Fail(p, "fails")
  /\ UNCHANGED <<given, interrupted, main, groupVars, channelVars>>

Abort(p) ==
  /\ pc[p] = "calling"
  /\ CtxDone
  /\ Fail(p, "cancelled")
  /\ UNCHANGED <<given, interrupted, main, groupVars, channelVars>>

Send(p) ==
  /\ pc[p] = "sending"
  /\ ~ closed
  /\ Cardinality(buffer) < Capacity
  /\ buffer' = buffer \cup {p}
  /\ Goto(p, "returning")
  /\ UNCHANGED <<given, interrupted, main, failure, groupVars, closed, closer, allResults>>

(* Mutant: the context is cancelled before the error is recorded. *)
CancelThenRecordError(p) ==
  /\ pc[p] = "failed"
  /\ once = "free"
  /\ IF ~ cancelled
     THEN cancelled' = TRUE /\ UNCHANGED <<once, err, pc>>
     ELSE /\ once' = "running"
          /\ err' = failure[p]
          /\ Goto(p, "recording")
          /\ UNCHANGED cancelled
  /\ UNCHANGED <<given, interrupted, main, failure, channelVars>>

(* errOnce.Do: the first error is kept, and only then the context is       *)
(* cancelled.  Other goroutines' Do blocks until the first one's is over.  *)
RecordError(p) ==
  /\ pc[p] = "failed"
  /\ once = "free"
  /\ once' = "running"
  /\ err' = failure[p]
  /\ Goto(p, "recording")
  /\ UNCHANGED <<given, interrupted, main, failure, cancelled, channelVars>>

(* Mutant: the first error does not cancel the others' context. *)
CancelNothing(p) ==
  /\ pc[p] = "recording"
  /\ once' = "done"
  /\ Goto(p, "returning")
  /\ UNCHANGED <<given, interrupted, main, failure, err, cancelled, channelVars>>

CancelGroup(p) ==
  /\ pc[p] = "recording"
  /\ once' = "done"
  /\ cancelled' = TRUE
  /\ Goto(p, "returning")
  /\ UNCHANGED <<given, interrupted, main, failure, err, channelVars>>

DropError(p) ==
  /\ pc[p] = "failed"
  /\ once = "done"
  /\ Goto(p, "returning")
  /\ UNCHANGED <<given, interrupted, main, failure, groupVars, channelVars>>

(* Group.done: first the semaphore, then the wait group. *)
ReleaseToken(p) ==
  /\ pc[p] = "returning"
  /\ Goto(p, "released")
  /\ UNCHANGED <<given, interrupted, main, failure, groupVars, channelVars>>

WaitGroupDone(p) ==
  /\ pc[p] = "released"
  /\ Goto(p, "done")
  /\ UNCHANGED <<given, interrupted, main, failure, groupVars, channelVars>>

Goroutine(p) ==
  \/ Skip(p) \/ Resolve(p) \/ Answer(p) \/ Abort(p) \/ Send(p)
  \/ RecordError(p) \/ CancelGroup(p) \/ DropError(p)
  \/ ReleaseToken(p) \/ WaitGroupDone(p)

-----------------------------------------------------------------------------
(* The main goroutine and the closer. *)

(* Group.Go blocks while Limit goroutines hold a token.  The plugins come  *)
(* from a map, in any order.                                               *)
Spawn(p) ==
  /\ main = "spawning"
  /\ pc[p] = "idle"
  /\ Cardinality(Holding) < Limit
  /\ Goto(p, "running")
  /\ UNCHANGED <<given, interrupted, main, failure, groupVars, channelVars>>

(* Mutant: nobody is started to close the channel. *)
EndSpawningWithoutCloser ==
  /\ main = "spawning"
  /\ \A p \in Plugins : pc[p] # "idle"
  /\ main' = IF collects THEN "receiving" ELSE "waiting"
  /\ UNCHANGED <<given, interrupted, pc, failure, groupVars, channelVars>>

EndSpawning ==
  /\ main = "spawning"
  /\ \A p \in Plugins : pc[p] # "idle"
  /\ IF collects THEN main' = "receiving" /\ closer' = "waiting"
                 ELSE main' = "waiting" /\ UNCHANGED closer
  /\ UNCHANGED <<given, interrupted, pc, failure, groupVars, buffer, closed, allResults>>

Receive(p) ==
  /\ main = "receiving"
  /\ p \in buffer
  /\ buffer' = buffer \ {p}
  /\ allResults' = allResults \cup {p}
  /\ UNCHANGED <<given, interrupted, main, pc, failure, groupVars, closed, closer>>

(* Mutant: main stops receiving when the channel runs empty. *)
EndReceivingWhenEmpty ==
  /\ main = "receiving"
  /\ buffer = {}
  /\ main' = "waiting"
  /\ UNCHANGED <<given, interrupted, pc, failure, groupVars, channelVars>>

EndReceiving ==
  /\ main = "receiving"
  /\ closed /\ buffer = {}
  /\ main' = "waiting"
  /\ UNCHANGED <<given, interrupted, pc, failure, groupVars, channelVars>>

Return ==
  /\ main = "waiting"
  /\ WaitGroupZero
  /\ main' = "returned"
  /\ cancelled' = TRUE
  /\ UNCHANGED <<given, interrupted, pc, failure, once, err, channelVars>>

Main == (\E p \in Plugins : Spawn(p) \/ Receive(p)) \/ EndSpawning \/ EndReceiving \/ Return

(* Mutant: the channel is closed without waiting for the group. *)
CloserDoesNotWait ==
  /\ closer = "waiting"
  /\ closer' = "closing"
  /\ cancelled' = TRUE
  /\ UNCHANGED <<given, interrupted, main, pc, failure, once, err, buffer, closed, allResults>>

CloserWait ==
  /\ closer = "waiting"
  /\ WaitGroupZero
  /\ closer' = "closing"
  /\ cancelled' = TRUE
  /\ UNCHANGED <<given, interrupted, main, pc, failure, once, err, buffer, closed, allResults>>

CloseChannel ==
  /\ closer = "closing"
  /\ closer' = "done"
  /\ closed' = TRUE
  /\ UNCHANGED <<given, interrupted, main, pc, failure, groupVars, buffer, allResults>>

Closer == CloserWait \/ CloseChannel

Interrupt ==
  /\ main # "returned"
  /\ ~ interrupted
  /\ interrupted' = TRUE
  /\ UNCHANGED <<given, main, pc, failure, groupVars, channelVars>>

Done == main = "returned" /\ UNCHANGED vars

Next == (\E p \in Plugins : Goroutine(p)) \/ Main \/ Closer \/ Interrupt \/ Done

(* Goroutines that can run are run.  A plugin that does not hang answers.  *)
(* Nobody has to interrupt the command.                                    *)
Fairness ==
  /\ \A p \in Plugins : WF_vars(Goroutine(p))
  /\ WF_vars(Main)
  /\ WF_vars(Closer)

SafetySpec == Init /\ [][Next]_vars
Spec == SafetySpec /\ Fairness

-----------------------------------------------------------------------------
(* No goroutine sends on the closed channel, which would panic: the closer *)
(* has waited for all of them.                                             *)
NoSendAfterClose == closer \in {"closing", "done"} => \A p \in Plugins : pc[p] # "sending"

(* No goroutine blocks in its send. *)
SendersHaveRoom ==
  \A p \in Plugins : pc[p] = "sending" => Cardinality(buffer) < Capacity

(* What the goroutine of a plugin, main and the closer wait for: the guards *)
(* of their steps.                                                         *)
CanMove(p) ==
  \/ pc[p] \in {"running", "recording", "returning", "released"}
  \/ pc[p] = "calling" /\ (CtxDone \/ behaviour[p] \in {"answers", "fails"})
  \/ pc[p] = "sending" /\ ~ closed /\ Cardinality(buffer) < Capacity
  \/ pc[p] = "failed" /\ once # "running"

MainCanMove ==
  \/ /\ main = "spawning"
     /\ (\E p \in Plugins : pc[p] = "idle") => Cardinality(Holding) < Limit
  \/ main = "receiving" /\ (buffer # {} \/ closed)
  \/ main = "waiting" /\ WaitGroupZero

CloserCanMove == closer = "closing" \/ (closer = "waiting" /\ WaitGroupZero)

(* Nobody waits in a circle: until main returns somebody can go on, or     *)
(* everybody waits for a plugin that does not answer a call which nobody   *)
(* has cancelled.  Main starts goroutines while others hold the tokens and *)
(* receives only afterwards, senders hold a token while they send, the     *)
(* closer waits for all of them, main for the closer, and a failed         *)
(* goroutine for the one whose error is being recorded.                    *)
HeldUpOnlyByHanging ==
  main # "returned" =>
    \/ MainCanMove \/ CloserCanMove \/ \E p \in Plugins : CanMove(p)
    \/ ~ CtxDone /\ \E p \in Plugins : pc[p] = "calling" /\ behaviour[p] = "hangs"

(* At most Limit plugins are called at a time. *)
ConcurrencyLimited == Cardinality({p \in Plugins : pc[p] = "calling"}) <= Limit

(* Without an interrupt the error the command reports is a plugin's own,   *)
(* never the cancellation that another plugin's error caused.              *)
ReportedErrorIsOwn == ~ interrupted => err \notin CancelErrors

(* When the command goes on without an error, every plugin with a          *)
(* validation component has answered and each of its results was received. *)
SuccessIsComplete ==
  main = "returned" /\ err = None =>
    /\ \A p \in Plugins : behaviour[p] \in {"answers", "missing"}
    /\ collects => allResults = {p \in Plugins : behaviour[p] = "answers"}

(* When the command goes on to kill the plugins, no call to one is in      *)
(* flight, no goroutine is left, and nothing remains in the channel.       *)
NothingLeftBehind ==
  main = "returned" =>
    /\ \A p \in Plugins : pc[p] = "done"
    /\ buffer = {}
    /\ collects => closer = "done"

(* The goroutines, the group and the channel implement the contract. *)
Contract == INSTANCE PluginCallContract WITH
  gathered <- allResults,
  outcome <- IF main = "returned" THEN err ELSE "running"

ImplementsContract == Contract!Spec

(* The first error to be recorded is never replaced. *)
FirstErrorStays == [][err # None => err' = err]_vars

(* The command ends if every plugin answers; if any goroutine has failed,  *)
(* and if the user interrupts it, it ends even though others hang.         *)
EndsWhenPluginsAnswer == (\A p \in Plugins : behaviour[p] # "hangs") ~> (main = "returned")
EndsAfterError == (\E p \in Plugins : pc[p] = "failed") ~> (main = "returned")
EndsAfterInterrupt == interrupted ~> (main = "returned")
=============================================================================

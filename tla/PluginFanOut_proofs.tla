------------------------ MODULE PluginFanOut_proofs ------------------------
(***************************************************************************)
(* Theorems about PluginFanOut, for any number of plugins, any limit and   *)
(* whatever the plugins do: the channel is used safely, the limit is kept, *)
(* and the calls implement PluginCallContract.                             *)
(***************************************************************************)
EXTENDS PluginFanOut, FiniteSetTheorems, TLAPS

Started == \A p \in Plugins : pc[p] # "idle"
AllDone == \A p \in Plugins : pc[p] = "done"
Ending == {"returning", "released", "done"}

(* How far main, the closer and the goroutines can be apart. *)
Progress ==
  /\ main # "spawning" \/ closer # "none" => Started
  /\ main = "spawning" => closer = "none"
  /\ main # "spawning" /\ collects => closer # "none"
  /\ main = "receiving" \/ closer # "none" => collects
  /\ closer \in {"closing", "done"} \/ main = "returned" => AllDone
  /\ closed <=> closer = "done"
  /\ main \in {"waiting", "returned"} /\ collects => closer = "done" /\ buffer = {}

(* A result is sent once, by a plugin that answered. *)
Results ==
  /\ \A p \in buffer \cup allResults :
       pc[p] \in Ending /\ behaviour[p] = "answers" /\ collects
  /\ buffer \cap allResults = {}
  /\ \A p \in Plugins : pc[p] = "sending" => behaviour[p] = "answers" /\ collects

(* The group's error is recorded once, by one goroutine that is at it;     *)
(* until it has been, the context is cancelled by nobody but the user,     *)
(* unless all goroutines are done.                                         *)
Group ==
  /\ once = "free" <=> err = None
  /\ once = "running" => \E p \in Plugins : pc[p] = "recording"
  /\ \A p \in Plugins : pc[p] = "recording" => once = "running"
  /\ \A p, q \in Plugins : pc[p] = "recording" /\ pc[q] = "recording" => p = q
  /\ \A p \in Plugins : pc[p] \in {"failed", "recording"} => failure[p] \in Errors
  /\ cancelled => once = "done" \/ AllDone

(* An error is a plugin's own, or the consequence of an earlier error or   *)
(* of an interrupt.                                                        *)
Causes ==
  /\ \A p \in Plugins : failure[p] \in OwnErrors => behaviour[p] = failure[p]
  /\ \A p \in Plugins : failure[p] \in CancelErrors => interrupted \/ once = "done"
  /\ err \in OwnErrors => \E p \in Plugins : behaviour[p] = err
  /\ err \in CancelErrors => interrupted

(* A goroutine that has ended has left a result or an error, or had        *)
(* nothing to do.                                                          *)
Accounted ==
  \A p \in Plugins : pc[p] \in Ending =>
    \/ err # None
    \/ behaviour[p] = "missing"
    \/ behaviour[p] = "answers" /\ (collects => p \in buffer \cup allResults)

(* Only plugins with something to do are called. *)
Callable == \A p \in Plugins : pc[p] = "calling" => behaviour[p] \in {"answers", "fails", "hangs"}

IInv == TypeOK /\ Progress /\ Results /\ Group /\ Causes /\ Accounted /\ Callable

Tokens == Cardinality(Holding) <= Limit

USE DEF vars, given, channelVars, groupVars, Goto, Fail, CtxDone, WaitGroupZero,
        Started, AllDone, Ending, OwnErrors, CancelErrors, Errors, None

-----------------------------------------------------------------------------
(* Init establishes the invariant. *)
LEMMA InitIInv == Init => IInv
BY CasesAssumption DEF Init, IInv, TypeOK, Progress, Results, Group, Causes, Accounted, Callable

(* The work of a goroutine preserves it. *)
LEMMA WorkIInv ==
  ASSUME IInv, NEW p \in Plugins,
         Skip(p) \/ Resolve(p) \/ Answer(p) \/ Abort(p) \/ Send(p)
  PROVE  IInv'
<1>1. CASE Skip(p)
  <2>1. TypeOK' /\ Progress' /\ Results'
    BY <1>1 DEF Skip, IInv, TypeOK, Progress, Results
  <2>2. Group' /\ Causes' /\ Accounted' /\ Callable'
    BY <1>1 DEF Skip, IInv, TypeOK, Group, Causes, Accounted, Callable
  <2> QED BY <2>1, <2>2 DEF IInv
<1>2. CASE Resolve(p)
  <2>1. TypeOK' /\ Progress' /\ Results'
    BY <1>2 DEF Resolve, IInv, TypeOK, Progress, Results
  <2>2. Group' /\ Causes' /\ Accounted' /\ Callable'
    BY <1>2 DEF Resolve, IInv, TypeOK, Group, Causes, Accounted, Callable
  <2> QED BY <2>1, <2>2 DEF IInv
<1>3. CASE Answer(p)
  <2>1. TypeOK' /\ Progress' /\ Results'
    BY <1>3 DEF Answer, IInv, TypeOK, Progress, Results
  <2>2. Group' /\ Causes' /\ Accounted' /\ Callable'
    BY <1>3 DEF Answer, IInv, TypeOK, Group, Causes, Accounted, Callable
  <2> QED BY <2>1, <2>2 DEF IInv
<1>4. CASE Abort(p)
  <2>1. TypeOK' /\ Progress' /\ Results'
    BY <1>4 DEF Abort, IInv, TypeOK, Progress, Results
  <2>2. Group' /\ Causes' /\ Accounted' /\ Callable'
    BY <1>4 DEF Abort, IInv, TypeOK, Group, Causes, Accounted, Callable
  <2> QED BY <2>1, <2>2 DEF IInv
<1>5. CASE Send(p)
  <2>1. TypeOK' /\ Progress' /\ Results'
    BY <1>5 DEF Send, IInv, TypeOK, Progress, Results
  <2>2. Group' /\ Causes' /\ Accounted' /\ Callable'
    BY <1>5 DEF Send, IInv, TypeOK, Results, Group, Causes, Accounted, Callable
  <2> QED BY <2>1, <2>2 DEF IInv
<1> QED BY <1>1, <1>2, <1>3, <1>4, <1>5

(* So does its end, in which the first error is recorded. *)
LEMMA EndIInv ==
  ASSUME IInv, NEW p \in Plugins,
         RecordError(p) \/ CancelGroup(p) \/ DropError(p) \/ ReleaseToken(p) \/ WaitGroupDone(p)
  PROVE  IInv'
<1>1. CASE RecordError(p)
  <2>1. TypeOK' /\ Progress' /\ Results'
    BY <1>1 DEF RecordError, IInv, TypeOK, Progress, Results, Group
  <2>2. Group' /\ Accounted' /\ Callable'
    BY <1>1 DEF RecordError, IInv, TypeOK, Group, Accounted, Callable
  <2>3. Causes'
    BY <1>1 DEF RecordError, IInv, TypeOK, Causes
  <2> QED BY <2>1, <2>2, <2>3 DEF IInv
<1>2. CASE CancelGroup(p)
  <2>1. TypeOK' /\ Progress' /\ Results'
    BY <1>2 DEF CancelGroup, IInv, TypeOK, Progress, Results
  <2>2. Group' /\ Causes' /\ Accounted' /\ Callable'
    BY <1>2 DEF CancelGroup, IInv, TypeOK, Group, Causes, Accounted, Callable
  <2> QED BY <2>1, <2>2 DEF IInv
<1>3. CASE DropError(p)
  <2>1. TypeOK' /\ Progress' /\ Results'
    BY <1>3 DEF DropError, IInv, TypeOK, Progress, Results
  <2>2. Group' /\ Causes' /\ Accounted' /\ Callable'
    BY <1>3 DEF DropError, IInv, TypeOK, Group, Causes, Accounted, Callable
  <2> QED BY <2>1, <2>2 DEF IInv
<1>4. CASE ReleaseToken(p)
  <2>1. TypeOK' /\ Progress' /\ Results'
    BY <1>4 DEF ReleaseToken, IInv, TypeOK, Progress, Results
  <2>2. Group' /\ Causes' /\ Accounted' /\ Callable'
    BY <1>4 DEF ReleaseToken, IInv, TypeOK, Group, Causes, Accounted, Callable
  <2> QED BY <2>1, <2>2 DEF IInv
<1>5. CASE WaitGroupDone(p)
  <2>1. TypeOK' /\ Progress' /\ Results'
    BY <1>5 DEF WaitGroupDone, IInv, TypeOK, Progress, Results
  <2>2. Group' /\ Causes' /\ Accounted' /\ Callable'
    BY <1>5 DEF WaitGroupDone, IInv, TypeOK, Group, Causes, Accounted, Callable
  <2> QED BY <2>1, <2>2 DEF IInv
<1> QED BY <1>1, <1>2, <1>3, <1>4, <1>5

(* So do main, the closer and the user. *)
LEMMA MainIInv ==
  ASSUME IInv, Main \/ Closer \/ Interrupt \/ UNCHANGED vars
  PROVE  IInv'
<1>1. ASSUME NEW p \in Plugins, Spawn(p) PROVE IInv'
  <2>1. TypeOK' /\ Progress' /\ Results'
    BY <1>1 DEF Spawn, IInv, TypeOK, Progress, Results
  <2>2. Group' /\ Causes' /\ Accounted' /\ Callable'
    BY <1>1 DEF Spawn, IInv, TypeOK, Progress, Group, Causes, Accounted, Callable
  <2> QED BY <2>1, <2>2 DEF IInv
<1>2. ASSUME NEW p \in Plugins, Receive(p) PROVE IInv'
  <2>1. TypeOK' /\ Progress' /\ Results'
    BY <1>2 DEF Receive, IInv, TypeOK, Progress, Results
  <2>2. Group' /\ Causes' /\ Accounted' /\ Callable'
    BY <1>2 DEF Receive, IInv, TypeOK, Group, Causes, Accounted, Callable
  <2> QED BY <2>1, <2>2 DEF IInv
<1>3. CASE EndSpawning
  <2>1. TypeOK' /\ Results'
    BY <1>3 DEF EndSpawning, IInv, TypeOK, Results
  <2>3. Progress'
    BY <1>3 DEF EndSpawning, IInv, TypeOK, Progress
  <2>2. Group' /\ Causes' /\ Accounted' /\ Callable'
    BY <1>3 DEF EndSpawning, IInv, TypeOK, Group, Causes, Accounted, Callable
  <2> QED BY <2>1, <2>2, <2>3 DEF IInv
<1>4. CASE EndReceiving
  <2>1. TypeOK' /\ Progress' /\ Results'
    BY <1>4 DEF EndReceiving, IInv, TypeOK, Progress, Results
  <2>2. Group' /\ Causes' /\ Accounted' /\ Callable'
    BY <1>4 DEF EndReceiving, IInv, TypeOK, Group, Causes, Accounted, Callable
  <2> QED BY <2>1, <2>2 DEF IInv
<1>5. CASE Return
  <2>1. TypeOK' /\ Progress' /\ Results'
    BY <1>5 DEF Return, IInv, TypeOK, Progress, Results
  <2>2. Group' /\ Causes' /\ Accounted' /\ Callable'
    BY <1>5 DEF Return, IInv, TypeOK, Progress, Group, Causes, Accounted, Callable
  <2> QED BY <2>1, <2>2 DEF IInv
<1>6. CASE CloserWait
  <2>1. TypeOK' /\ Progress' /\ Results'
    BY <1>6 DEF CloserWait, IInv, TypeOK, Progress, Results
  <2>2. Group' /\ Causes' /\ Accounted' /\ Callable'
    BY <1>6 DEF CloserWait, IInv, TypeOK, Progress, Group, Causes, Accounted, Callable
  <2> QED BY <2>1, <2>2 DEF IInv
<1>7. CASE CloseChannel
  <2>1. TypeOK' /\ Progress' /\ Results'
    BY <1>7 DEF CloseChannel, IInv, TypeOK, Progress, Results
  <2>2. Group' /\ Causes' /\ Accounted' /\ Callable'
    BY <1>7 DEF CloseChannel, IInv, TypeOK, Group, Causes, Accounted, Callable
  <2> QED BY <2>1, <2>2 DEF IInv
<1>8. CASE Interrupt
  <2>1. TypeOK' /\ Progress' /\ Results'
    BY <1>8 DEF Interrupt, IInv, TypeOK, Progress, Results
  <2>2. Group' /\ Causes' /\ Accounted' /\ Callable'
    BY <1>8 DEF Interrupt, IInv, TypeOK, Group, Causes, Accounted, Callable
  <2> QED BY <2>1, <2>2 DEF IInv
<1>9. CASE UNCHANGED vars
  <2>1. TypeOK' /\ Progress' /\ Results'
    BY <1>9 DEF IInv, TypeOK, Progress, Results
  <2>2. Group' /\ Causes' /\ Accounted' /\ Callable'
    BY <1>9 DEF IInv, Group, Causes, Accounted, Callable
  <2> QED BY <2>1, <2>2 DEF IInv
<1> QED BY <1>1, <1>2, <1>3, <1>4, <1>5, <1>6, <1>7, <1>8, <1>9 DEF Main, Closer

(* Every step preserves the invariant. *)
LEMMA NextIInv == IInv /\ [Next]_vars => IInv'
BY WorkIInv, EndIInv, MainIInv DEF Next, Goroutine, Done

(* Every reachable state satisfies the inductive invariant. *)
THEOREM Invariance == SafetySpec => []IInv
BY InitIInv, NextIInv, PTL DEF SafetySpec

(* The group, the channel and the goroutines keep their types. *)
THEOREM TypeCorrect == SafetySpec => []TypeOK
BY Invariance, PTL DEF IInv

(* No goroutine ever sends on the closed channel (aggregate.go:61-69).     *)
THEOREM NeverSendsAfterClose == SafetySpec => []NoSendAfterClose
<1>1. IInv => NoSendAfterClose
  BY DEF IInv, Progress, NoSendAfterClose
<1> QED BY Invariance, <1>1, PTL

(* With room for one result per plugin no sender ever blocks, however few  *)
(* goroutines may run at a time (aggregate.go:29).                         *)
THEOREM NeverBlocksSending == SafetySpec => []SendersHaveRoom
<1>1. ASSUME IInv, NEW p \in Plugins, pc[p] = "sending"
      PROVE  Cardinality(buffer) < Capacity
  <2>1. buffer \subseteq Plugins \ {p}
    BY <1>1 DEF IInv, TypeOK, Results
  <2>2. IsFiniteSet(Plugins \ {p}) /\ Cardinality(Plugins \ {p}) = Cardinality(Plugins) - 1
    BY <1>1, PluginsAssumption, FS_RemoveElement
  <2>3. Cardinality(buffer) <= Cardinality(Plugins \ {p})
    BY <2>1, <2>2, FS_Subset
  <2>4. Cardinality(buffer) \in Nat /\ Cardinality(Plugins) \in Nat
    BY <2>1, <2>2, PluginsAssumption, FS_Subset, FS_CardinalityType
  <2> QED BY <2>2, <2>3, <2>4 DEF Capacity
<1>2. IInv => SendersHaveRoom
  BY <1>1 DEF SendersHaveRoom
<1> QED BY Invariance, <1>2, PTL

(* The error that the group reports is a plugin's own unless the user has  *)
(* interrupted the command (errgroup.go:129-138).                          *)
THEOREM ReportsOwnError == SafetySpec => []ReportedErrorIsOwn
<1>1. IInv => ReportedErrorIsOwn
  BY DEF IInv, Causes, ReportedErrorIsOwn
<1> QED BY Invariance, <1>1, PTL

(* Once nothing runs any more, the absence of an error means an answer     *)
(* from every plugin, all of them received.                                *)
LEMMA CompleteIfDone ==
  ASSUME IInv, main \in {"waiting", "returned"}, AllDone, err = None
  PROVE  /\ \A p \in Plugins : behaviour[p] \in {"answers", "missing"}
         /\ collects => allResults = {p \in Plugins : behaviour[p] = "answers"}
BY DEF IInv, TypeOK, Progress, Results, Accounted

(* The actions succeed only with the answer of every plugin that has       *)
(* something to do, none of them left in the channel (aggregate.go:29-81). *)
THEOREM Complete == SafetySpec => []SuccessIsComplete
<1>1. IInv => SuccessIsComplete
  BY CompleteIfDone DEF IInv, Progress, SuccessIsComplete
<1> QED BY Invariance, <1>1, PTL

(* The actions return with nothing of theirs running (aggregate.go:77).    *)
THEOREM NothingLeft == SafetySpec => []NothingLeftBehind
<1>1. IInv => NothingLeftBehind
  BY DEF IInv, Progress, Results, NothingLeftBehind
<1> QED BY Invariance, <1>1, PTL

-----------------------------------------------------------------------------
(* A goroutine that cannot go on has not begun, is done, or is in the call *)
(* of a plugin that hangs: the channel has room, and if another one is     *)
(* recording its error, that one can go on.                                *)
LEMMA IdleDoneOrHanging ==
  ASSUME IInv, SendersHaveRoom, \A q \in Plugins : ~ CanMove(q), NEW p \in Plugins
  PROVE  \/ pc[p] \in {"idle", "done"}
         \/ ~ CtxDone /\ pc[p] = "calling" /\ behaviour[p] = "hangs"
<1>1. pc[p] # "sending"
  <2> SUFFICES ASSUME pc[p] = "sending" PROVE FALSE
    OBVIOUS
  <2>1. ~ closed
    BY DEF IInv, Progress
  <2> QED BY <2>1 DEF SendersHaveRoom, CanMove
<1>2. pc[p] # "failed"
  <2> SUFFICES ASSUME pc[p] = "failed" PROVE FALSE
    OBVIOUS
  <2>1. once = "running"
    BY DEF CanMove
  <2>2. PICK q \in Plugins : pc[q] = "recording"
    BY <2>1 DEF IInv, Group
  <2> QED BY <2>2 DEF CanMove
<1>3. pc[p] = "calling" => ~ CtxDone /\ behaviour[p] \notin {"answers", "fails"}
  BY DEF CanMove
<1>4. pc[p] = "calling" => behaviour[p] = "hangs"
  BY <1>3 DEF IInv, Callable
<1> QED BY <1>1, <1>2, <1>3, <1>4 DEF IInv, TypeOK, CanMove

(* Main, goroutines and closer never wait for each other in a circle,      *)
(* however many plugins there are and however few may run at a time: if    *)
(* nobody can go on, a plugin hangs in a call that nobody has cancelled    *)
(* (aggregate.go:29-77, errgroup.go:59-139).                               *)
THEOREM NoCircularWait == SafetySpec => []HeldUpOnlyByHanging
<1>1. ASSUME IInv, SendersHaveRoom, main # "returned",
             \A q \in Plugins : ~ CanMove(q),
             CtxDone \/ \A p \in Plugins : ~ (pc[p] = "calling" /\ behaviour[p] = "hangs")
      PROVE  MainCanMove \/ CloserCanMove
  <2>1. WaitGroupZero
    BY <1>1, IdleDoneOrHanging
  <2>2. CASE main = "spawning"
    <3>1. Holding = {}
      BY <2>1 DEF Holding
    <3> QED BY <2>2, <3>1, FS_EmptySet, LimitAssumption DEF MainCanMove
  <2>3. CASE main = "receiving"
    BY <1>1, <2>1, <2>3 DEF IInv, TypeOK, Progress, MainCanMove, CloserCanMove
  <2>4. CASE main = "waiting"
    BY <2>1, <2>4 DEF MainCanMove
  <2> QED BY <1>1, <2>2, <2>3, <2>4 DEF IInv, TypeOK
<1>2. IInv /\ SendersHaveRoom => HeldUpOnlyByHanging
  BY <1>1 DEF HeldUpOnlyByHanging
<1> QED BY Invariance, NeverBlocksSending, <1>2, PTL

-----------------------------------------------------------------------------
(* Receiving a result gathers it, and the return of main decides the       *)
(* outcome; every other step is none of the contract's concern.            *)
LEMMA StepContract ==
  ASSUME IInv, IInv', [Next]_vars
  PROVE  [Contract!Next]_Contract!vars
<1> USE DEF Contract!vars
<1>1. ASSUME NEW p \in Plugins, Receive(p) PROVE Contract!Gather(p)
  BY <1>1 DEF Receive, IInv, TypeOK, Progress, Results, Contract!Gather, Contract!Answering
<1>2. CASE Return
  <2>1. main = "waiting" /\ main' = "returned" /\ err' = err /\ AllDone
    BY <1>2 DEF Return, IInv, Progress
  <2>2. CASE err = None
    <3>1. Contract!Succeed
      BY <1>2, <2>1, <2>2, CompleteIfDone DEF Return, Contract!Succeed, Contract!Answering
    <3> QED BY <3>1 DEF Contract!Next
  <2>3. CASE err \in OwnErrors
    <3>1. PICK p \in Plugins : behaviour[p] = err
      BY <2>3 DEF IInv, Causes
    <3>2. Contract!ReportPluginError(p)
      BY <1>2, <2>1, <2>3, <3>1 DEF Return, Contract!ReportPluginError
    <3> QED BY <3>2 DEF Contract!Next
  <2>4. CASE err \in CancelErrors
    <3>1. Contract!ReportCancellation
      BY <1>2, <2>1, <2>4 DEF Return, IInv, Causes, Contract!ReportCancellation
    <3> QED BY <3>1 DEF Contract!Next
  <2> QED BY <2>2, <2>3, <2>4 DEF IInv, TypeOK
<1>3. CASE Interrupt
  BY <1>3 DEF Interrupt, Contract!Next, Contract!Interrupt
<1>4. ASSUME NEW p \in Plugins, Goroutine(p) PROVE UNCHANGED Contract!vars
  <2>1. pc[p] # "done"
    BY <1>4 DEF Goroutine, Skip, Resolve, Answer, Abort, Send, RecordError, CancelGroup,
                DropError, ReleaseToken, WaitGroupDone
  <2>2. main # "returned"
    BY <2>1 DEF IInv, Progress
  <2> QED BY <1>4, <2>2
          DEF Goroutine, Skip, Resolve, Answer, Abort, Send, RecordError, CancelGroup,
              DropError, ReleaseToken, WaitGroupDone
<1>5. ASSUME NEW p \in Plugins, Spawn(p) PROVE UNCHANGED Contract!vars
  BY <1>5 DEF Spawn
<1>6. CASE EndSpawning \/ EndReceiving \/ Closer \/ UNCHANGED vars
  BY <1>6 DEF EndSpawning, EndReceiving, Closer, CloserWait, CloseChannel
<1> QED BY <1>1, <1>2, <1>3, <1>4, <1>5, <1>6 DEF Next, Main, Done, Contract!Next

(* Goroutines, group and channel implement the contract that the commands  *)
(* rely on (generate.go:25-61, aggregate.go:23-82).                        *)
THEOREM Implements == SafetySpec => ImplementsContract
<1>1. Init => Contract!Init
  BY CasesAssumption DEF Init, Contract!Init, Behaviours
<1> QED BY InitIInv, NextIInv, StepContract, <1>1, PTL
        DEF SafetySpec, ImplementsContract, Contract!Spec

(* The first error is never replaced, whichever goroutine fails later      *)
(* (errgroup.go:129-138).                                                  *)
THEOREM KeepsFirstError == SafetySpec => FirstErrorStays
<1>1. ASSUME IInv, [Next]_vars, err # None PROVE err' = err
  BY <1>1 DEF Next, Goroutine, Skip, Resolve, Answer, Abort, Send, RecordError, CancelGroup,
              DropError, ReleaseToken, WaitGroupDone, Main, Spawn, Receive, EndSpawning,
              EndReceiving, Return, Closer, CloserWait, CloseChannel, Interrupt, Done, IInv, Group
<1>2. IInv /\ [Next]_vars => [err # None => err' = err]_vars
  BY <1>1
<1> QED BY Invariance, <1>2, PTL DEF SafetySpec, FirstErrorStays

-----------------------------------------------------------------------------
(* Only a spawn takes a token. *)
LEMMA TokensStep ==
  ASSUME TypeOK, Tokens, [Next]_vars
  PROVE  Tokens'
<1>1. IsFiniteSet(Holding) /\ Cardinality(Holding) \in Nat
  BY PluginsAssumption, FS_Subset, FS_CardinalityType DEF Holding
<1>2. ASSUME NEW p \in Plugins, Spawn(p) PROVE Tokens'
  <2>1. Holding' = Holding \cup {p} /\ p \notin Holding
    BY <1>2 DEF Spawn, Holding, TypeOK
  <2>2. Cardinality(Holding') = Cardinality(Holding) + 1
    BY <1>1, <2>1, FS_AddElement
  <2> QED BY <1>1, <1>2, <2>2, LimitAssumption DEF Spawn, Tokens
<1>3. ASSUME Holding' \subseteq Holding PROVE Tokens'
  <2>1. Cardinality(Holding') <= Cardinality(Holding) /\ Cardinality(Holding') \in Nat
    BY <1>1, <1>3, FS_Subset, FS_CardinalityType
  <2> QED BY <1>1, <2>1, LimitAssumption DEF Tokens
<1>4. ASSUME NEW p \in Plugins, Goroutine(p) PROVE Holding' \subseteq Holding
  BY <1>4 DEF Holding, TypeOK, Goroutine, Skip, Resolve, Answer, Abort, Send, RecordError,
              CancelGroup, DropError, ReleaseToken, WaitGroupDone
<1>5. ASSUME NEW p \in Plugins, Receive(p) PROVE Holding' \subseteq Holding
  BY <1>5 DEF Holding, Receive
<1>6. CASE EndSpawning \/ EndReceiving \/ Return \/ Closer \/ Interrupt \/ UNCHANGED vars
  <2>1. pc' = pc
    BY <1>6 DEF EndSpawning, EndReceiving, Return, Closer, CloserWait, CloseChannel, Interrupt
  <2> QED BY <1>3, <2>1 DEF Holding
<1> QED BY <1>2, <1>3, <1>4, <1>5, <1>6 DEF Next, Main, Done

(* The limit holds at every moment (errgroup.go:86-91). *)
THEOREM Limited == SafetySpec => []ConcurrencyLimited
<1>1. Init => Tokens
  <2>1. Init => Holding = {}
    BY DEF Init, Holding
  <2> QED BY <2>1, FS_EmptySet, LimitAssumption DEF Tokens
<1>2. TypeOK /\ Tokens => ConcurrencyLimited
  <2> SUFFICES ASSUME Tokens PROVE ConcurrencyLimited
    OBVIOUS
  <2> DEFINE Called == {p \in Plugins : pc[p] = "calling"}
  <2>1. IsFiniteSet(Holding) /\ Cardinality(Holding) \in Nat
    BY PluginsAssumption, FS_Subset, FS_CardinalityType DEF Holding
  <2>2. Called \subseteq Holding
    BY DEF Holding
  <2>3. Cardinality(Called) <= Cardinality(Holding) /\ Cardinality(Called) \in Nat
    BY <2>1, <2>2, FS_Subset, FS_CardinalityType
  <2> QED BY <2>1, <2>3, LimitAssumption DEF Tokens, ConcurrencyLimited
<1> QED BY TypeCorrect, TokensStep, <1>1, <1>2, PTL DEF SafetySpec

-----------------------------------------------------------------------------
(* The steps that are left: of each goroutine to its end, of main and the  *)
(* closer, one receipt per plugin, and an interrupt.                       *)
Rank == [idle |-> 0, running |-> 1, calling |-> 2, sending |-> 3, failed |-> 4,
         recording |-> 5, returning |-> 6, released |-> 7, done |-> 8]
MainLeft == [spawning |-> 3, receiving |-> 2, waiting |-> 1, returned |-> 0]
CloserLeft == [none |-> 3, waiting |-> 2, closing |-> 1, done |-> 0]

GoroutineSteps == {s \in Plugins \X (1 .. 8) : Rank[pc[s[1]]] < s[2]}
NotReceived == Plugins \ allResults
OthersLeft == MainLeft[main] + CloserLeft[closer] + (IF interrupted THEN 0 ELSE 1)

StepsLeft == Cardinality(GoroutineSteps) + Cardinality(NotReceived) + OthersLeft

(* No goroutine retries and nobody polls: with n plugins the calls take no *)
(* more than 9 n + 7 steps, in whatever order.                             *)
StepsRunOut ==
  /\ [](StepsLeft \in 0 .. 9 * Cardinality(Plugins) + 7)
  /\ [][StepsLeft' < StepsLeft]_vars

(* The numbers are numbers. *)
LEMMA LeftTypes ==
  ASSUME TypeOK
  PROVE  /\ IsFiniteSet(GoroutineSteps) /\ IsFiniteSet(NotReceived)
         /\ Cardinality(GoroutineSteps) \in 0 .. 8 * Cardinality(Plugins)
         /\ Cardinality(NotReceived) \in 0 .. Cardinality(Plugins)
         /\ MainLeft[main] \in 0 .. 3 /\ CloserLeft[closer] \in 0 .. 3 /\ OthersLeft \in 0 .. 7
         /\ StepsLeft \in 0 .. 9 * Cardinality(Plugins) + 7
<1>1. IsFiniteSet(Plugins \X (1 .. 8)) /\ Cardinality(Plugins \X (1 .. 8)) = Cardinality(Plugins) * 8
  <2>1. IsFiniteSet(1 .. 8) /\ Cardinality(1 .. 8) = 8
    <3>1. ASSUME NEW k \in Nat PROVE IsFiniteSet(1 .. k) /\ Cardinality(1 .. k) = k
      BY FS_Interval
    <3>2. 8 \in Nat
      OBVIOUS
    <3> QED BY <3>1, <3>2, Zenon
  <2> QED BY <2>1, FS_Product, PluginsAssumption
<1>2. Cardinality(Plugins) \in Nat
  BY PluginsAssumption, FS_CardinalityType
<1>3. IsFiniteSet(GoroutineSteps) /\ Cardinality(GoroutineSteps) \in Nat
      /\ Cardinality(GoroutineSteps) <= Cardinality(Plugins \X (1 .. 8))
  BY <1>1, FS_Subset, FS_CardinalityType DEF GoroutineSteps
<1>4. IsFiniteSet(NotReceived) /\ Cardinality(NotReceived) \in Nat
      /\ Cardinality(NotReceived) <= Cardinality(Plugins)
  BY PluginsAssumption, FS_Subset, FS_CardinalityType DEF NotReceived
<1>5. MainLeft[main] \in 0 .. 3 /\ CloserLeft[closer] \in 0 .. 3
  BY DEF TypeOK, MainLeft, CloserLeft
<1>6. OthersLeft \in 0 .. 7
  BY <1>5 DEF TypeOK, OthersLeft
<1> QED BY <1>1, <1>2, <1>3, <1>4, <1>5, <1>6 DEF StepsLeft

(* A set that loses an element and gains none becomes smaller. *)
LEMMA LosesElement ==
  ASSUME NEW S, NEW T, IsFiniteSet(S), T \subseteq S, NEW x \in S, x \notin T
  PROVE  Cardinality(T) < Cardinality(S)
<1>1. Cardinality(T) <= Cardinality(S) /\ (Cardinality(S) = Cardinality(T) => S = T)
  BY FS_Subset
<1>2. Cardinality(S) \in Nat /\ Cardinality(T) \in Nat
  BY FS_Subset, FS_CardinalityType
<1> QED BY <1>1, <1>2

(* A goroutine never goes back. *)
LEMMA GoroutineAdvances ==
  ASSUME TypeOK, NEW p \in Plugins, Goroutine(p) \/ Spawn(p)
  PROVE  /\ Cardinality(GoroutineSteps') < Cardinality(GoroutineSteps)
         /\ UNCHANGED <<interrupted, main, closer, allResults>>
<1>1. PICK l : pc' = [pc EXCEPT ![p] = l] /\ Rank[l] \in 0 .. 8 /\ Rank[pc[p]] < Rank[l]
  BY DEF Rank, TypeOK, Goroutine, Skip, Resolve, Answer, Abort, Send, RecordError, CancelGroup,
         DropError, ReleaseToken, WaitGroupDone, Spawn
<1>2. UNCHANGED <<interrupted, main, closer, allResults>>
  BY DEF Goroutine, Skip, Resolve, Answer, Abort, Send, RecordError, CancelGroup,
         DropError, ReleaseToken, WaitGroupDone, Spawn
<1>3. \A q \in Plugins : Rank[pc[q]] \in 0 .. 8
  BY DEF TypeOK, Rank
<1>4. <<p, Rank[l]>> \in GoroutineSteps /\ <<p, Rank[l]>> \notin GoroutineSteps'
  BY <1>1, <1>3 DEF GoroutineSteps, TypeOK
<1>5. GoroutineSteps' \subseteq GoroutineSteps
  BY <1>1, <1>3 DEF GoroutineSteps, TypeOK
<1> QED BY <1>2, <1>4, <1>5, LosesElement, LeftTypes

(* So every other step brings main, the closer or the user forward.        *)
LEMMA OthersAdvance ==
  ASSUME TypeOK, Progress, Next, ~ UNCHANGED vars,
         ~ (\E p \in Plugins : Goroutine(p) \/ Spawn(p) \/ Receive(p))
  PROVE  OthersLeft' < OthersLeft /\ UNCHANGED <<pc, allResults>>
<1>1. CASE EndSpawning
  BY <1>1 DEF EndSpawning, TypeOK, Progress, OthersLeft, MainLeft, CloserLeft
<1>2. CASE EndReceiving \/ Return
  BY <1>2 DEF EndReceiving, Return, TypeOK, OthersLeft, MainLeft, CloserLeft
<1>3. CASE Closer
  BY <1>3 DEF Closer, CloserWait, CloseChannel, TypeOK, OthersLeft, MainLeft, CloserLeft
<1>4. CASE Interrupt
  BY <1>4 DEF Interrupt, TypeOK, OthersLeft, MainLeft, CloserLeft
<1> QED BY <1>1, <1>2, <1>3, <1>4 DEF Next, Main, Done

(* Together with NoCircularWait: the calls end, unless a plugin hangs and  *)
(* nobody cancels (aggregate.go:23-82, errgroup.go:59-139).                *)
THEOREM EveryStepCounts == SafetySpec => StepsRunOut
<1>1. ASSUME IInv, IInv', Next, ~ UNCHANGED vars
      PROVE  StepsLeft' < StepsLeft
  <2>1. TypeOK /\ TypeOK' /\ Progress /\ Results
    BY <1>1 DEF IInv
  <2>2. /\ Cardinality(GoroutineSteps) \in Nat /\ Cardinality(NotReceived) \in Nat
        /\ OthersLeft \in Nat /\ IsFiniteSet(NotReceived)
    BY <2>1, LeftTypes, PluginsAssumption, FS_CardinalityType
  <2>3. /\ Cardinality(GoroutineSteps') \in Nat /\ Cardinality(NotReceived') \in Nat
        /\ OthersLeft' \in Nat
    <3>1. (TypeOK => /\ IsFiniteSet(GoroutineSteps) /\ IsFiniteSet(NotReceived)
                     /\ OthersLeft \in 0 .. 7)'
      BY LeftTypes, PTL
    <3>2. IsFiniteSet(GoroutineSteps') /\ IsFiniteSet(NotReceived') /\ OthersLeft' \in Nat
      BY <2>1, <3>1
    <3> QED BY <3>2, FS_CardinalityType
  <2>4. ASSUME NEW p \in Plugins, Goroutine(p) \/ Spawn(p) PROVE StepsLeft' < StepsLeft
    <3>1. Cardinality(GoroutineSteps') < Cardinality(GoroutineSteps)
      BY <2>1, <2>4, GoroutineAdvances
    <3>2. NotReceived' = NotReceived /\ OthersLeft' = OthersLeft
      BY <2>1, <2>4, GoroutineAdvances DEF NotReceived, OthersLeft
    <3> QED BY <2>2, <2>3, <3>1, <3>2 DEF StepsLeft
  <2>5. ASSUME NEW p \in Plugins, Receive(p) PROVE StepsLeft' < StepsLeft
    <3>1. p \in NotReceived /\ p \notin NotReceived' /\ NotReceived' \subseteq NotReceived
      BY <2>1, <2>5 DEF Receive, Results, NotReceived
    <3>2. Cardinality(NotReceived') < Cardinality(NotReceived)
      BY <2>2, <3>1, LosesElement
    <3>3. GoroutineSteps' = GoroutineSteps /\ OthersLeft' = OthersLeft
      BY <2>5 DEF Receive, GoroutineSteps, OthersLeft
    <3> QED BY <2>2, <2>3, <3>2, <3>3 DEF StepsLeft
  <2>6. CASE ~ (\E p \in Plugins : Goroutine(p) \/ Spawn(p) \/ Receive(p))
    <3>1. OthersLeft' < OthersLeft /\ UNCHANGED <<pc, allResults>>
      BY <1>1, <2>1, <2>6, OthersAdvance
    <3>2. GoroutineSteps' = GoroutineSteps /\ NotReceived' = NotReceived
      BY <3>1 DEF GoroutineSteps, NotReceived
    <3> QED BY <2>2, <2>3, <3>1, <3>2 DEF StepsLeft
  <2> QED BY <2>4, <2>5, <2>6
<1>2. IInv => StepsLeft \in 0 .. 9 * Cardinality(Plugins) + 7
  BY LeftTypes DEF IInv
<1>3. IInv /\ IInv' /\ [Next]_vars => [StepsLeft' < StepsLeft]_vars
  BY <1>1
<1> QED BY Invariance, <1>2, <1>3, PTL DEF SafetySpec, StepsRunOut
=============================================================================

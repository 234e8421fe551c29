-------------------------- MODULE Workspace_proofs --------------------------
(***************************************************************************)
(* Theorems about Workspace, for any shells, plans and frameworks: the     *)
(* types, that a scan only reports what oscap evaluated for the framework  *)
(* of its plan, and that it reports its own evaluation where no other      *)
(* oscap process runs before it has read it.                               *)
(***************************************************************************)
EXTENDS Workspace, TLAPS

ScanLabels == {"evaluating", "evaluated", "reporting", "writingResults"}

(* A command that got past loading its plan knows it, and one that got     *)
(* past reading a file knows its content.                                  *)
Loaded ==
  \A u \in Shells :
    /\ pc[u] \in {"planning", "writingPlan", "tailoring", "writingPolicy", "checked"}
                   \cup ScanLabels => work[u] \in Plans
    /\ pc[u] \in ScanLabels => used[u] \in Plans
    /\ pc[u] = "evaluated" => arf \in Plans
    /\ pc[u] \in {"reporting", "writingResults"} => seen[u] \in Plans

(* Once oscap has started, it works on a tailoring for the plan's          *)
(* framework; the results on disk came from such a scan.                   *)
Matched ==
  \A u \in Shells : pc[u] \in ScanLabels => Framework[used[u]] = Framework[work[u]]

IInv == TypeOK /\ Loaded /\ Matched /\ ScannedOwnFramework

(* Init establishes the invariant. *)
LEMMA InitIInv == Init => IInv
BY PlansAssumption DEF Init, IInv, TypeOK, Loaded, Matched, ScannedOwnFramework, Result, ScanLabels

USE DEF Goto, Leave, files, ScanLabels

(* The commands that write the plan preserve it. *)
LEMMA PlanIInv ==
  ASSUME IInv, NEW u \in Shells,
         (\E p \in Plans : StartPlan(u, p)) \/ TruncatePlan(u) \/ WritePlan(u)
  PROVE  IInv'
<1>1. CASE \E p \in Plans : StartPlan(u, p)
  BY <1>1 DEF StartPlan, Start, IInv, TypeOK, Loaded, Matched, ScannedOwnFramework
<1>2. CASE TruncatePlan(u)
  BY <1>2 DEF TruncatePlan, IInv, TypeOK, Loaded, Matched, ScannedOwnFramework
<1>3. CASE WritePlan(u)
  BY <1>3 DEF WritePlan, IInv, TypeOK, Loaded, Matched, ScannedOwnFramework
<1> QED BY <1>1, <1>2, <1>3

(* The commands that write the tailoring preserve it. *)
LEMMA GenerateIInv ==
  ASSUME IInv, NEW u \in Shells,
         StartGenerate(u) \/ LoadForGenerate(u) \/ RejectPolicy(u) \/ CreatePolicy(u) \/ WritePolicy(u)
  PROVE  IInv'
<1>1. CASE StartGenerate(u)
  BY <1>1 DEF StartGenerate, Start, IInv, TypeOK, Loaded, Matched, ScannedOwnFramework
<1>2. CASE LoadForGenerate(u)
  BY <1>2 DEF LoadForGenerate, LoadPlan, IInv, TypeOK, Loaded, Matched, ScannedOwnFramework
<1>3. CASE RejectPolicy(u)
  BY <1>3 DEF RejectPolicy, IInv, TypeOK, Loaded, Matched, ScannedOwnFramework
<1>4. CASE CreatePolicy(u)
  BY <1>4 DEF CreatePolicy, IInv, TypeOK, Loaded, Matched, ScannedOwnFramework
<1>5. CASE WritePolicy(u)
  BY <1>5 DEF WritePolicy, IInv, TypeOK, Loaded, Matched, ScannedOwnFramework
<1> QED BY <1>1, <1>2, <1>3, <1>4, <1>5

(* The scan preserves it. *)
LEMMA ScanIInv ==
  ASSUME IInv, NEW u \in Shells,
         StartScan(u) \/ LoadForScan(u) \/ StartOscap(u) \/ FinishOscap(u) \/ FailOscap(u)
         \/ ReadArf(u) \/ TruncateResults(u) \/ WriteResults(u)
  PROVE  IInv'
<1>1. CASE StartScan(u)
  BY <1>1 DEF StartScan, Start, IInv, TypeOK, Loaded, Matched, ScannedOwnFramework
<1>2. CASE LoadForScan(u)
  BY <1>2 DEF LoadForScan, LoadPlan, IInv, TypeOK, Loaded, Matched, ScannedOwnFramework
<1>3. CASE StartOscap(u)
  BY <1>3 DEF StartOscap, HasTailoringProfile, IInv, TypeOK, Loaded, Matched, ScannedOwnFramework
<1>4. CASE FinishOscap(u)
  BY <1>4 DEF FinishOscap, IInv, TypeOK, Loaded, Matched, ScannedOwnFramework
<1>5. CASE FailOscap(u)
  BY <1>5 DEF FailOscap, IInv, TypeOK, Loaded, Matched, ScannedOwnFramework
<1>6. CASE ReadArf(u)
  BY <1>6 DEF ReadArf, IInv, TypeOK, Loaded, Matched, ScannedOwnFramework
<1>7. CASE TruncateResults(u)
  BY <1>7, PlansAssumption
     DEF TruncateResults, IInv, TypeOK, Loaded, Matched, ScannedOwnFramework
<1>8. CASE WriteResults(u)
  BY <1>8 DEF WriteResults, IInv, TypeOK, Loaded, Matched, ScannedOwnFramework, Result
<1> QED BY <1>1, <1>2, <1>3, <1>4, <1>5, <1>6, <1>7, <1>8

(* So do deaths, orphans and steps in which nothing changes. *)
LEMMA OtherIInv ==
  ASSUME IInv,
         (\E u \in Shells : Die(u)) \/ (\E t \in Plans : FinishOrphan(t)) \/ UNCHANGED vars
  PROVE  IInv'
<1>1. CASE \E u \in Shells : Die(u)
  BY <1>1 DEF Die, IInv, TypeOK, Loaded, Matched, ScannedOwnFramework
<1>2. CASE \E t \in Plans : FinishOrphan(t)
  BY <1>2 DEF FinishOrphan, IInv, TypeOK, Loaded, Matched, ScannedOwnFramework
<1>3. CASE UNCHANGED vars
  BY <1>3 DEF vars, IInv, TypeOK, Loaded, Matched, ScannedOwnFramework
<1> QED BY <1>1, <1>2, <1>3

(* Every reachable state satisfies the inductive invariant. *)
THEOREM Invariance == Spec => []IInv
<1>1. IInv /\ [Next]_vars => IInv'
  BY PlanIInv, GenerateIInv, ScanIInv, OtherIInv DEF Next, Command
<1> QED BY InitIInv, <1>1, PTL DEF Spec

(* The files and the commands keep their types: what a scan writes names a *)
(* plan, a tailoring and an evaluation, whatever died or ran beside it.    *)
THEOREM TypeCorrect == Spec => []TypeOK
BY Invariance, PTL DEF IInv

(* Results are only written after an evaluation for the plan's framework,  *)
(* for any number of shells, with and without orphans (scan.go:40-65).     *)
THEOREM OwnFramework == Spec => []ScannedOwnFramework
BY Invariance, PTL DEF IInv

-----------------------------------------------------------------------------
(* What a scan reads is what its oscap wrote.                              *)
Own ==
  /\ \A u \in Shells :
       /\ pc[u] = "evaluated" => arf = used[u]
       /\ pc[u] \in {"reporting", "writingResults"} => seen[u] = used[u]
  /\ ObservedOwnScan

(* An oscap process that ends, of a command or orphaned, ends while nobody *)
(* has an ARF file still to read.                                          *)
LEMMA OwnStep ==
  ASSUME IInv, Own, ArfUndisturbed, [Next]_vars
  PROVE  Own'
<1>1. ASSUME NEW u \in Shells, Command(u) PROVE Own'
  <2>1. CASE (\E p \in Plans : StartPlan(u, p)) \/ StartGenerate(u) \/ StartScan(u)
    BY <2>1 DEF StartPlan, StartGenerate, StartScan, Start, IInv, TypeOK, Own, ObservedOwnScan
  <2>2. CASE TruncatePlan(u) \/ WritePlan(u) \/ RejectPolicy(u) \/ CreatePolicy(u) \/ WritePolicy(u)
    BY <2>2 DEF TruncatePlan, WritePlan, RejectPolicy, CreatePolicy, WritePolicy,
                IInv, TypeOK, Own, ObservedOwnScan
  <2>3. CASE LoadForGenerate(u) \/ LoadForScan(u)
    BY <2>3 DEF LoadForGenerate, LoadForScan, LoadPlan, IInv, TypeOK, Own, ObservedOwnScan
  <2>4. CASE StartOscap(u) \/ FailOscap(u)
    BY <2>4 DEF StartOscap, FailOscap, IInv, TypeOK, Own, ObservedOwnScan
  <2>5. CASE FinishOscap(u) \/ ReadArf(u)
    BY <2>5 DEF FinishOscap, ReadArf, ArfUndisturbed, IInv, TypeOK, Own, ObservedOwnScan
  <2>6. CASE TruncateResults(u)
    BY <2>6, PlansAssumption DEF TruncateResults, IInv, TypeOK, Own, ObservedOwnScan
  <2>7. CASE WriteResults(u)
    BY <2>7 DEF WriteResults, IInv, TypeOK, Own, ObservedOwnScan, Result
  <2> QED BY <1>1, <2>1, <2>2, <2>3, <2>4, <2>5, <2>6, <2>7 DEF Command
<1>2. ASSUME NEW u \in Shells, Die(u) PROVE Own'
  BY <1>2 DEF Die, IInv, TypeOK, Own, ObservedOwnScan
<1>3. ASSUME NEW t \in Plans, FinishOrphan(t) PROVE Own'
  BY <1>3 DEF FinishOrphan, ArfUndisturbed, Own, ObservedOwnScan
<1>4. CASE UNCHANGED vars
  BY <1>4 DEF vars, Own, ObservedOwnScan
<1> QED BY <1>1, <1>2, <1>3, <1>4 DEF Next

(* Whatever runs, overlaps and dies, and whichever orphans finish when: as *)
(* long as no oscap process is left running between the end of a scan's    *)
(* own and the reading of its ARF file, the observations in the results    *)
(* are those of the scan that wrote them (server.go:77-90).                *)
THEOREM OwnScan == Spec /\ []ArfUndisturbed => []ObservedOwnScan
<1>1. Init => Own
  BY PlansAssumption DEF Init, Own, ObservedOwnScan
<1>2. IInv /\ Own /\ ArfUndisturbed /\ [Next]_vars => Own'
  BY OwnStep
<1>3. Own => ObservedOwnScan
  BY DEF Own
<1> QED BY Invariance, <1>1, <1>2, <1>3, PTL DEF Spec

(* The specification that TLC checks is that case.                         *)
THEOREM OwnScanUndisturbed == UndisturbedSpec => []ObservedOwnScan
<1>1. Init => ArfUndisturbed
  BY DEF Init, ArfUndisturbed
<1>2. ArfUndisturbed /\ UNCHANGED vars => ArfUndisturbed'
  BY DEF ArfUndisturbed, vars
<1>3. ArfUndisturbed /\ [Next /\ ArfUndisturbed']_vars => ArfUndisturbed'
  BY <1>2
<1>4. [Next /\ ArfUndisturbed']_vars => [Next]_vars
  OBVIOUS
<1> QED BY OwnScan, <1>1, <1>3, <1>4, PTL DEF Spec, UndisturbedSpec
=============================================================================

----------------------------- MODULE Workspace -----------------------------
(***************************************************************************)
(* The files of one workspace, and the commands that hand them to each     *)
(* other: "plan" writes the assessment plan, "generate" reads it and has   *)
(* the openscap plugin write the tailoring file, "scan" reads the plan     *)
(* again and has the plugin run oscap on whatever tailoring file is there, *)
(* read the ARF file that oscap leaves and return the observations that    *)
(* the assessment results are made of.                                     *)
(*                                                                         *)
(* Nothing locks the workspace.  Every shell (a user, a pipeline) may run  *)
(* commands in it, one after another, and every command may die: killed,   *)
(* or aborted because another plugin failed.  A file is written by         *)
(* truncating it and then writing it, so that dying in between leaves it   *)
(* empty.  An oscap process is not tied to the plugin that started it, and *)
(* where orphans are possible it may finish its ARF file long after.       *)
(*                                                                         *)
(* A plan is a model value: its rules and values matter only as being      *)
(* those of one plan or another.  A tailoring file is the plan that it was *)
(* generated from, an ARF file the tailoring that was evaluated.  Left     *)
(* out: the remediation files and the Markdown report, which no command    *)
(* reads, and a user who edits or deletes files.                           *)
(***************************************************************************)
CONSTANTS
  Shells,       \* who runs commands in the workspace
  Plans,        \* the plans that may be written
  Framework,    \* per plan, its framework: the profile the plugin tailors
  Absent,       \* the file does not exist
  Empty,        \* the file was truncated and not yet written
  Orphans       \* whether an oscap process may survive its command

(* What assessment-results.json says: the plan it names, the tailoring     *)
(* that the scan started its oscap with, and the one that was evaluated    *)
(* for the observations.                                                   *)
Result == [plan : Plans, used : Plans, evaluated : Plans]

ASSUME PlansAssumption ==
  Absent # Empty /\ {Absent, Empty} \cap (Plans \cup Result) = {}
ASSUME FrameworkAssumption == DOMAIN Framework = Plans
ASSUME OrphansAssumption == Orphans \in BOOLEAN

VARIABLES
  plan,      \* assessment-plan.json
  policy,    \* openscap/policy: the tailoring file
  arf,       \* openscap/results: the ARF file
  results,   \* assessment-results.json
  pc,        \* where each shell's command stands
  work,      \* per shell, the plan that its command writes or has loaded
  used,      \* per shell, the tailoring that its oscap process has read
  seen,      \* per shell, the ARF file that its plugin has read
  orphans    \* the tailorings that orphaned oscap processes are evaluating

vars == <<plan, policy, arf, results, pc, work, used, seen, orphans>>
files == <<plan, policy, arf, results>>

TypeOK ==
  /\ plan \in Plans \cup {Absent, Empty}
  /\ policy \in Plans \cup {Absent, Empty}
  /\ arf \in Plans \cup {Absent}
  /\ results \in Result \cup {Absent, Empty}
  /\ pc \in [Shells -> {"idle", "planning", "writingPlan", "generating", "tailoring",
                        "writingPolicy", "scanning", "checked", "evaluating", "evaluated",
                        "reporting", "writingResults"}]
  /\ work \in [Shells -> Plans \cup {Absent}]
  /\ used \in [Shells -> Plans \cup {Absent}]
  /\ seen \in [Shells -> Plans \cup {Absent}]
  /\ orphans \in SUBSET Plans

Init ==
  /\ plan = Absent
  /\ policy = Absent
  /\ arf = Absent
  /\ results = Absent
  /\ pc = [u \in Shells |-> "idle"]
  /\ work = [u \in Shells |-> Absent]
  /\ used = [u \in Shells |-> Absent]
  /\ seen = [u \in Shells |-> Absent]
  /\ orphans = {}

Goto(u, label) == pc' = [pc EXCEPT ![u] = label]

(* The command is over, and nothing that it knew matters any more. *)
Leave(u) ==
  /\ Goto(u, "idle")
  /\ work' = [work EXCEPT ![u] = Absent]
  /\ used' = [used EXCEPT ![u] = Absent]
  /\ seen' = [seen EXCEPT ![u] = Absent]

Start(u, label) ==
  /\ pc[u] = "idle"
  /\ Goto(u, label)

-----------------------------------------------------------------------------
(* "plan" *)

StartPlan(u, p) ==
  /\ Start(u, "planning")
  /\ work' = [work EXCEPT ![u] = p]
  /\ UNCHANGED <<files, used, seen, orphans>>

TruncatePlan(u) ==
  /\ pc[u] = "planning"
  /\ plan' = Empty
  /\ Goto(u, "writingPlan")
  /\ UNCHANGED <<policy, arf, results, work, used, seen, orphans>>

(* Of two plans written at once the decoder reads the one written last: it *)
(* stops at the end of the first JSON value.                               *)
WritePlan(u) ==
  /\ pc[u] = "writingPlan"
  /\ plan' = work[u]
  /\ Leave(u)
  /\ UNCHANGED <<policy, arf, results, orphans>>

-----------------------------------------------------------------------------
(* "generate" *)

StartGenerate(u) ==
  /\ Start(u, "generating")
  /\ UNCHANGED <<files, work, used, seen, orphans>>

(* Mutant: a plan that cannot be decoded is used nevertheless. *)
LoadPlanUndecoded(u, from, to) ==
  /\ pc[u] = from
  /\ IF plan # Absent
     THEN Goto(u, to) /\ work' = [work EXCEPT ![u] = plan] /\ UNCHANGED <<used, seen>>
     ELSE Leave(u)
  /\ UNCHANGED <<files, orphans>>

(* A plan that is not there or is empty ends the command. *)
LoadPlan(u, from, to) ==
  /\ pc[u] = from
  /\ IF plan \in Plans
     THEN Goto(u, to) /\ work' = [work EXCEPT ![u] = plan] /\ UNCHANGED <<used, seen>>
     ELSE Leave(u)
  /\ UNCHANGED <<files, orphans>>

LoadForGenerate(u) == LoadPlan(u, "generating", "tailoring")

(* PolicyToXML comes before the file is touched, and may refuse the plan.  *)
RejectPolicy(u) ==
  /\ pc[u] = "tailoring"
  /\ Leave(u)
  /\ UNCHANGED <<files, orphans>>

CreatePolicy(u) ==
  /\ pc[u] = "tailoring"
  /\ policy' = Empty
  /\ Goto(u, "writingPolicy")
  /\ UNCHANGED <<plan, arf, results, work, used, seen, orphans>>

(* The remediations follow, and whether they succeed changes nothing here. *)
WritePolicy(u) ==
  /\ pc[u] = "writingPolicy"
  /\ policy' = work[u]
  /\ Leave(u)
  /\ UNCHANGED <<plan, arf, results, orphans>>

-----------------------------------------------------------------------------
(* "scan" *)

StartScan(u) ==
  /\ Start(u, "scanning")
  /\ UNCHANGED <<files, work, used, seen, orphans>>

LoadForScan(u) == LoadPlan(u, "scanning", "checked")

(* Mutant: every tailoring profile has the same id. *)
HasAnyTailoringProfile(t, p) == t \in Plans

(* oscap finds the tailored profile in t that a scan of plan p asks for:   *)
(* its id is made of the framework.  An empty file has none.               *)
HasTailoringProfile(t, p) == t \in Plans /\ Framework[t] = Framework[p]

(* The existence of the tailoring file is checked, and that it is XML,     *)
(* which an empty file is too; the rest is left to oscap, which reads the  *)
(* file when it starts and fails without the profile.                      *)
StartOscap(u) ==
  /\ pc[u] = "checked"
  /\ IF HasTailoringProfile(policy, work[u])
     THEN /\ Goto(u, "evaluating")
          /\ used' = [used EXCEPT ![u] = policy]
          /\ UNCHANGED <<work, seen>>
     ELSE Leave(u)
  /\ UNCHANGED <<files, orphans>>

FinishOscap(u) ==
  /\ pc[u] = "evaluating"
  /\ arf' = used[u]
  /\ Goto(u, "evaluated")
  /\ UNCHANGED <<plan, policy, results, work, used, seen, orphans>>

(* Mutant: an oscap that fails is treated as one that found failing rules, *)
(* and whatever ARF file is there is read.                                 *)
FailOscapTolerated(u) ==
  /\ pc[u] = "evaluating"
  /\ IF arf \in Plans THEN Goto(u, "evaluated") /\ UNCHANGED <<work, used, seen>> ELSE Leave(u)
  /\ UNCHANGED <<files, orphans>>

(* Exit status 1: no ARF file is written, and none is read. *)
FailOscap(u) ==
  /\ pc[u] = "evaluating"
  /\ Leave(u)
  /\ UNCHANGED <<files, orphans>>

ReadArf(u) ==
  /\ pc[u] = "evaluated"
  /\ seen' = [seen EXCEPT ![u] = arf]
  /\ Goto(u, "reporting")
  /\ UNCHANGED <<files, work, used, orphans>>

TruncateResults(u) ==
  /\ pc[u] = "reporting"
  /\ results' = Empty
  /\ Goto(u, "writingResults")
  /\ UNCHANGED <<plan, policy, arf, work, used, seen, orphans>>

WriteResults(u) ==
  /\ pc[u] = "writingResults"
  /\ results' = [plan |-> work[u], used |-> used[u], evaluated |-> seen[u]]
  /\ Leave(u)
  /\ UNCHANGED <<plan, policy, arf, orphans>>

-----------------------------------------------------------------------------
(* A command dies, or a scan is aborted: its plugin is killed, and an      *)
(* oscap process that the plugin was waiting for may live on.              *)
Die(u) ==
  /\ pc[u] # "idle"
  /\ Leave(u)
  /\ orphans' = IF Orphans /\ pc[u] = "evaluating" THEN orphans \cup {used[u]} ELSE orphans
  /\ UNCHANGED <<files>>

FinishOrphan(t) ==
  /\ t \in orphans
  /\ orphans' = orphans \ {t}
  /\ arf' = t
  /\ UNCHANGED <<plan, policy, results, pc, work, used, seen>>

Command(u) ==
  \/ \E p \in Plans : StartPlan(u, p)
  \/ TruncatePlan(u) \/ WritePlan(u)
  \/ StartGenerate(u) \/ LoadForGenerate(u) \/ RejectPolicy(u)
  \/ CreatePolicy(u) \/ WritePolicy(u)
  \/ StartScan(u) \/ LoadForScan(u) \/ StartOscap(u)
  \/ FinishOscap(u) \/ FailOscap(u) \/ ReadArf(u)
  \/ TruncateResults(u) \/ WriteResults(u)

Next ==
  \/ \E u \in Shells : Command(u) \/ Die(u)
  \/ \E t \in Plans : FinishOrphan(t)

Spec == Init /\ [][Next]_vars

(* While a plugin has yet to read the ARF file that its oscap has written, *)
(* no other oscap process runs in the workspace.  Nothing in the code sees *)
(* to that.                                                                *)
ArfUndisturbed ==
  \A u \in Shells : pc[u] = "evaluated" =>
    orphans = {} /\ \A v \in Shells : pc[v] # "evaluating"

UndisturbedSpec == Init /\ [][Next /\ ArfUndisturbed']_vars

-----------------------------------------------------------------------------
(* Whatever died or ran at the same time, results are only ever written    *)
(* after the scan's own oscap process has evaluated a complete tailoring   *)
(* file made for the framework of the plan that the results name.          *)
ScannedOwnFramework ==
  results \in Result => Framework[results.used] = Framework[results.plan]

(* docs/man/complyctl-openscap-plugin.md:15: the scan calls oscap "to scan *)
(* the system using the tailoring policy [...] and produce oscap results   *)
(* which are ultimately interpreted by the plugin": the observations are   *)
(* those of the scan's own oscap process, not left by an earlier one.      *)
(* Holds where the ARF file is undisturbed (UndisturbedSpec), and only     *)
(* there.                                                                  *)
ObservedOwnScan == results \in Result => results.evaluated = results.used
=============================================================================

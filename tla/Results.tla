------------------------------ MODULE Results ------------------------------
(***************************************************************************)
(* From the rule results of a scan to the assessment results: the openscap *)
(* plugin turns the rule results of the ARF file into observations, the    *)
(* report collects those of all plugins, associates one with each step of  *)
(* each activity of the plan, and files a finding against every control    *)
(* that a failed rule is related to.                                       *)
(*                                                                         *)
(* The plan is one that AssessmentScope may leave: an activity without     *)
(* controls is skipped, and activities of one rule are alike.  A step is   *)
(* named by its check.  All plugins but openscap's are taken together:     *)
(* what they report is given, and comes before or after what openscap      *)
(* does.  An observation is known by the plugin and its position there,    *)
(* its subjects by their set of results.                                   *)
(*                                                                         *)
(* The titles of observations and the ids of checks are both names,        *)
(* because a check that no observation is for is looked up by title.       *)
(*                                                                         *)
(* Left out: inventory items and resources, evidence, methods and dates,   *)
(* the conversion from and to gRPC, and how often a finding lists an       *)
(* observation.                                                            *)
(***************************************************************************)
EXTENDS Integers, Sequences, FiniteSets

CONSTANTS
  NumActivities,  \* number of activities of the plan
  Rules, Controls,
  Names,          \* titles of observations, ids of checks
  Checks,         \* the checks that the plan's components define
  RuleOf,         \* per check, its rule (the last that the rule store indexed)
  OpenscapChecks, \* the checks of openscap's own component
  Malformed,      \* the reference to a check cannot be parsed
  NoCheck,        \* the rule has no OVAL check, or is not in the benchmark
  Plans,          \* the plans considered
  Reports,        \* the rule results that an ARF file may list
  OtherResults    \* what the other plugins may report

Activities == 1 .. NumActivities

Plan ==
  [title   : [Activities -> Rules],
   steps   : [Activities -> SUBSET Checks],
   related : [Activities -> SUBSET Controls],
   waived  : [Activities -> BOOLEAN]]

RuleResult ==
  [idref : Names, check : Names \cup {NoCheck, Malformed},
   status : {"pass", "fixed", "fail", "notselected", "notapplicable", "error", "unknown",
             "notchecked", "informational"}]

(* A subject's result, or a type of subject that the report does not know. *)
SubjectResults == {"pass", "fail", "error", "warning", "badSubject"}

Observation == [title : Names, check : Names, results : SUBSET SubjectResults]

ASSUME NumActivitiesAssumption == NumActivities \in Nat
ASSUME ChecksAssumption ==
  /\ OpenscapChecks \subseteq Checks /\ Checks \subseteq Names
  /\ {NoCheck, Malformed} \cap Names = {}
  /\ RuleOf \in [Checks -> Rules]
ASSUME PlansAssumption ==
  \A p \in Plans :
    /\ p \in Plan
    /\ \A a \in Activities : p.waived[a] => p.related[a] # {}
    /\ \A a, b \in Activities : p.title[a] = p.title[b] =>
         p.related[a] = p.related[b] /\ p.waived[a] = p.waived[b]
ASSUME ReportsAssumption == \A r \in Reports : r \in Seq(RuleResult)
ASSUME OtherResultsAssumption == \A r \in OtherResults : r \in Seq(Observation)

VARIABLES
  plan,        \* the plan of the scan                      }
  arf,         \* the rule results of the ARF file          }  given
  others,      \* the observations of the other plugins     }
  latest,      \* whose observations come last
  stage,       \* how far the scan has come
  next,        \* the activity to associate next
  associated,  \* which observation is associated with which step of which activity
  marked,      \* the observations whose subjects are marked as waived
  findings     \* per control, the observations that its finding relates to

input == <<plan, arf, others>>
vars == <<plan, arf, others, latest, stage, next, associated, marked, findings>>

Ids == {<<"openscap", i>> : i \in DOMAIN arf} \cup {<<"other", i>> : i \in DOMAIN others}

(* An observation that the report makes up for a step without one. *)
Nothing == <<"none", 0>>

NoFindings == [c \in Controls |-> {}]

TypeOK ==
  /\ plan \in Plan
  /\ latest \in {"openscap", "other"}
  /\ stage \in {"scanning", "received", "associating", "reported", "failed", "panicked"}
  /\ next \in 1 .. NumActivities + 1
  /\ associated \in SUBSET (Activities \X Checks \X (Ids \cup {Nothing}))
  /\ marked \in SUBSET Ids
  /\ findings \in [Controls -> SUBSET Ids]

-----------------------------------------------------------------------------
(* GetResults of the openscap plugin. *)

(* A skipped activity contributes no check. *)
policyChecks ==
  OpenscapChecks \cap UNION {plan.steps[a] : a \in {b \in Activities : plan.related[b] # {}}}

MappedStatuses ==
  {"pass", "fixed", "fail", "notselected", "notapplicable", "error", "unknown"}

(* Mutant: only "pass" is a pass. *)
mapFixedAsError(status) ==
  IF status = "pass" THEN "pass" ELSE IF status = "fail" THEN "fail" ELSE "error"

mapResultStatus(status) ==
  IF status \in {"pass", "fixed"} THEN "pass" ELSE IF status = "fail" THEN "fail" ELSE "error"

(* Mutant: the result is mapped before the check is looked up. *)
UnmappableAnywhere ==
  \E i \in DOMAIN arf :
    arf[i].check = Malformed \/ (arf[i].check # NoCheck /\ arf[i].status \notin MappedStatuses)

(* One rule result that cannot be read fails the scan. *)
Unmappable ==
  \E i \in DOMAIN arf :
    \/ arf[i].check = Malformed
    \/ arf[i].check \in policyChecks /\ arf[i].status \notin MappedStatuses

ObservationOf(x) ==
  IF x[1] = "other" THEN others[x[2]]
  ELSE [title |-> arf[x[2]].idref, check |-> arf[x[2]].check,
        results |-> {mapResultStatus(arf[x[2]].status)}]

-----------------------------------------------------------------------------
(* Report: what is received, and what is kept of it. *)

(* An observation for a check that no component defines is passed over. *)
Received ==
  {x \in Ids : /\ ObservationOf(x).check \in Checks
               /\ x[1] = "openscap" => ObservationOf(x).check \in policyChecks}

After(x, y) == IF x[1] = y[1] THEN x[2] > y[2] ELSE x[1] = latest

(* load: an observation replaces an earlier one with the same title. *)
Kept ==
  {x \in Received : \A y \in Received :
     ObservationOf(y).title = ObservationOf(x).title /\ y # x => After(x, y)}

(* Mutant: observations are looked up by title only. *)
createOrGetByTitle(k) ==
  LET titled == {x \in Kept : ObservationOf(x).title = k}
  IN  IF titled # {} THEN titled ELSE {Nothing}

(* createOrGet returns any one of the observations for check k: they are   *)
(* searched in the order of a map.  Failing that, the one titled k, and    *)
(* failing that an empty one.                                              *)
createOrGet(k) ==
  LET checked == {x \in Kept : ObservationOf(x).check = k}
      titled  == {x \in Kept : ObservationOf(x).title = k}
  IN  IF checked # {} THEN checked ELSE IF titled # {} THEN titled ELSE {Nothing}

(* The empty observation and one without subjects have none to mark. *)
HasSubjects(x) == x # Nothing /\ ObservationOf(x).results # {}

Latest(S) == CHOOSE i \in S : \A j \in S : j <= i

(* Of several activities of a rule the last names the controls. *)
rulesByControls(r) ==
  LET titled == {a \in Activities : plan.title[a] = r}
  IN  IF titled = {} THEN {} ELSE plan.related[Latest(titled)]

Failed(x) == x # Nothing /\ ObservationOf(x).results \ {"pass"} # {}

findingsFor(c) ==
  {x \in {t[3] : t \in associated} :
     Failed(x) /\ c \in rulesByControls(RuleOf[ObservationOf(x).check])}

-----------------------------------------------------------------------------
Init ==
  /\ plan \in Plans
  /\ arf \in Reports
  /\ others \in OtherResults
  /\ latest \in {"openscap", "other"}
  /\ stage = "scanning"
  /\ next = 1
  /\ associated = {}
  /\ marked = {}
  /\ findings = NoFindings

GetResults ==
  /\ stage = "scanning"
  /\ stage' = IF Unmappable THEN "failed" ELSE "received"
  /\ UNCHANGED <<input, latest, next, associated, marked, findings>>

(* One subject of an unknown type fails the report. *)
toOscalObservations ==
  /\ stage = "received"
  /\ stage' = IF \E x \in Received : "badSubject" \in ObservationOf(x).results
              THEN "failed" ELSE "associating"
  /\ UNCHANGED <<input, latest, next, associated, marked, findings>>

Associations ==
  {pick \in [plan.steps[next] -> Kept \cup {Nothing}] :
     \A k \in plan.steps[next] : pick[k] \in createOrGet(k)}

Associate(pick) ==
  /\ associated' = associated \cup {<<next, k, pick[k]>> : k \in plan.steps[next]}
  /\ next' = next + 1

(* Mutant: the flag of an earlier activity is not reset. *)
AssociateActivityWaivedBefore ==
  /\ stage = "associating" /\ next \in Activities
  /\ \E pick \in Associations :
       LET waived == \E a \in 1 .. next : plan.waived[a]
       IN  /\ plan.waived[next] => \A k \in plan.steps[next] : HasSubjects(pick[k])
           /\ Associate(pick)
           /\ marked' = marked \cup
                {x \in {pick[k] : k \in plan.steps[next]} : waived /\ HasSubjects(x)}
  /\ UNCHANGED <<input, latest, stage, findings>>

(* The subjects belong to the observation, wherever else it is associated. *)
AssociateActivity ==
  /\ stage = "associating" /\ next \in Activities
  /\ \E pick \in Associations :
       /\ plan.waived[next] => \A k \in plan.steps[next] : HasSubjects(pick[k])
       /\ Associate(pick)
       /\ marked' = IF plan.waived[next] THEN marked \cup {pick[k] : k \in plan.steps[next]}
                    ELSE marked
  /\ UNCHANGED <<input, latest, stage, findings>>

(* The subjects of a waived activity's observation are dereferenced. *)
PanicOnWaived ==
  /\ stage = "associating" /\ next \in Activities
  /\ plan.waived[next]
  /\ \E pick \in Associations, k \in plan.steps[next] : ~ HasSubjects(pick[k])
  /\ stage' = "panicked"
  /\ UNCHANGED <<input, latest, next, associated, marked, findings>>

(* So are the observations, of which there are none without any step. *)
PanicWithoutSteps ==
  /\ stage = "associating" /\ next \notin Activities
  /\ associated = {}
  /\ stage' = "panicked"
  /\ UNCHANGED <<input, latest, next, associated, marked, findings>>

generateFindings ==
  /\ stage = "associating" /\ next \notin Activities
  /\ associated # {}
  /\ stage' = "reported"
  /\ findings' = [c \in Controls |-> findingsFor(c)]
  /\ UNCHANGED <<input, latest, next, associated, marked>>

Done == stage \in {"reported", "failed", "panicked"} /\ UNCHANGED vars

Next ==
  \/ GetResults
  \/ toOscalObservations
  \/ AssociateActivity
  \/ PanicOnWaived
  \/ PanicWithoutSteps
  \/ generateFindings
  \/ Done

Spec == Init /\ [][Next]_vars

-----------------------------------------------------------------------------
(* What was reported for check k, read off the input. *)

RuleResultsFor(k) == {i \in DOMAIN arf : arf[i].check = k}
OthersFor(k) == {i \in DOMAIN others : others[i].check = k}

Violates(i) == arf[i].status \notin {"pass", "fixed"}

(* A finding against a control is owed to evidence: openscap or another    *)
(* plugin reports, for a check of a rule that the plan relates to the      *)
(* control, something other than a pass; a skipped activity owes none      *)
(* (report.go:127-161, 247-275; server.go:212-229).                        *)
FindingsJustified ==
  \A c \in Controls : findings[c] # {} =>
    \E a \in Activities, k \in Checks :
      /\ c \in plan.related[a]
      /\ RuleOf[k] = plan.title[a]
      /\ \/ \E i \in RuleResultsFor(k) : Violates(i)
         \/ \E i \in OthersFor(k) : others[i].results \ {"pass"} # {}

(* Rule result i is all that anybody reports for its check and under its   *)
(* title.                                                                  *)
Sole(i) ==
  /\ RuleResultsFor(arf[i].check) = {i} /\ OthersFor(arf[i].check) = {}
  /\ \A j \in DOMAIN arf : arf[j].idref = arf[i].idref => j = i
  /\ \A j \in DOMAIN others : others[j].title # arf[i].idref

TitlesFor(k) ==
  {arf[i].idref : i \in RuleResultsFor(k)} \cup {others[i].title : i \in OthersFor(k)}

(* One or more observations are reported for check k, none of them says    *)
(* that it passes, and no observation for another check has their titles.  *)
OnlyFailuresFor(k) ==
  /\ (k \in OpenscapChecks /\ RuleResultsFor(k) # {}) \/ OthersFor(k) # {}
  /\ \A i \in RuleResultsFor(k) : Violates(i)
  /\ \A i \in OthersFor(k) : others[i].results \ {"pass"} # {}
  /\ \A i \in DOMAIN arf : arf[i].idref \in TitlesFor(k) => arf[i].check = k
  /\ \A i \in DOMAIN others : others[i].title \in TitlesFor(k) => others[i].check = k

(* A rule whose check nobody finds satisfied leads to a finding against    *)
(* each control that it is assessed for, waived or not: whoever reports    *)
(* it, several times or under several titles, whichever of these is taken  *)
(* for the step, and whichever plugin answers first (report.go:127-161;    *)
(* results.go:145-170; observations.go:46-80).                             *)
FailuresReported ==
  stage = "reported" =>
    \A a \in Activities : \A k \in plan.steps[a] :
      RuleOf[k] = plan.title[a] /\ OnlyFailuresFor(k) =>
        \A c \in plan.related[a] : findings[c] # {}

(* An observation is shown as waived only where a waived activity has a    *)
(* step for its check or of its title; and the sole result of a check of a *)
(* waived activity is (results.go:145-160).                                *)
WaivedAsPlanned ==
  /\ \A x \in marked : \E a \in Activities :
       /\ plan.waived[a]
       /\ {ObservationOf(x).check, ObservationOf(x).title} \cap plan.steps[a] # {}
  /\ stage = "reported" =>
       \A a \in Activities, i \in DOMAIN arf :
         plan.waived[a] /\ arf[i].check \in plan.steps[a] \cap OpenscapChecks /\ Sole(i)
         => <<"openscap", i>> \in marked

(* A scan is refused only for a rule result that names no check or, of a   *)
(* check in the policy, has a status that the plugin does not know, or for *)
(* a subject of a defined check: rules out of scope never fail it          *)
(* (server.go:115-137, 212-229; report.go:73-85).                          *)
RefusedOnlyInScope ==
  stage = "failed" =>
    \/ \E i \in DOMAIN arf : arf[i].check = Malformed
    \/ \E i \in DOMAIN arf, a \in Activities :
         /\ plan.related[a] # {} /\ arf[i].check \in plan.steps[a]
         /\ arf[i].status \in {"notchecked", "informational"}
    \/ \E i \in DOMAIN others :
         others[i].check \in Checks /\ "badSubject" \in others[i].results

(* The report crashes only over a waived activity with a check for which   *)
(* openscap reported nothing, or a plan without any step                   *)
(* (results.go:151-160; report.go:129).                                    *)
CrashesOnlyWithoutResults ==
  stage = "panicked" =>
    \/ \A a \in Activities : plan.steps[a] = {}
    \/ \E a \in Activities : plan.waived[a] /\ \E k \in plan.steps[a] :
         k \notin OpenscapChecks \/ \A i \in RuleResultsFor(k) : ~ Sole(i)
=============================================================================

----------------------------- MODULE Tailoring -----------------------------
(***************************************************************************)
(* What the openscap plugin makes of a policy (the rules of the assessment *)
(* plan and the values of their parameters): a tailoring of the profile    *)
(* that the datastream defines for the framework, and then what oscap does *)
(* with it in the remediation of "generate" and in the evaluation of a     *)
(* later "scan".                                                           *)
(*                                                                         *)
(* The tailoring holds only the differences: rules of the profile that the *)
(* policy lacks are unselected, rules that it adds are selected, values    *)
(* that differ are set.  So whether the scan evaluates the policy depends  *)
(* on the profile as much as on the tailoring.                             *)
(*                                                                         *)
(* Rules and variables are named without their prefixes.  The parameters   *)
(* of a policy keep the order in which its rules list them, because of two *)
(* that share a variable the first that differs counts.  A profile lists a *)
(* rule or a variable at most once, and only rules are selected: groups,   *)
(* which oscap can unselect as well, are left out.                         *)
(***************************************************************************)
EXTENDS Naturals, Sequences

CONSTANTS
  Rules,      \* rule ids of the policy or the datastream
  Variables,  \* variable ids of the policy or the datastream
  Values,     \* values of a variable
  Unlisted,   \* the profile does not list the variable, the policy does not set it
  Unresolved, \* the profile refines the variable by a selector without an option
  Policies,   \* the policies considered
  Datastreams \* the datastreams considered

Policy ==
  [rules      : SUBSET Rules,
   parameters : Seq([id : Variables, value : Values])]

(* The rules it defines and those that are evaluated unless a profile says *)
(* otherwise, the variables it defines with their default values, whether  *)
(* the framework has a profile, and what that profile lists.               *)
Datastream ==
  [rules      : SUBSET Rules,
   default    : SUBSET Rules,
   variables  : SUBSET Variables,
   initial    : [Variables -> Values],
   hasProfile : BOOLEAN,
   selected   : SUBSET Rules,
   unselected : SUBSET Rules,
   refined    : [Variables -> Values \cup {Unlisted, Unresolved}]]

ASSUME MarkersAssumption ==
  {Unlisted, Unresolved} \cap Values = {} /\ Unlisted # Unresolved
ASSUME PoliciesAssumption == \A p \in Policies : p \in Policy
ASSUME DatastreamsAssumption ==
  \A d \in Datastreams :
    /\ d \in Datastream
    /\ d.default \subseteq d.rules
    /\ d.selected \cup d.unselected \subseteq d.rules
    /\ d.selected \cap d.unselected = {}

VARIABLES
  policy,      \* the policy that the plugin was given (never changes)
  ds,          \* the datastream (never changes)
  stage,       \* how far the plugin has come
  unselects,   \* rules that the tailoring unselects
  selects,     \* rules that the tailoring selects
  setValues,   \* per variable, the value that the tailoring sets
  remediated,  \* the rules that the remediation files cover
  evaluated,   \* the rules that the scan evaluates
  evaluatedWith  \* per variable, the value that they are evaluated with

vars == <<policy, ds, stage, unselects, selects, setValues, remediated, evaluated, evaluatedWith>>

ValueOrUnlisted == Values \cup {Unlisted}

TypeOK ==
  /\ policy \in Policy
  /\ ds \in Datastream
  /\ stage \in {"received", "profiled", "selected", "refused", "written", "generated", "scanned"}
  /\ unselects \in SUBSET Rules
  /\ selects \in SUBSET Rules
  /\ setValues \in [Variables -> ValueOrUnlisted]
  /\ remediated \in SUBSET Rules
  /\ evaluated \in SUBSET Rules
  /\ evaluatedWith \in [Variables -> ValueOrUnlisted]

Init ==
  /\ policy \in Policies
  /\ ds \in Datastreams
  /\ stage = "received"
  /\ unselects = {}
  /\ selects = {}
  /\ setValues = [v \in Variables |-> Unlisted]
  /\ remediated = {}
  /\ evaluated = {}
  /\ evaluatedWith = [v \in Variables |-> Unlisted]

-----------------------------------------------------------------------------
(* The differences. *)

validateRuleExistence(r) == r \in ds.rules
validateVariableExistence(v) == v \in ds.variables

unselectAbsentRules == ds.selected \ policy.rules

(* Mutant: a rule that the profile lists unselected counts as listed. *)
selectUnlistedRules == policy.rules \ (ds.selected \cup ds.unselected)

(* A rule that the profile lists unselected is selected. *)
selectAdditionalRules == policy.rules \ ds.selected

SettersOf(v) ==
  {i \in DOMAIN policy.parameters : policy.parameters[i].id = v}

(* Those that say something else than the profile. *)
DifferingSetters(v) == {i \in SettersOf(v) : policy.parameters[i].value # ds.refined[v]}

(* Mutant: a variable that the profile lists is not set. *)
updateUnlistedValues(v) ==
  IF ds.refined[v] # Unlisted \/ SettersOf(v) = {} THEN Unlisted
  ELSE policy.parameters[CHOOSE i \in SettersOf(v) : \A j \in SettersOf(v) : i <= j].value

updateTailoringValues(v) ==
  IF DifferingSetters(v) = {} THEN Unlisted
  ELSE policy.parameters[CHOOSE i \in DifferingSetters(v) :
                           \A j \in DifferingSetters(v) : i <= j].value

-----------------------------------------------------------------------------
(* "generate": PolicyToXML.  Each check that fails ends it before a file   *)
(* is written.                                                             *)

GetDsProfile ==
  /\ stage = "received"
  /\ stage' = IF ds.hasProfile THEN "profiled" ELSE "refused"
  /\ UNCHANGED <<policy, ds, unselects, selects, setValues, remediated, evaluated, evaluatedWith>>

(* Mutant: rules that the datastream does not define are passed over. *)
getTailoringSelectionsUnvalidated ==
  /\ stage = "profiled"
  /\ stage' = "selected"
  /\ unselects' = unselectAbsentRules
  /\ selects' = selectAdditionalRules
  /\ UNCHANGED <<policy, ds, setValues, remediated, evaluated, evaluatedWith>>

getTailoringSelections ==
  /\ stage = "profiled"
  /\ IF \A r \in policy.rules : validateRuleExistence(r)
     THEN /\ stage' = "selected"
          /\ unselects' = unselectAbsentRules
          /\ selects' = selectAdditionalRules
     ELSE stage' = "refused" /\ UNCHANGED <<unselects, selects>>
  /\ UNCHANGED <<policy, ds, setValues, remediated, evaluated, evaluatedWith>>

(* Every selector of the profile has to resolve, not only those in use. *)
ResolveDsVariableOptions == \A v \in Variables : ds.refined[v] # Unresolved

getTailoringValues ==
  /\ stage = "selected"
  /\ IF /\ \A i \in DOMAIN policy.parameters : validateVariableExistence(policy.parameters[i].id)
        /\ ResolveDsVariableOptions
     THEN /\ stage' = "written"
          /\ setValues' = [v \in Variables |-> updateTailoringValues(v)]
     ELSE stage' = "refused" /\ UNCHANGED setValues
  /\ UNCHANGED <<policy, ds, unselects, selects, remediated, evaluated, evaluatedWith>>

-----------------------------------------------------------------------------
(* oscap: which profile it finds under a name, the part of the id after    *)
(* the namespace; and what that profile comes to.                          *)

FixProfile == "framework"
ScanProfile == "framework_complytime"

SelectedBy(name) ==
  LET base == (ds.default \ ds.unselected) \cup ds.selected
  IN  IF name = "framework" THEN base ELSE (base \ unselects) \cup selects

ValueBy(name, v) ==
  IF name # "framework" /\ setValues[v] # Unlisted THEN setValues[v]
  ELSE IF ds.refined[v] \in Values THEN ds.refined[v]
  ELSE ds.initial[v]

OscapGenerateFix ==
  /\ stage = "written"
  /\ stage' = "generated"
  /\ remediated' = SelectedBy(FixProfile)
  /\ UNCHANGED <<policy, ds, unselects, selects, setValues, evaluated, evaluatedWith>>

OscapScan ==
  /\ stage = "generated"
  /\ stage' = "scanned"
  /\ evaluated' = SelectedBy(ScanProfile)
  /\ evaluatedWith' = [v \in Variables |-> ValueBy(ScanProfile, v)]
  /\ UNCHANGED <<policy, ds, unselects, selects, setValues, remediated>>

Done == stage \in {"refused", "scanned"} /\ UNCHANGED vars

Next ==
  \/ GetDsProfile
  \/ getTailoringSelections
  \/ getTailoringValues
  \/ OscapGenerateFix
  \/ OscapScan
  \/ Done

Spec == Init /\ [][Next]_vars

-----------------------------------------------------------------------------
(* The scan evaluates every rule of the policy, and of the other rules     *)
(* only those that the datastream evaluates by default and the profile     *)
(* does not list: whichever of the rules the profile lists, and however.   *)
EvaluatedAsPlanned ==
  stage = "scanned" =>
    evaluated = policy.rules \cup (ds.default \ (ds.selected \cup ds.unselected))

(* A variable is evaluated with a value that the policy gives it, the only *)
(* one unless its rules disagree, and otherwise with the profile's.        *)
ValuesAsPlanned ==
  stage = "scanned" =>
    \A v \in Variables :
      IF SettersOf(v) = {}
      THEN evaluatedWith[v] = ValueBy("framework", v)
      ELSE \E i \in SettersOf(v) : evaluatedWith[v] = policy.parameters[i].value

(* The tailoring never says anything about a rule or a variable that the   *)
(* datastream does not define, nor selects what it unselects, nor repeats  *)
(* what the profile says anyway.                                           *)
TailoringIsValid ==
  stage \in {"written", "generated", "scanned"} =>
    /\ unselects \cup selects \subseteq ds.rules
    /\ unselects \cap selects = {}
    /\ selects \cap ds.selected = {}
    /\ \A v \in Variables : setValues[v] # Unlisted =>
         v \in ds.variables /\ setValues[v] # ds.refined[v]

(* docs/man/complyctl-openscap-plugin.md:17: "The generated remediation    *)
(* files from complyctl are based on the whole policy".                    *)
RemediationCoversPolicy ==
  stage = "generated" => policy.rules \subseteq remediated
=============================================================================

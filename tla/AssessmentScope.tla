-------------------------- MODULE AssessmentScope --------------------------
(***************************************************************************)
(* One run of "complyctl plan --scope-config" and the first thing a later  *)
(* "generate" or "scan" does with its plan.                                *)
(*                                                                         *)
(* The transformer turns the component definitions into an assessment plan *)
(* whose activities (one per rule of a component) name the controls they   *)
(* are evidence for.  The user's scope then narrows the plan in three      *)
(* passes over the activities: by control, by rule, and by parameter.  If  *)
(* the parameter pass refuses a selection the plan is never written, and   *)
(* the plan file of an earlier command, if there is one, stays.            *)
(* The plan file is reduced to Settings (the rules to evaluate and one     *)
(* value per parameter), which is all that the plugins get to see.         *)
(*                                                                         *)
(* Control ids are numbers: the code only compares them, to sort.  A rule  *)
(* list is the set of its names.  The list of control entries stays a      *)
(* sequence, because a control listed twice is resolved by position.  The  *)
(* activities are 1..NumActivities, their position in the plan.  A         *)
(* selection without controls (nil in the code) is the empty set.          *)
(*                                                                         *)
(* Left out, because the transformer cannot produce it: activities without *)
(* a title, activities with several control selections, and steps with     *)
(* reviewed controls of their own.  Left out as well: entries that select  *)
(* a parameter without a name.                                             *)
(***************************************************************************)
EXTENDS Integers, Sequences, FiniteSets

CONSTANTS
  NumActivities,  \* number of activities of the generated plan
  Rules,          \* rule ids
  Controls,       \* control ids, as numbers in the order of their strings
  Params,         \* parameter ids, and the "N/A" name of an unedited template
  Values,         \* the values a parameter may be given
  Star,           \* the rule wildcard "*"
  Empty,          \* the parameter value ""
  NotApplicable,  \* the parameter value "N/A"
  Unset,          \* the parameter is not listed (in an entry or an activity)
  Alternatives,   \* per parameter, the alternatives of its remarks groups
  NoScope,        \* "plan" was called without --scope-config
  Scopes,         \* the scope files considered
  Plans,          \* the plans the transformer may have produced
  NoPlan,         \* there is no plan file
  EarlierPlans    \* what an earlier command may have left in its place

Activities == 1 .. NumActivities
RuleNames == Rules \cup {Star}
ValueOrUnset == Values \cup {Empty, NotApplicable, Unset}

ControlEntry ==
  [controlId        : Controls,
   includeRules     : SUBSET RuleNames,
   excludeRules     : SUBSET RuleNames,
   waiveRules       : SUBSET RuleNames,
   selectParameters : [Params -> ValueOrUnset]]

Scope ==
  [includeControls    : Seq(ControlEntry),
   globalExcludeRules : SUBSET RuleNames,
   globalWaiveRules   : SUBSET RuleNames]

GeneratedPlan ==
  [title    : [Activities -> Rules],
   related  : [Activities -> SUBSET Controls],
   value    : [Activities -> [Params -> ValueOrUnset]],
   reviewed : SUBSET Controls]

(* What a plan file says. *)
PlanContents ==
  [title    : [Activities -> Rules],
   related  : [Activities -> SUBSET Controls],
   skipped  : [Activities -> BOOLEAN],
   waived   : [Activities -> BOOLEAN],
   value    : [Activities -> [Params -> ValueOrUnset]],
   reviewed : SUBSET Controls]

ASSUME NumActivitiesAssumption == NumActivities \in Nat
ASSUME ControlsAssumption      == Controls \subseteq Nat
ASSUME StarAssumption          == Star \notin Rules
ASSUME ValuesAssumption ==
  /\ Empty # NotApplicable
  /\ Unset \notin Values \cup {Empty, NotApplicable}
  /\ Empty \notin Values
ASSUME AlternativesAssumption  == Alternatives \in [Params -> SUBSET Values]
ASSUME ScopesAssumption        == NoScope \notin Scopes /\ \A s \in Scopes : s \in Scope
ASSUME PlansAssumption ==
  \A p \in Plans : /\ p \in GeneratedPlan
                   /\ \A a \in Activities : p.related[a] \subseteq p.reviewed
ASSUME EarlierPlansAssumption == \A f \in EarlierPlans : f \in PlanContents \cup {NoPlan}

VARIABLES
  scope,      \* the parsed --scope-config file, or NoScope
  generated,  \* the plan as the transformer produced it (never changes)
  earlier,    \* the plan file that an earlier command left (never changes)
  stage,      \* how far the command has come
  related,    \* per activity, its RelatedControls ({}: nil)
  skipped,    \* per activity, whether it carries the property "skipped"
  waived,     \* per activity, whether it carries the property "waived"
  value,      \* per activity, the values of its parameter properties
  reviewed,   \* the plan's own ReviewedControls
  planFile,   \* assessment-plan.json
  settings    \* the Settings a later command reads from it

given == <<scope, generated, earlier>>
plan == <<related, skipped, waived, value, reviewed>>
vars == <<given, stage, plan, planFile, settings>>

Stages == {"generated", "controlScoped", "ruleScoped", "scoped", "rejected", "written",
           "loaded", "earlierLoaded"}
NoSettings == [mappedRules |-> {}, selectedParameters |-> [p \in Params |-> Unset]]

TypeOK ==
  /\ scope \in Scope \cup {NoScope}
  /\ generated \in GeneratedPlan
  /\ {earlier, planFile} \subseteq PlanContents \cup {NoPlan}
  /\ stage \in Stages
  /\ related \in [Activities -> SUBSET Controls]
  /\ skipped \in [Activities -> BOOLEAN]
  /\ waived \in [Activities -> BOOLEAN]
  /\ value \in [Activities -> [Params -> ValueOrUnset]]
  /\ reviewed \in SUBSET Controls
  /\ settings \in [mappedRules : SUBSET Rules, selectedParameters : [Params -> ValueOrUnset]]

-----------------------------------------------------------------------------
(* What the code looks up in the scope file. *)

EntriesOf(c) ==
  {i \in DOMAIN scope.includeControls : scope.includeControls[i].controlId = c}

IncludedControls == {c \in Controls : EntriesOf(c) # {}}

Latest(S) == CHOOSE i \in S : \A j \in S : j <= i

(* Mutant: an entry without includeRules is not read as "include all". *)
controlRuleConfigNoDefault(c) == scope.includeControls[Latest(EntriesOf(c))]

(* A later entry for the same control overwrites an earlier one, and the   *)
(* entry is normalised as it is stored.                                    *)
controlRuleConfig(c) ==
  LET e == scope.includeControls[Latest(EntriesOf(c))]
  IN  IF Star \in scope.globalExcludeRules
      THEN [e EXCEPT !.includeRules = {}, !.excludeRules = {}, !.waiveRules = {}]
      ELSE IF Star \in e.excludeRules
      THEN [e EXCEPT !.includeRules = {}, !.waiveRules = {}]
      ELSE IF e.includeRules = {}
      THEN [e EXCEPT !.includeRules = {Star}]
      ELSE e

globalWaiveRules ==
  IF Star \in scope.globalExcludeRules THEN {} ELSE scope.globalWaiveRules

(* Whether rule r stays evidence for control c. *)
shouldKeepControl(r, c) ==
  \/ c \notin IncludedControls
  \/ /\ {r, Star} \cap scope.globalExcludeRules = {}
     /\ r \notin controlRuleConfig(c).excludeRules
     /\ {r, Star} \cap controlRuleConfig(c).includeRules # {}

filterControlSelectionByRule(S, r) == {c \in S : shouldKeepControl(r, c)}

(* Mutant: every remaining control has to waive the rule. *)
checkWaiveAll(S, r) ==
  S # {} /\ \A c \in S \cap IncludedControls :
    {r, Star} \cap (globalWaiveRules \cup controlRuleConfig(c).waiveRules) # {}

(* One control that waives the rule is enough. *)
checkWaive(S, r) ==
  \E c \in S \cap IncludedControls :
    {r, Star} \cap (globalWaiveRules \cup controlRuleConfig(c).waiveRules) # {}

HasParameters(i) ==
  \E p \in Params : scope.includeControls[i].selectParameters[p] # Unset

(* An entry that lists no parameter leaves an earlier entry's in place. *)
ParameterEntriesOf(c) == {i \in EntriesOf(c) : HasParameters(i)}
ConfiguredControls == {c \in Controls : ParameterEntriesOf(c) # {}}
controlParams(c) ==
  scope.includeControls[Latest(ParameterEntriesOf(c))].selectParameters

(* Mutant: "N/A" has to be one of the alternatives, too. *)
filterParameterSelectionApplicable(p, v) ==
  \/ v = Empty
  \/ Alternatives[p] = {}
  \/ v \in Alternatives[p]

filterParameterSelection(p, v) ==
  \/ v \in {Empty, NotApplicable}
  \/ Alternatives[p] = {}
  \/ v \in Alternatives[p]

validateAllControlParameterSelections ==
  \A c \in ConfiguredControls, p \in Params :
    controlParams(c)[p] # Unset => filterParameterSelection(p, controlParams(c)[p])

(* Mutant: the last control that lists p decides. *)
findLastParameterValueForControls(p, S) ==
  LET listing == {c \in S \cap ConfiguredControls : controlParams(c)[p] # Unset}
  IN  IF listing = {} THEN Empty ELSE controlParams(Latest(listing))[p]

(* The related controls are sorted: the least one that lists p decides.    *)
findParameterValueForControls(p, S) ==
  LET listing == {c \in S \cap ConfiguredControls : controlParams(c)[p] # Unset}
  IN  IF listing = {} THEN Empty
      ELSE controlParams(CHOOSE c \in listing : \A d \in listing : c <= d)[p]

-----------------------------------------------------------------------------
(* runPlan, one action per pass. *)

Init ==
  /\ scope \in Scopes \cup {NoScope}
  /\ generated \in Plans
  /\ earlier \in EarlierPlans
  /\ stage = "generated"
  /\ related = generated.related
  /\ skipped = [a \in Activities |-> FALSE]
  /\ waived = [a \in Activities |-> FALSE]
  /\ value = generated.value
  /\ reviewed = generated.reviewed
  /\ planFile = earlier
  /\ settings = NoSettings

applyControlScope ==
  /\ stage = "generated"
  /\ scope # NoScope
  /\ stage' = "controlScoped"
  /\ related' = [a \in Activities |-> related[a] \cap IncludedControls]
  /\ skipped' = [a \in Activities |-> skipped[a] \/ related'[a] = {}]
  /\ reviewed' = reviewed \cap IncludedControls
  /\ UNCHANGED <<given, waived, value, planFile, settings>>

(* Mutant: waivers are looked up before the selection is filtered. *)
applyRuleScopeWaiveFirst ==
  /\ stage = "controlScoped"
  /\ stage' = "ruleScoped"
  /\ related' = [a \in Activities |->
                   filterControlSelectionByRule(related[a], generated.title[a])]
  /\ skipped' = [a \in Activities |->
                   skipped[a] \/ (related[a] # {} /\ related'[a] = {})]
  /\ waived' = [a \in Activities |->
                  waived[a] \/ checkWaive(related[a], generated.title[a])]
  /\ UNCHANGED <<given, value, reviewed, planFile, settings>>

(* Activities that lost their controls in the first pass are passed over.  *)
applyRuleScope ==
  /\ stage = "controlScoped"
  /\ stage' = "ruleScoped"
  /\ related' = [a \in Activities |->
                   filterControlSelectionByRule(related[a], generated.title[a])]
  /\ skipped' = [a \in Activities |->
                   skipped[a] \/ (related[a] # {} /\ related'[a] = {})]
  /\ waived' = [a \in Activities |->
                  waived[a] \/ checkWaive(related'[a], generated.title[a])]
  /\ UNCHANGED <<given, value, reviewed, planFile, settings>>

(* Every selection is validated before the first activity is touched.  The *)
(* error ends the command.                                                 *)
rejectParameters ==
  /\ stage = "ruleScoped"
  /\ ~ validateAllControlParameterSelections
  /\ stage' = "rejected"
  /\ UNCHANGED <<given, plan, planFile, settings>>

UpdatedValue(a, p) ==
  LET newValue == findParameterValueForControls(p, related[a])
  IN  IF value[a][p] # Unset /\ newValue # Empty THEN newValue ELSE value[a][p]

applyParameterScope ==
  /\ stage = "ruleScoped"
  /\ validateAllControlParameterSelections
  /\ stage' = "scoped"
  /\ value' = [a \in Activities |-> [p \in Params |-> UpdatedValue(a, p)]]
  /\ UNCHANGED <<given, related, skipped, waived, reviewed, planFile, settings>>

PlanInMemory ==
  [title |-> generated.title, related |-> related, skipped |-> skipped, waived |-> waived,
   value |-> value, reviewed |-> reviewed]

WritePlan ==
  /\ stage = "scoped" \/ (stage = "generated" /\ scope = NoScope)
  /\ stage' = "written"
  /\ planFile' = PlanInMemory
  /\ UNCHANGED <<given, plan, settings>>

-----------------------------------------------------------------------------
(* A later generate or scan reads the plan file. *)

(* Mutant: the property "skipped" is not looked at. *)
AllActivities(f) == Activities

(* Skipped activities contribute nothing. *)
AssessedActivities(f) == {a \in Activities : ~ f.skipped[a]}
Carrying(f, p) == {a \in AssessedActivities(f) : f.value[a][p] # Unset}

(* Mutant: the first activity with a parameter decides. *)
NewAssessmentActivitiesSettingsFirst(f) ==
  [mappedRules |-> {f.title[a] : a \in AssessedActivities(f)},
   selectedParameters |->
     [p \in Params |->
        IF Carrying(f, p) = {} THEN Unset
        ELSE f.value[CHOOSE a \in Carrying(f, p) : \A b \in Carrying(f, p) : a <= b][p]]]

(* A parameter of several activities keeps the value of the last one. *)
NewAssessmentActivitiesSettings(f) ==
  [mappedRules |-> {f.title[a] : a \in AssessedActivities(f)},
   selectedParameters |->
     [p \in Params |-> IF Carrying(f, p) = {} THEN Unset
                       ELSE f.value[Latest(Carrying(f, p))][p]]]

(* After a refused scope it reads what was there before, if anything was. *)
LoadSettings ==
  /\ \/ stage = "written" /\ stage' = "loaded"
     \/ stage = "rejected" /\ stage' = "earlierLoaded"
  /\ planFile # NoPlan
  /\ settings' = NewAssessmentActivitiesSettings(planFile)
  /\ UNCHANGED <<given, plan, planFile>>

Done == stage \in {"rejected", "loaded", "earlierLoaded"} /\ UNCHANGED vars

Next ==
  \/ applyControlScope
  \/ applyRuleScope
  \/ rejectParameters
  \/ applyParameterScope
  \/ WritePlan
  \/ LoadSettings
  \/ Done

Spec == Init /\ [][Next]_vars
-----------------------------------------------------------------------------
(***************************************************************************)
(* What the documentation promises of a scope file, read off the file      *)
(* directly: no passes, no normalisation, no early returns.                *)
(***************************************************************************)
EntryOf(c) == scope.includeControls[Latest(EntriesOf(c))]

(* docs/man/complyctl.md:104-106: the control is listed, and the rule is   *)
(* included for it and neither excluded for it nor globally.               *)
Declares(c, r) ==
  /\ c \in IncludedControls
  /\ {r, Star} \cap (scope.globalExcludeRules \cup EntryOf(c).excludeRules) = {}
  /\ \/ EntryOf(c).includeRules = {}
     \/ {r, Star} \cap EntryOf(c).includeRules # {}

(* docs/man/complyctl.md:149: a rule that is not skipped is waived when    *)
(* the control's list or the global list names it.                         *)
DeclaresWaived(c, r) ==
  /\ Declares(c, r)
  /\ {r, Star} \cap (scope.globalWaiveRules \cup EntryOf(c).waiveRules) # {}

RuleScopeDone ==
  stage \in {"ruleScoped", "scoped", "rejected", "written", "loaded", "earlierLoaded"}

(* The two filtering passes leave an activity exactly the controls for     *)
(* which the scope declares its rule, whatever the order and repetition of *)
(* the entries, and mark it skipped exactly when none is left.             *)
RelatedAsDeclared ==
  scope # NoScope /\ RuleScopeDone =>
    \A a \in Activities :
      /\ related[a] = {c \in generated.related[a] : Declares(c, generated.title[a])}
      /\ skipped[a] <=> related[a] = {}

(* An activity is waived exactly when one of its remaining controls        *)
(* declares the waiver: clearing waive lists while normalising an entry    *)
(* loses no waiver that an exclusion had not already overridden.           *)
WaivedAsDeclared ==
  scope # NoScope /\ RuleScopeDone =>
    \A a \in Activities :
      waived[a] <=> \E c \in generated.related[a] : DeclaresWaived(c, generated.title[a])

(* At every stage: "skipped" and "waived" exclude each other, a skipped    *)
(* activity has no control left, and no activity relates to a control that *)
(* the plan does not review.                                               *)
MarksConsistent ==
  \A a \in Activities :
    /\ ~ (skipped[a] /\ waived[a])
    /\ skipped[a] => related[a] = {}
    /\ related[a] \subseteq reviewed

(* A parameter of an activity differs from what the transformer wrote only *)
(* when a control the activity still answers for selects that value, and   *)
(* then no control with a smaller id selects another.                      *)
ParametersFollowControls ==
  \A a \in Activities, p \in Params :
    value[a][p] # generated.value[a][p] =>
      \E c \in related[a] \cap ConfiguredControls :
        /\ value[a][p] = controlParams(c)[p]
        /\ \A d \in related[a] \cap ConfiguredControls :
             d < c => controlParams(d)[p] \in {Unset, value[a][p]}

(* The entry that decides about the parameters of c, the last that lists   *)
(* any, selects v for p.                                                   *)
Selects(c, p, v) ==
  \E i \in EntriesOf(c) :
    /\ HasParameters(i) /\ scope.includeControls[i].selectParameters[p] = v
    /\ \A j \in EntriesOf(c) : HasParameters(j) => j <= i

(* The controls of an activity that select a value for p: of those that    *)
(* the scope declares its rule for, the ones whose entry lists p.          *)
SelectorsOf(a, p) ==
  {c \in generated.related[a] :
     /\ Declares(c, generated.title[a])
     /\ \E v \in ValueOrUnset \ {Unset} : Selects(c, p, v)}

(* The value of p that the scope declares for an activity: what the least  *)
(* of these controls selects, unless that is "" or there is none.          *)
DeclaredValue(a, p) ==
  LET least == CHOOSE c \in SelectorsOf(a, p) : \A d \in SelectorsOf(a, p) : c <= d
  IN  IF \/ generated.value[a][p] = Unset
         \/ SelectorsOf(a, p) = {}
         \/ Selects(least, p, Empty)
      THEN generated.value[a][p]
      ELSE CHOOSE v \in ValueOrUnset : Selects(least, p, v)

(* And the other way round: once the parameters are scoped, every          *)
(* parameter an activity has is the one selected by the control with the   *)
(* smallest id among those left to it, whichever of its entries decided    *)
(* about the rules.  Nothing selected is lost, and nothing else changed.   *)
ParametersAsDeclared ==
  scope # NoScope /\ stage \in {"scoped", "written", "loaded"} =>
    \A a \in Activities, p \in Params : value[a][p] = DeclaredValue(a, p)

(* What the plugins get for a parameter is what the scope declares for the *)
(* last of the activities that are assessed with it.  Whatever else is     *)
(* selected for it is lost: by controls that a skipped activity answered   *)
(* for, but also by those of another activity that is assessed.            *)
LastSelectionArrives ==
  scope # NoScope /\ stage = "loaded" =>
    \A p \in Params :
      LET assessed == {a \in Activities :
                         /\ generated.value[a][p] # Unset
                         /\ \E c \in generated.related[a] : Declares(c, generated.title[a])}
      IN  IF assessed = {} THEN settings.selectedParameters[p] = Unset
          ELSE \E a \in assessed :
                 /\ \A b \in assessed : b <= a
                 /\ settings.selectedParameters[p] = DeclaredValue(a, p)

(* Of all the scope says, the plugins get to see which rules to evaluate:  *)
(* those it declares for some control that they are evidence for.          *)
SettingsAsDeclared ==
  scope # NoScope /\ stage = "loaded" =>
    settings.mappedRules =
      {generated.title[a] : a \in {b \in Activities :
         \E c \in generated.related[b] : Declares(c, generated.title[b])}}

(* A parameter value handed to the plugins is one that the components set  *)
(* or one that passed validation.                                          *)
SettingsValuesAdmissible ==
  stage = "loaded" =>
    \A p \in Params : settings.selectedParameters[p] # Unset =>
      \/ \E a \in Activities : settings.selectedParameters[p] = generated.value[a][p]
      \/ filterParameterSelection(p, settings.selectedParameters[p])

(* The plan that the scope file declares, without a scope the transformer's. *)
DeclaredPlan ==
  IF scope = NoScope
  THEN [title    |-> generated.title,
        related  |-> generated.related,
        skipped  |-> [a \in Activities |-> FALSE],
        waived   |-> [a \in Activities |-> FALSE],
        value    |-> generated.value,
        reviewed |-> generated.reviewed]
  ELSE [title    |-> generated.title,
        related  |-> [a \in Activities |->
                        {c \in generated.related[a] : Declares(c, generated.title[a])}],
        skipped  |-> [a \in Activities |->
                        ~ \E c \in generated.related[a] : Declares(c, generated.title[a])],
        waived   |-> [a \in Activities |->
                        \E c \in generated.related[a] : DeclaresWaived(c, generated.title[a])],
        value    |-> [a \in Activities |-> [p \in Params |-> DeclaredValue(a, p)]],
        reviewed |-> {c \in generated.reviewed : EntriesOf(c) # {}}]

(* Some control, be it one that no activity is left for, selects a value   *)
(* that is none of the alternatives; "" and "N/A" are no such value.       *)
SelectsInadmissible ==
  scope # NoScope /\
    \E c \in Controls, p \in Params, v \in Values \ {NotApplicable} :
      Selects(c, p, v) /\ Alternatives[p] # {} /\ v \notin Alternatives[p]

(* A plan file is never written in part: it is the earlier command's, down *)
(* to what is then read from it, for as long as the scope has not been     *)
(* applied and for good if one selection in it is inadmissible; otherwise  *)
(* it says all that the scope declares.                                    *)
PlanFileAllOrNothing ==
  /\ stage \in {"written", "loaded"} => ~ SelectsInadmissible /\ planFile = DeclaredPlan
  /\ stage \notin {"written", "loaded"} => planFile = earlier
  /\ stage \in {"rejected", "earlierLoaded"} => SelectsInadmissible
  /\ stage = "earlierLoaded" =>
       settings.mappedRules = {earlier.title[a] : a \in {b \in Activities : ~ earlier.skipped[b]}}

-----------------------------------------------------------------------------
(* Statements of the documentation that the code does not keep. *)

(* README.md:104: globalWaiveRules "will be waived for all controls, this  *)
(* takes priority over any includeRules clauses above".                    *)
GlobalWaiveTakesPriority ==
  scope # NoScope /\ RuleScopeDone =>
    \A a \in Activities, c \in IncludedControls :
      /\ c \in generated.related[a]
      /\ generated.title[a] \in scope.globalWaiveRules
      /\ {generated.title[a], Star} \cap
           (scope.globalExcludeRules \cup EntryOf(c).excludeRules) = {}
      => waived[a]

(* docs/man/complyctl.md:153: "all parameters associated with a globally   *)
(* waived rule will not be altered in the generated assessment-plan.json". *)
WaivedParametersUnaltered ==
  stage = "written" =>
    \A a \in Activities : waived[a] => value[a] = generated.value[a]
=============================================================================

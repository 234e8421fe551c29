----------------------- MODULE AssessmentScope_proofs -----------------------
(***************************************************************************)
(* Theorems about AssessmentScope, for any number of activities, any       *)
(* rules, controls and parameters, and any scope files and plans: the      *)
(* passes over the plan come to what a direct reading of the scope file    *)
(* says, parameters follow the controls that remain and have been          *)
(* validated, the plan file changes completely or not at all, and it is    *)
(* what the plugins' settings are read from.                               *)
(***************************************************************************)
EXTENDS AssessmentScope, WellFoundedInduction, TLAPS

USE DEF given, plan

-----------------------------------------------------------------------------
(* Choosing the first and the last of a set of positions. *)

LEMMA First ==
  ASSUME NEW S, S \subseteq Nat, S # {}
  PROVE  \E i \in S : \A j \in S : i <= j
<1>1. PICK i \in S : \A j \in S : <<j, i>> \notin OpToRel(<, Nat)
  BY WFMin, NatLessThanWellFounded
<1>2. \A j \in S : i \in Nat /\ j \in Nat /\ ~ (j < i)
  BY <1>1 DEF OpToRel
<1>3. \A j \in S : i <= j
  BY <1>2
<1> QED BY <1>3

(* Counted from the end, the last position is the first. *)
LEMMA Last ==
  ASSUME NEW n \in Nat, NEW S, S \subseteq 1 .. n, S # {}
  PROVE  Latest(S) \in S /\ \A j \in S : j <= Latest(S)
<1> DEFINE T == {n - i : i \in S}
<1>0. \A i \in S : i \in 1 .. n /\ n - i \in Nat
  OBVIOUS
<1>1. T \subseteq Nat /\ T # {}
  BY <1>0
<1>2. PICK k \in T : \A m \in T : k <= m
  BY <1>1, First
<1>3. PICK i \in S : k = n - i
  BY <1>2
<1>4. \A j \in S : n - i <= n - j
  BY <1>2, <1>3
<1>5. \A j \in S : j <= i
  BY <1>0, <1>4
<1> QED BY <1>5 DEF Latest

(* The entry of an included control is an entry of the file, for that      *)
(* control; so is the one that its parameters come from.                   *)
LEMMA Entries ==
  ASSUME scope \in Scopes
  PROVE  /\ \A c \in IncludedControls :
              Latest(EntriesOf(c)) \in EntriesOf(c) /\ EntryOf(c) \in ControlEntry
         /\ \A c \in ConfiguredControls : controlParams(c) \in [Params -> ValueOrUnset]
<1>1. scope.includeControls \in Seq(ControlEntry)
  BY ScopesAssumption DEF Scope
<1>2. \A i \in DOMAIN scope.includeControls : scope.includeControls[i] \in ControlEntry
  BY <1>1
<1>3. PICK n \in Nat : DOMAIN scope.includeControls = 1 .. n
  BY <1>1
<1>4. ASSUME NEW c \in IncludedControls
      PROVE  Latest(EntriesOf(c)) \in EntriesOf(c) /\ EntryOf(c) \in ControlEntry
  <2>1. EntriesOf(c) \subseteq 1 .. n /\ EntriesOf(c) # {}
    BY <1>3 DEF IncludedControls, EntriesOf
  <2>2. Latest(EntriesOf(c)) \in EntriesOf(c)
    BY <2>1, Last
  <2> QED BY <1>2, <2>2 DEF EntryOf, EntriesOf
<1>5. ASSUME NEW c \in ConfiguredControls PROVE controlParams(c) \in [Params -> ValueOrUnset]
  <2>1. ParameterEntriesOf(c) \subseteq 1 .. n /\ ParameterEntriesOf(c) # {}
    BY <1>3 DEF ConfiguredControls, ParameterEntriesOf, EntriesOf
  <2>2. Latest(ParameterEntriesOf(c)) \in ParameterEntriesOf(c)
    BY <2>1, Last
  <2> QED BY <1>2, <2>2 DEF controlParams, ParameterEntriesOf, EntriesOf, ControlEntry
<1> QED BY <1>4, <1>5

(* The value found for a parameter is one that an entry selects, or "".    *)
LEMMA FoundValue ==
  ASSUME scope \in Scopes, NEW p \in Params, NEW S
  PROVE  \/ findParameterValueForControls(p, S) = Empty
         \/ \E c \in S \cap ConfiguredControls :
              /\ findParameterValueForControls(p, S) = controlParams(c)[p]
              /\ controlParams(c)[p] # Unset
              /\ \A d \in S \cap ConfiguredControls :
                   d < c => controlParams(d)[p] = Unset
<1> DEFINE L == {c \in S \cap ConfiguredControls : controlParams(c)[p] # Unset}
           f == CHOOSE c \in L : \A d \in L : c <= d
<1>1. CASE L = {}
  BY <1>1 DEF findParameterValueForControls
<1>2. CASE L # {}
  <2>1. L \subseteq Nat
    BY ControlsAssumption DEF ConfiguredControls
  <2>2. f \in L /\ \A d \in L : f <= d
    BY <1>2, <2>1, First
  <2>3. findParameterValueForControls(p, S) = controlParams(f)[p]
    BY <1>2 DEF findParameterValueForControls
  <2>4. \A d \in L : ~ (d < f)
    BY <2>1, <2>2
  <2> QED BY <2>2, <2>3, <2>4
<1> QED BY <1>1, <1>2

-----------------------------------------------------------------------------
(* The heart of it: for an included control, normalising the entry and     *)
(* then filtering by it is the same as reading the entry as it is.         *)
LEMMA KeptAsDeclared ==
  ASSUME scope \in Scopes, NEW c \in IncludedControls, NEW r
  PROVE  shouldKeepControl(r, c) <=> Declares(c, r)
<1> DEFINE e == EntryOf(c)
<1>1. e \in ControlEntry
  BY Entries
<1>2. CASE Star \in scope.globalExcludeRules
  BY <1>2 DEF shouldKeepControl, Declares
<1>3. CASE Star \notin scope.globalExcludeRules /\ Star \in e.excludeRules
  <2>1. controlRuleConfig(c) = [e EXCEPT !.includeRules = {}, !.waiveRules = {}]
    BY <1>3 DEF controlRuleConfig, EntryOf
  <2>2. controlRuleConfig(c).includeRules = {}
    BY <1>1, <2>1 DEF ControlEntry
  <2> QED BY <1>3, <2>2 DEF shouldKeepControl, Declares
<1>4. CASE Star \notin scope.globalExcludeRules /\ Star \notin e.excludeRules /\ e.includeRules = {}
  <2>1. controlRuleConfig(c) = [e EXCEPT !.includeRules = {Star}]
    BY <1>4 DEF controlRuleConfig, EntryOf
  <2>2. /\ controlRuleConfig(c).includeRules = {Star}
        /\ controlRuleConfig(c).excludeRules = e.excludeRules
    BY <1>1, <2>1 DEF ControlEntry
  <2> QED BY <1>4, <2>2 DEF shouldKeepControl, Declares
<1>5. CASE Star \notin scope.globalExcludeRules /\ Star \notin e.excludeRules /\ e.includeRules # {}
  <2>1. controlRuleConfig(c) = e
    BY <1>5 DEF controlRuleConfig, EntryOf
  <2> QED BY <1>5, <2>1 DEF shouldKeepControl, Declares
<1> QED BY <1>2, <1>3, <1>4, <1>5

(* And no waiver of a rule that is kept is lost in the normalisation.      *)
LEMMA WaivedIfDeclared ==
  ASSUME scope \in Scopes, NEW c \in IncludedControls, NEW r, Declares(c, r)
  PROVE  {r, Star} \cap (globalWaiveRules \cup controlRuleConfig(c).waiveRules) # {}
           <=> DeclaresWaived(c, r)
<1> DEFINE e == EntryOf(c)
<1>1. e \in ControlEntry
  BY Entries
<1>2. Star \notin scope.globalExcludeRules /\ Star \notin e.excludeRules
  BY DEF Declares
<1>3. controlRuleConfig(c).waiveRules = e.waiveRules
  <2>1. CASE e.includeRules = {}
    <3>1. controlRuleConfig(c) = [e EXCEPT !.includeRules = {Star}]
      BY <1>2, <2>1 DEF controlRuleConfig, EntryOf
    <3> QED BY <1>1, <3>1 DEF ControlEntry
  <2>2. CASE e.includeRules # {}
    BY <1>2, <2>2 DEF controlRuleConfig, EntryOf
  <2> QED BY <2>1, <2>2
<1>4. globalWaiveRules = scope.globalWaiveRules
  BY <1>2 DEF globalWaiveRules
<1> QED BY <1>3, <1>4 DEF DeclaresWaived

-----------------------------------------------------------------------------
(* What each pass leaves behind, in terms of the generated plan.           *)

Given ==
  /\ scope \in Scopes \cup {NoScope}
  /\ generated \in Plans
  /\ scope = NoScope => stage \in {"generated", "written", "loaded"}

Unscoped ==
  stage = "generated" \/ scope = NoScope =>
    /\ related = generated.related
    /\ skipped = [a \in Activities |-> FALSE]
    /\ waived = [a \in Activities |-> FALSE]
    /\ reviewed = generated.reviewed

ControlScoped ==
  stage = "controlScoped" =>
    /\ reviewed = generated.reviewed \cap IncludedControls
    /\ \A a \in Activities :
         /\ related[a] = generated.related[a] \cap IncludedControls
         /\ skipped[a] <=> related[a] = {}
         /\ ~ waived[a]

RuleScoped ==
  scope # NoScope /\ RuleScopeDone =>
    /\ reviewed = generated.reviewed \cap IncludedControls
    /\ \A a \in Activities :
         /\ related[a] = filterControlSelectionByRule(generated.related[a] \cap IncludedControls,
                                                     generated.title[a])
         /\ skipped[a] <=> related[a] = {}
         /\ waived[a] <=> checkWaive(related[a], generated.title[a])

(* The plan file is the earlier one until the plan in memory is written;   *)
(* what is loaded is read from it.                                         *)
OnFile ==
  /\ planFile = IF stage \in {"written", "loaded"} THEN PlanInMemory ELSE earlier
  /\ stage \in {"loaded", "earlierLoaded"} =>
       settings = NewAssessmentActivitiesSettings(planFile)

IInv == TypeOK /\ Given /\ Unscoped /\ ControlScoped /\ RuleScoped /\ OnFile

(* Settings are read from the file alone.                                  *)
LEMMA SettingsNext ==
  NewAssessmentActivitiesSettings(planFile)' = NewAssessmentActivitiesSettings(planFile')
BY DEF NewAssessmentActivitiesSettings, AssessedActivities, Carrying, Latest, Activities

(* So a step that keeps both keeps what has been loaded, and a step before *)
(* the plan is written leaves the file as it is.                           *)
LEMMA OnFileStays ==
  ASSUME OnFile, UNCHANGED <<given, planFile, settings>>,
         \/ stage' = stage /\ UNCHANGED plan
         \/ {stage, stage'} \cap {"written", "loaded", "earlierLoaded"} = {}
  PROVE  OnFile'
<1>1. CASE {stage, stage'} \cap {"written", "loaded", "earlierLoaded"} = {}
  BY <1>1 DEF OnFile
<1>2. CASE stage' = stage /\ UNCHANGED plan
  <2>1. PlanInMemory' = PlanInMemory
    BY <1>2 DEF PlanInMemory
  <2> QED BY <1>2, <2>1, SettingsNext DEF OnFile
<1> QED BY <1>1, <1>2

(* What is looked up in the scope file does not change.                    *)
LEMMA SameScope ==
  ASSUME scope' = scope
  PROVE  /\ IncludedControls' = IncludedControls
         /\ \A S, r : filterControlSelectionByRule(S, r)' = filterControlSelectionByRule(S, r)
         /\ \A S, r : checkWaive(S, r)' <=> checkWaive(S, r)
BY DEF IncludedControls, EntriesOf, filterControlSelectionByRule, shouldKeepControl, checkWaive,
       globalWaiveRules, controlRuleConfig

(* What the rule pass leaves behind may be read off the scope before the   *)
(* step.                                                                   *)
LEMMA RuleScopedNext ==
  ASSUME UNCHANGED <<scope, generated>>,
         scope # NoScope /\ RuleScopeDone' =>
           /\ reviewed' = generated.reviewed \cap IncludedControls
           /\ \A a \in Activities :
                /\ related'[a] =
                     filterControlSelectionByRule(generated.related[a] \cap IncludedControls,
                                                  generated.title[a])
                /\ skipped'[a] <=> related'[a] = {}
                /\ waived'[a] <=> checkWaive(related'[a], generated.title[a])
  PROVE  RuleScoped'
<1> SUFFICES ASSUME scope # NoScope, RuleScopeDone'
             PROVE  /\ reviewed' = generated'.reviewed \cap IncludedControls'
                    /\ \A a \in Activities :
                         /\ related'[a] = filterControlSelectionByRule(
                                            generated.related[a] \cap IncludedControls,
                                            generated.title[a])'
                         /\ skipped'[a] <=> related'[a] = {}
                         /\ waived'[a] <=> checkWaive(related[a], generated.title[a])'
  BY DEF RuleScoped
<1>1. reviewed' = generated'.reviewed \cap IncludedControls'
  BY SameScope
<1>2. ASSUME NEW a \in Activities
      PROVE  /\ related'[a] = filterControlSelectionByRule(
                                generated.related[a] \cap IncludedControls, generated.title[a])'
             /\ skipped'[a] <=> related'[a] = {}
             /\ waived'[a] <=> checkWaive(related[a], generated.title[a])'
  <2>1. filterControlSelectionByRule(
           generated.related[a] \cap IncludedControls, generated.title[a])'
          = filterControlSelectionByRule(
              generated.related[a] \cap IncludedControls, generated.title[a])
    BY DEF IncludedControls, EntriesOf, filterControlSelectionByRule, shouldKeepControl,
           controlRuleConfig
  <2>2. checkWaive(related[a], generated.title[a])' <=> checkWaive(related'[a], generated.title[a])
    BY DEF IncludedControls, EntriesOf, checkWaive, globalWaiveRules, controlRuleConfig
  <2> QED BY <2>1, <2>2
<1> QED BY <1>1, <1>2

(* A step that keeps the activities keeps what the passes have made of them. *)
LEMMA RuleScopedStays ==
  ASSUME RuleScoped,
         scope # NoScope /\ RuleScopeDone' => RuleScopeDone,
         UNCHANGED <<scope, generated, related, skipped, waived, reviewed>>
  PROVE  RuleScoped'
BY RuleScopedNext DEF RuleScoped

(* The parameters of an activity keep their type when they are updated.    *)
LEMMA UpdatedType ==
  ASSUME IInv, scope \in Scopes, NEW a \in Activities, NEW p \in Params
  PROVE  UpdatedValue(a, p) \in ValueOrUnset
<1>1. findParameterValueForControls(p, related[a]) \in ValueOrUnset
  <2>1. CASE findParameterValueForControls(p, related[a]) = Empty
    BY <2>1 DEF ValueOrUnset
  <2>2. CASE findParameterValueForControls(p, related[a]) # Empty
    BY <2>2, FoundValue, Entries
  <2> QED BY <2>1, <2>2
<1> QED BY <1>1 DEF UpdatedValue, IInv, TypeOK

(* So do the settings, whatever the plan file says.                        *)
LEMMA SettingsType ==
  ASSUME NEW f \in PlanContents
  PROVE  NewAssessmentActivitiesSettings(f) \in
           [mappedRules : SUBSET Rules, selectedParameters : [Params -> ValueOrUnset]]
<1>1. {f.title[a] : a \in AssessedActivities(f)} \in SUBSET Rules
  BY DEF AssessedActivities, PlanContents
<1>2. ASSUME NEW p \in Params, Carrying(f, p) # {}
      PROVE  f.value[Latest(Carrying(f, p))][p] \in ValueOrUnset
  <2>1. Carrying(f, p) \subseteq 1 .. NumActivities
    BY DEF Carrying, AssessedActivities, Activities
  <2>2. Latest(Carrying(f, p)) \in Activities
    BY <1>2, <2>1, NumActivitiesAssumption, Last DEF Activities
  <2> QED BY <2>2 DEF PlanContents
<1>3. Unset \in ValueOrUnset
  BY DEF ValueOrUnset
<1> QED BY <1>1, <1>2, <1>3 DEF NewAssessmentActivitiesSettings

LEMMA PlanInMemoryType ==
  ASSUME TypeOK
  PROVE  PlanInMemory \in PlanContents
BY DEF TypeOK, PlanInMemory, PlanContents, GeneratedPlan

-----------------------------------------------------------------------------
(* Init establishes the invariant.                                         *)
LEMMA InitIInv == Init => IInv
<1> SUFFICES ASSUME Init PROVE IInv
  OBVIOUS
<1>1. TypeOK
  BY ScopesAssumption, PlansAssumption, EarlierPlansAssumption
     DEF Init, TypeOK, GeneratedPlan, Stages, NoSettings, ValueOrUnset
<1> QED BY <1>1 DEF Init, IInv, Given, Unscoped, ControlScoped, RuleScoped, RuleScopeDone, OnFile

(* Every step preserves it.                                                *)
LEMMA NextIInv == IInv /\ [Next]_vars => IInv'
<1> SUFFICES ASSUME IInv, [Next]_vars PROVE IInv'
  OBVIOUS
<1> USE DEF RuleScopeDone, Stages
<1>0. /\ scope' = scope
      /\ generated' = generated
      /\ earlier' = earlier
      /\ \A a \in Activities : generated.title[a] \in Rules
      /\ generated.related \in [Activities -> SUBSET Controls]
  BY DEF Next, applyControlScope, applyRuleScope, rejectParameters, applyParameterScope,
         WritePlan, LoadSettings, Done, vars, IInv, TypeOK, GeneratedPlan
<1>1. CASE applyControlScope
  <2>1. TypeOK'
    BY <1>1 DEF applyControlScope, IInv, TypeOK
  <2>2. Given' /\ Unscoped'
    BY <1>0, <1>1 DEF applyControlScope, IInv, Given, Unscoped
  <2>3. ControlScoped'
    BY <1>0, <1>1, SameScope DEF applyControlScope, IInv, Unscoped, ControlScoped
  <2>4. RuleScoped'
    BY <1>1 DEF applyControlScope, RuleScoped
  <2>5. OnFile'
    BY <1>1, OnFileStays DEF applyControlScope, IInv
  <2> QED BY <2>1, <2>2, <2>3, <2>4, <2>5 DEF IInv
<1>2. CASE applyRuleScope
  <2>1. TypeOK'
    BY <1>2 DEF applyRuleScope, filterControlSelectionByRule, IInv, TypeOK
  <2>2. \A a \in Activities :
          related[a] = {} => filterControlSelectionByRule(related[a], generated.title[a]) = {}
    BY DEF filterControlSelectionByRule
  <2>3. Given' /\ Unscoped' /\ ControlScoped'
    BY <1>0, <1>2 DEF applyRuleScope, IInv, Given, Unscoped, ControlScoped
  <2>4. reviewed' = generated.reviewed \cap IncludedControls
    BY <1>2 DEF applyRuleScope, IInv, ControlScoped
  <2>5. ASSUME NEW a \in Activities
        PROVE  /\ related'[a] =
                    filterControlSelectionByRule(generated.related[a] \cap IncludedControls,
                                                 generated.title[a])
               /\ skipped'[a] <=> related'[a] = {}
               /\ waived'[a] <=> checkWaive(related'[a], generated.title[a])
    BY <1>2, <2>2 DEF applyRuleScope, IInv, ControlScoped
  <2>6. RuleScoped'
    BY <1>0, <2>4, <2>5, RuleScopedNext
  <2>7. OnFile'
    BY <1>2, OnFileStays DEF applyRuleScope, IInv
  <2> QED BY <2>1, <2>3, <2>6, <2>7 DEF IInv
<1>3. CASE rejectParameters
  <2>1. TypeOK'
    BY <1>3 DEF rejectParameters, IInv, TypeOK
  <2>2. Given' /\ Unscoped'
    BY <1>0, <1>3 DEF rejectParameters, IInv, Given, Unscoped
  <2>3. ControlScoped'
    BY <1>3 DEF rejectParameters, ControlScoped
  <2>4. RuleScoped'
    BY <1>3, RuleScopedStays DEF rejectParameters, IInv, Given
  <2>5. OnFile'
    BY <1>3, OnFileStays DEF rejectParameters, IInv
  <2> QED BY <2>1, <2>2, <2>3, <2>4, <2>5 DEF IInv
<1>4. CASE applyParameterScope
  <2>1. \A a \in Activities, p \in Params : UpdatedValue(a, p) \in ValueOrUnset
    BY <1>4, UpdatedType DEF applyParameterScope, IInv, Given
  <2>2. TypeOK'
    BY <1>4, <2>1 DEF applyParameterScope, IInv, TypeOK
  <2>3. Given' /\ Unscoped'
    BY <1>0, <1>4 DEF applyParameterScope, IInv, Given, Unscoped
  <2>4. ControlScoped'
    BY <1>4 DEF applyParameterScope, ControlScoped
  <2>5. RuleScoped'
    BY <1>4, RuleScopedStays DEF applyParameterScope, IInv, Given
  <2>6. OnFile'
    BY <1>4, OnFileStays DEF applyParameterScope, IInv
  <2> QED BY <2>2, <2>3, <2>4, <2>5, <2>6 DEF IInv
<1>5. CASE WritePlan
  <2>1. TypeOK'
    BY <1>5, PlanInMemoryType DEF WritePlan, IInv, TypeOK
  <2>2. Given' /\ Unscoped'
    BY <1>0, <1>5 DEF WritePlan, IInv, Given, Unscoped
  <2>3. ControlScoped'
    BY <1>5 DEF WritePlan, ControlScoped
  <2>4. RuleScoped'
    BY <1>5, RuleScopedStays DEF WritePlan, IInv, Given
  <2>5. OnFile'
    <3>1. PlanInMemory' = PlanInMemory
      BY <1>5 DEF WritePlan, PlanInMemory
    <3> QED BY <1>5, <3>1 DEF WritePlan, OnFile
  <2> QED BY <2>1, <2>2, <2>3, <2>4, <2>5 DEF IInv
<1>6. CASE LoadSettings
  <2>1. TypeOK'
    <3>1. planFile \in PlanContents
      BY <1>6 DEF LoadSettings, IInv, TypeOK
    <3> QED BY <1>6, <3>1, SettingsType DEF LoadSettings, IInv, TypeOK
  <2>2. Given' /\ Unscoped'
    BY <1>0, <1>6 DEF LoadSettings, IInv, Given, Unscoped
  <2>3. ControlScoped'
    BY <1>0, <1>6, SameScope DEF LoadSettings, IInv, ControlScoped
  <2>4. RuleScoped'
    BY <1>6, RuleScopedStays DEF LoadSettings, IInv, Given
  <2>5. OnFile'
    <3>1. PlanInMemory' = PlanInMemory
      BY <1>6 DEF LoadSettings, PlanInMemory
    <3> QED BY <1>6, <3>1, SettingsNext DEF LoadSettings, IInv, OnFile
  <2> QED BY <2>1, <2>2, <2>3, <2>4, <2>5 DEF IInv
<1>7. CASE UNCHANGED vars
  <2>1. TypeOK'
    BY <1>7 DEF vars, IInv, TypeOK
  <2>2. Given' /\ Unscoped'
    BY <1>0, <1>7 DEF vars, IInv, Given, Unscoped
  <2>3. ControlScoped'
    BY <1>0, <1>7, SameScope DEF vars, IInv, ControlScoped
  <2>4. RuleScoped'
    BY <1>7, RuleScopedStays DEF vars, IInv, Given
  <2>5. OnFile'
    BY <1>7, OnFileStays DEF vars, IInv
  <2> QED BY <2>1, <2>2, <2>3, <2>4, <2>5 DEF IInv
<1> QED BY <1>1, <1>2, <1>3, <1>4, <1>5, <1>6, <1>7 DEF Next, Done

(* Every reachable state satisfies the inductive invariant.                *)
THEOREM Invariance == Spec => []IInv
BY InitIInv, NextIInv, PTL DEF Spec

(* The plan and the settings keep their types: a value written to an       *)
(* activity is one that somebody may select (scope.go:451-467).            *)
THEOREM TypeCorrect == Spec => []TypeOK
BY Invariance, PTL DEF IInv

(* The controls that remain, by the declarations of the scope file.        *)
LEMMA RelatedIfScoped ==
  ASSUME IInv, scope # NoScope, RuleScopeDone, NEW a \in Activities
  PROVE  /\ related[a] = {c \in generated.related[a] : Declares(c, generated.title[a])}
         /\ skipped[a] <=> related[a] = {}
<1>1. scope \in Scopes
  BY DEF IInv, Given
<1>2. related[a] = {c \in generated.related[a] \cap IncludedControls :
                      shouldKeepControl(generated.title[a], c)}
  BY DEF IInv, RuleScoped, filterControlSelectionByRule
<1>3. \A c : Declares(c, generated.title[a]) => c \in IncludedControls
  BY DEF Declares
<1>4. skipped[a] <=> related[a] = {}
  BY DEF IInv, RuleScoped
<1> QED BY <1>1, <1>2, <1>3, <1>4, KeptAsDeclared

(* Two filtering passes with all their normalisation and early returns     *)
(* come to the direct reading of the scope file (scope.go:254-403).        *)
THEOREM Related == Spec => []RelatedAsDeclared
<1>1. IInv => RelatedAsDeclared
  BY RelatedIfScoped DEF RelatedAsDeclared
<1> QED BY Invariance, <1>1, PTL

(* The waivers, by the declarations of the scope file.                     *)
LEMMA WaivedIfScoped ==
  ASSUME IInv, scope # NoScope, RuleScopeDone, NEW a \in Activities
  PROVE  waived[a] <=> \E c \in generated.related[a] : DeclaresWaived(c, generated.title[a])
<1> DEFINE r == generated.title[a]
<1>1. scope \in Scopes
  BY DEF IInv, Given
<1>2. waived[a] <=> \E c \in related[a] \cap IncludedControls :
                      {r, Star} \cap (globalWaiveRules \cup controlRuleConfig(c).waiveRules) # {}
  BY DEF IInv, RuleScoped, checkWaive
<1>3. related[a] = {c \in generated.related[a] : Declares(c, r)}
  BY RelatedIfScoped
<1>4. \A c : Declares(c, r) => c \in IncludedControls
  BY DEF Declares
<1>5. \A c : DeclaresWaived(c, r) => Declares(c, r)
  BY DEF DeclaresWaived
<1> HIDE DEF r
<1>6. \A c \in IncludedControls : Declares(c, r) =>
        ({r, Star} \cap (globalWaiveRules \cup controlRuleConfig(c).waiveRules) # {}
           <=> DeclaresWaived(c, r))
  BY <1>1, WaivedIfDeclared
<1>7. waived[a] <=> \E c \in generated.related[a] : DeclaresWaived(c, r)
  BY <1>2, <1>3, <1>4, <1>5, <1>6
<1> QED BY <1>7 DEF r

(* An activity is waived exactly when a control that it is kept for        *)
(* declares the waiver (scope.go:366-403, 657-679).                        *)
THEOREM Waived == Spec => []WaivedAsDeclared
<1>1. IInv => WaivedAsDeclared
  BY WaivedIfScoped DEF WaivedAsDeclared
<1> QED BY Invariance, <1>1, PTL

(* At every stage the marks agree with each other and with the controls.   *)
THEOREM Consistent == Spec => []MarksConsistent
<1>1. ASSUME IInv, NEW a \in Activities
      PROVE  /\ ~ (skipped[a] /\ waived[a])
             /\ skipped[a] => related[a] = {}
             /\ related[a] \subseteq reviewed
  <2>1. generated.related[a] \subseteq generated.reviewed
    BY <1>1, PlansAssumption DEF IInv, Given
  <2>2. CASE stage = "generated" \/ scope = NoScope
    BY <1>1, <2>1, <2>2 DEF IInv, Unscoped
  <2>3. CASE stage = "controlScoped"
    BY <1>1, <2>1, <2>3 DEF IInv, ControlScoped
  <2>4. CASE scope # NoScope /\ RuleScopeDone
    <3>1. skipped[a] <=> related[a] = {}
      BY <1>1, <2>4 DEF IInv, RuleScoped
    <3>2. waived[a] => related[a] # {}
      BY <1>1, <2>4 DEF IInv, RuleScoped, checkWaive
    <3>3. related[a] \subseteq generated.related[a] \cap IncludedControls
      BY <1>1, <2>4 DEF IInv, RuleScoped, filterControlSelectionByRule
    <3>4. reviewed = generated.reviewed \cap IncludedControls
      BY <1>1, <2>4 DEF IInv, RuleScoped
    <3> QED BY <2>1, <3>1, <3>2, <3>3, <3>4
  <2> QED BY <1>1, <2>2, <2>3, <2>4 DEF IInv, TypeOK, Stages, RuleScopeDone
<1>2. IInv => MarksConsistent
  BY <1>1 DEF MarksConsistent
<1> QED BY Invariance, <1>2, PTL

(* The plugins are given exactly the rules that the scope declares for     *)
(* some control (scope.go:254-403, factory.go:51-62).                      *)
THEOREM SettingsDeclared == Spec => []SettingsAsDeclared
<1>1. ASSUME IInv, scope # NoScope, stage = "loaded"
      PROVE  settings.mappedRules =
               {generated.title[a] : a \in {b \in Activities :
                  \E c \in generated.related[b] : Declares(c, generated.title[b])}}
  <2>1. RuleScopeDone
    BY <1>1 DEF RuleScopeDone
  <2>2. \A b \in Activities :
          ~ skipped[b] <=> \E c \in generated.related[b] : Declares(c, generated.title[b])
    BY <1>1, <2>1, RelatedIfScoped
  <2>3. settings.mappedRules = {generated.title[a] : a \in {b \in Activities : ~ skipped[b]}}
    BY <1>1 DEF IInv, OnFile, NewAssessmentActivitiesSettings, AssessedActivities, PlanInMemory
  <2> QED BY <2>2, <2>3
<1>2. IInv => SettingsAsDeclared
  BY <1>1 DEF SettingsAsDeclared
<1> QED BY Invariance, <1>2, PTL

-----------------------------------------------------------------------------
(* Parameters: nothing but what the transformer wrote until they are       *)
(* scoped, and if they are refused; then what is written is selected and   *)
(* admissible.                                                             *)
Untouched ==
  \/ scope = NoScope
  \/ stage \in {"generated", "controlScoped", "ruleScoped", "rejected", "earlierLoaded"}
  => value = generated.value

ValuesAdmissible ==
  \A a \in Activities, p \in Params :
    value[a][p] = generated.value[a][p] \/ filterParameterSelection(p, value[a][p])

(* Whether they are refused depends on the scope alone.                    *)
Validated ==
  /\ scope # NoScope /\ stage \in {"scoped", "written", "loaded"} =>
       validateAllControlParameterSelections
  /\ stage \in {"rejected", "earlierLoaded"} =>
       scope # NoScope /\ ~ validateAllControlParameterSelections

PInv == Untouched /\ ParametersFollowControls /\ ValuesAdmissible /\ Validated

LEMMA SameParameters ==
  ASSUME scope' = scope
  PROVE  /\ ConfiguredControls' = ConfiguredControls
         /\ \A c : controlParams(c)' = controlParams(c)
         /\ validateAllControlParameterSelections' <=> validateAllControlParameterSelections
BY DEF ConfiguredControls, ParameterEntriesOf, EntriesOf, HasParameters, controlParams,
       validateAllControlParameterSelections, filterParameterSelection

(* A step that leaves the parameters and the activities alone.             *)
LEMMA FollowsStays ==
  ASSUME ParametersFollowControls, UNCHANGED <<scope, generated, related, value>>
  PROVE  ParametersFollowControls'
BY SameParameters DEF ParametersFollowControls

(* A parameter that is changed takes the value of the first control, among *)
(* those that remain, which selects one.                                   *)
LEMMA UpdatedFollows ==
  ASSUME IInv, scope \in Scopes, stage = "ruleScoped", value = generated.value,
         validateAllControlParameterSelections,
         NEW a \in Activities, NEW p \in Params, UpdatedValue(a, p) # generated.value[a][p]
  PROVE  /\ \E c \in related[a] \cap ConfiguredControls :
              /\ UpdatedValue(a, p) = controlParams(c)[p]
              /\ \A d \in related[a] \cap ConfiguredControls :
                   d < c => controlParams(d)[p] \in {Unset, UpdatedValue(a, p)}
         /\ filterParameterSelection(p, UpdatedValue(a, p))
<1> DEFINE v == findParameterValueForControls(p, related[a])
<1>1. v # Empty /\ UpdatedValue(a, p) = v
  BY DEF UpdatedValue
<1>2. PICK c \in related[a] \cap ConfiguredControls :
        /\ v = controlParams(c)[p]
        /\ controlParams(c)[p] # Unset
        /\ \A d \in related[a] \cap ConfiguredControls : d < c => controlParams(d)[p] = Unset
  BY <1>1, FoundValue
<1>3. filterParameterSelection(p, v)
  BY <1>2 DEF validateAllControlParameterSelections
<1> QED BY <1>1, <1>2, <1>3

LEMMA InitPInv == Init => PInv
BY DEF Init, PInv, Untouched, ParametersFollowControls, ValuesAdmissible, Validated

LEMMA NextPInv == IInv /\ PInv /\ [Next]_vars => PInv'
<1> SUFFICES ASSUME IInv, PInv, [Next]_vars PROVE PInv'
  OBVIOUS
<1>1. CASE applyControlScope \/ applyRuleScope
  <2>1. value' = value /\ generated' = generated /\ value = generated.value
    BY <1>1 DEF applyControlScope, applyRuleScope, PInv, Untouched
  <2>2. Validated'
    BY <1>1 DEF applyControlScope, applyRuleScope, Validated
  <2> QED BY <2>1, <2>2 DEF PInv, Untouched, ParametersFollowControls, ValuesAdmissible
<1>2. CASE rejectParameters \/ WritePlan \/ LoadSettings \/ UNCHANGED vars
  <2>1. UNCHANGED <<scope, generated, related, value>> /\ Untouched'
    BY <1>2 DEF rejectParameters, WritePlan, LoadSettings, vars, PInv, Untouched
  <2>2. ParametersFollowControls'
    BY <2>1, FollowsStays DEF PInv
  <2>3. ValuesAdmissible'
    BY <2>1 DEF PInv, ValuesAdmissible, filterParameterSelection
  <2>4. Validated'
    BY <1>2, <2>1, SameParameters
       DEF rejectParameters, WritePlan, LoadSettings, vars, IInv, Given, PInv, Validated
  <2> QED BY <2>1, <2>2, <2>3, <2>4 DEF PInv
<1>3. CASE applyParameterScope
  <2>1. /\ scope \in Scopes /\ stage = "ruleScoped" /\ value = generated.value
        /\ validateAllControlParameterSelections
        /\ UNCHANGED <<scope, generated, related>>
        /\ stage' = "scoped"
        /\ \A a \in Activities, p \in Params : value'[a][p] = UpdatedValue(a, p)
    BY <1>3 DEF applyParameterScope, IInv, Given, PInv, Untouched
  <2>2. ParametersFollowControls'
    <3> SUFFICES ASSUME NEW a \in Activities, NEW p \in Params,
                        value'[a][p] # generated.value[a][p]
                 PROVE  \E c \in related[a] \cap ConfiguredControls :
                          /\ value'[a][p] = controlParams(c)[p]
                          /\ \A d \in related[a] \cap ConfiguredControls :
                               d < c => controlParams(d)[p] \in {Unset, value'[a][p]}
      BY <2>1, SameParameters DEF ParametersFollowControls
    <3> QED BY <2>1, UpdatedFollows
  <2>3. ValuesAdmissible'
    BY <2>1, UpdatedFollows DEF ValuesAdmissible, filterParameterSelection
  <2>4. Untouched'
    BY <2>1, ScopesAssumption DEF Untouched
  <2>5. Validated'
    BY <2>1, SameParameters DEF Validated
  <2> QED BY <2>2, <2>3, <2>4, <2>5 DEF PInv
<1> QED BY <1>1, <1>2, <1>3 DEF Next, Done

(* A parameter of an activity differs from what the transformer wrote only *)
(* if the first of its remaining controls to select one selects that value *)
(* (scope.go:451-467, 492-504).                                            *)
THEOREM Parameters == Spec => []ParametersFollowControls
<1>1. PInv => ParametersFollowControls
  BY DEF PInv
<1> QED BY Invariance, InitPInv, NextPInv, <1>1, PTL DEF Spec

(* What the parameter pass has made of each parameter.                     *)
Applied ==
  scope # NoScope /\ stage \in {"scoped", "written", "loaded"} =>
    \A a \in Activities, p \in Params :
      LET new == findParameterValueForControls(p, related[a])
      IN  value[a][p] = IF generated.value[a][p] # Unset /\ new # Empty
                        THEN new ELSE generated.value[a][p]

LEMMA NextApplied == IInv /\ PInv /\ Applied /\ [Next]_vars => Applied'
<1> SUFFICES ASSUME IInv, PInv, Applied, [Next]_vars PROVE Applied'
  OBVIOUS
<1>1. CASE applyControlScope \/ applyRuleScope \/ rejectParameters
  BY <1>1 DEF applyControlScope, applyRuleScope, rejectParameters, Applied
<1>2. CASE applyParameterScope
  <2>1. /\ value = generated.value
        /\ UNCHANGED <<scope, generated, related>>
        /\ \A a \in Activities, p \in Params : value'[a][p] = UpdatedValue(a, p)
    BY <1>2 DEF applyParameterScope, PInv, Untouched
  <2>2. \A a \in Activities, p \in Params :
          findParameterValueForControls(p, related[a])' = findParameterValueForControls(p, related[a])
    BY <2>1 DEF findParameterValueForControls, ConfiguredControls, ParameterEntriesOf, EntriesOf,
                HasParameters, controlParams
  <2> QED BY <2>1, <2>2 DEF Applied, UpdatedValue
<1>3. CASE WritePlan \/ LoadSettings \/ UNCHANGED vars
  <2>1. /\ UNCHANGED <<scope, generated, related, value>>
        /\ scope # NoScope /\ stage' \in {"scoped", "written", "loaded"} =>
             stage \in {"scoped", "written", "loaded"}
    BY <1>3 DEF WritePlan, LoadSettings, vars, IInv, Given
  <2>2. \A a \in Activities, p \in Params :
          findParameterValueForControls(p, related[a])' = findParameterValueForControls(p, related[a])
    BY <2>1 DEF findParameterValueForControls, ConfiguredControls, ParameterEntriesOf, EntriesOf,
                HasParameters, controlParams
  <2> QED BY <2>1, <2>2 DEF Applied
<1> QED BY <1>1, <1>2, <1>3 DEF Next, Done

-----------------------------------------------------------------------------
(* What an entry selects, read directly, is what the code looks up.        *)
LEMMA SelectsAsConfigured ==
  ASSUME scope \in Scopes, NEW c \in Controls, NEW p, NEW v
  PROVE  Selects(c, p, v) <=> c \in ConfiguredControls /\ controlParams(c)[p] = v
<1>1. PICK n \in Nat : DOMAIN scope.includeControls = 1 .. n
  BY ScopesAssumption DEF Scope
<1>2. ParameterEntriesOf(c) = {i \in EntriesOf(c) : HasParameters(i)}
  BY DEF ParameterEntriesOf
<1>3. ParameterEntriesOf(c) \subseteq 1 .. n
  BY <1>1 DEF ParameterEntriesOf, EntriesOf
<1> DEFINE last == Latest(ParameterEntriesOf(c))
<1>4. ParameterEntriesOf(c) # {} =>
        last \in ParameterEntriesOf(c) /\ \A j \in ParameterEntriesOf(c) : j <= last
  BY <1>3, Last
<1>5. \A i \in ParameterEntriesOf(c) :
        (\A j \in ParameterEntriesOf(c) : j <= i) => i = last
  BY <1>3, <1>4
<1>6. c \in ConfiguredControls <=> ParameterEntriesOf(c) # {}
  BY DEF ConfiguredControls
<1>7. controlParams(c)[p] = scope.includeControls[last].selectParameters[p]
  BY DEF controlParams
<1>8. Selects(c, p, v) <=>
        \E i \in ParameterEntriesOf(c) :
          /\ scope.includeControls[i].selectParameters[p] = v
          /\ \A j \in ParameterEntriesOf(c) : j <= i
  BY <1>2 DEF Selects
<1> HIDE DEF last
<1> QED BY <1>4, <1>5, <1>6, <1>7, <1>8

(* What is refused is what the scope file selects without leave.           *)
LEMMA RefusedIfInadmissible ==
  ASSUME scope \in Scopes
  PROVE  SelectsInadmissible <=> ~ validateAllControlParameterSelections
<1>1. scope # NoScope
  BY ScopesAssumption
<1>2. ASSUME NEW c \in Controls, NEW p \in Params, NEW v \in Values \ {NotApplicable},
             Selects(c, p, v), Alternatives[p] # {}, v \notin Alternatives[p]
      PROVE  ~ validateAllControlParameterSelections
  <2>1. c \in ConfiguredControls /\ controlParams(c)[p] = v
    BY <1>2, SelectsAsConfigured
  <2>2. v # Unset /\ v # Empty
    BY ValuesAssumption
  <2> QED BY <1>2, <2>1, <2>2
          DEF validateAllControlParameterSelections, filterParameterSelection
<1>3. ASSUME NEW c \in ConfiguredControls, NEW p \in Params, controlParams(c)[p] # Unset,
             ~ filterParameterSelection(p, controlParams(c)[p])
      PROVE  SelectsInadmissible
  <2>1. c \in Controls
    BY DEF ConfiguredControls
  <2>2. controlParams(c)[p] \in ValueOrUnset
    BY Entries
  <2>3. controlParams(c)[p] \in Values \ {NotApplicable}
    BY <1>3, <2>2 DEF ValueOrUnset, filterParameterSelection
  <2>4. Selects(c, p, controlParams(c)[p])
    BY <2>1, SelectsAsConfigured
  <2> QED BY <1>1, <1>3, <2>1, <2>3, <2>4 DEF SelectsInadmissible, filterParameterSelection
<1> QED BY <1>1, <1>2, <1>3 DEF SelectsInadmissible, validateAllControlParameterSelections

(* Once they are scoped, the parameters are as the scope file declares.    *)
LEMMA AppliedAsDeclared ==
  ASSUME IInv, Applied, scope # NoScope, stage \in {"scoped", "written", "loaded"},
         NEW a \in Activities, NEW p \in Params
  PROVE  value[a][p] = DeclaredValue(a, p)
<1> DEFINE S == SelectorsOf(a, p)
           L == {c \in related[a] \cap ConfiguredControls : controlParams(c)[p] # Unset}
           f == CHOOSE c \in S : \A d \in S : c <= d
           new == findParameterValueForControls(p, related[a])
<1>0. scope \in Scopes /\ generated.related[a] \subseteq Controls
  BY DEF IInv, Given, TypeOK, GeneratedPlan
<1>1. value[a][p] = IF generated.value[a][p] # Unset /\ new # Empty
                    THEN new ELSE generated.value[a][p]
  BY DEF Applied
<1>2. L = S
  <2>1. related[a] = {c \in generated.related[a] : Declares(c, generated.title[a])}
    BY RelatedIfScoped DEF RuleScopeDone
  <2>2. \A c \in ConfiguredControls : controlParams(c)[p] \in ValueOrUnset
    BY <1>0, Entries
  <2>3. \A c \in generated.related[a] :
          (\E v \in ValueOrUnset \ {Unset} : Selects(c, p, v))
            <=> c \in ConfiguredControls /\ controlParams(c)[p] # Unset
    BY <1>0, <2>2, SelectsAsConfigured
  <2> QED BY <2>1, <2>3 DEF SelectorsOf
<1>3. new = IF S = {} THEN Empty ELSE controlParams(f)[p]
  <2>1. new = IF L = {} THEN Empty ELSE controlParams(CHOOSE c \in L : \A d \in L : c <= d)[p]
    BY DEF findParameterValueForControls
  <2> HIDE DEF L, S, new
  <2> QED BY <1>2, <2>1
<1>4. S # {} => f \in S
  <2>1. S \subseteq Nat
    BY <1>2, ControlsAssumption DEF ConfiguredControls
  <2> QED BY <2>1, First
<1>5. S # {} => \A v : Selects(f, p, v) <=> controlParams(f)[p] = v
  <2>1. ASSUME S # {} PROVE f \in ConfiguredControls /\ f \in Controls
    BY <1>2, <1>4, <2>1 DEF ConfiguredControls
  <2> QED BY <1>0, <2>1, SelectsAsConfigured
<1>6. S # {} => controlParams(f)[p] \in ValueOrUnset
  BY <1>0, <1>2, <1>4, Entries
<1>7. DeclaredValue(a, p) =
        IF generated.value[a][p] = Unset \/ S = {} \/ Selects(f, p, Empty)
        THEN generated.value[a][p]
        ELSE CHOOSE v \in ValueOrUnset : Selects(f, p, v)
  BY DEF DeclaredValue
<1> HIDE DEF S, L, f, new
<1>8. S # {} => controlParams(f)[p] = CHOOSE v \in ValueOrUnset : Selects(f, p, v)
  BY <1>5, <1>6
<1> QED BY <1>1, <1>3, <1>5, <1>7, <1>8

(* Once they are scoped, all parameters are exactly as the scope file      *)
(* declares them: every selection of a control that is left to an activity *)
(* arrives, the least control deciding (scope.go:405-467, 492-504).        *)
THEOREM ParametersDeclared == Spec => []ParametersAsDeclared
<1>1. IInv /\ Applied => ParametersAsDeclared
  BY AppliedAsDeclared DEF ParametersAsDeclared
<1>2. Init => Applied
  BY DEF Init, Applied
<1> QED BY Invariance, InitPInv, NextPInv, NextApplied, <1>1, <1>2, PTL DEF Spec

-----------------------------------------------------------------------------
(* A parameter that is set is declared to be set.                          *)
LEMMA DeclaredIsSet ==
  ASSUME IInv, scope # NoScope, NEW a \in Activities, NEW p \in Params,
         generated.value[a][p] # Unset
  PROVE  DeclaredValue(a, p) # Unset
<1> DEFINE S == SelectorsOf(a, p)
           f == CHOOSE c \in S : \A d \in S : c <= d
<1>1. CASE S = {}
  BY <1>1 DEF DeclaredValue
<1>2. CASE S # {}
  <2>1. scope \in Scopes /\ S \subseteq Controls
    BY DEF IInv, Given, TypeOK, GeneratedPlan, SelectorsOf
  <2>2. f \in S
    BY <1>2, <2>1, ControlsAssumption, First
  <2>3. PICK v \in ValueOrUnset \ {Unset} : Selects(f, p, v)
    BY <2>2 DEF SelectorsOf
  <2>4. \A u : Selects(f, p, u) <=> u = v
    BY <2>1, <2>2, <2>3, SelectsAsConfigured
  <2>5. DeclaredValue(a, p) \in {generated.value[a][p], CHOOSE u \in ValueOrUnset : Selects(f, p, u)}
    BY DEF DeclaredValue
  <2> HIDE DEF S, f
  <2>6. (CHOOSE u \in ValueOrUnset : Selects(f, p, u)) = v
    BY <2>3, <2>4
  <2> QED BY <2>5, <2>6
<1> QED BY <1>1, <1>2

(* What a plan has been loaded from: the activities that the scope leaves, *)
(* with the parameters that it declares.                                   *)
LEMMA LoadedCarrying ==
  ASSUME IInv, ParametersAsDeclared, scope # NoScope, stage = "loaded", NEW p \in Params
  PROVE  /\ planFile = PlanInMemory
         /\ Carrying(planFile, p) =
              {a \in Activities :
                 /\ generated.value[a][p] # Unset
                 /\ \E c \in generated.related[a] : Declares(c, generated.title[a])}
<1>1. planFile = PlanInMemory
  BY DEF IInv, OnFile
<1>2. \A a \in Activities : skipped[a] <=>
        ~ \E c \in generated.related[a] : Declares(c, generated.title[a])
  BY RelatedIfScoped DEF RuleScopeDone
<1>3. ASSUME NEW a \in Activities
      PROVE  value[a][p] # Unset <=> generated.value[a][p] # Unset
  <2>1. value[a][p] = DeclaredValue(a, p)
    BY DEF ParametersAsDeclared
  <2>2. CASE generated.value[a][p] = Unset
    BY <2>1, <2>2 DEF DeclaredValue
  <2>3. CASE generated.value[a][p] # Unset
    BY <2>1, <2>3, DeclaredIsSet DEF IInv
  <2> QED BY <2>2, <2>3
<1> QED BY <1>1, <1>2, <1>3 DEF Carrying, AssessedActivities, PlanInMemory


(* What arrives of a parameter is what the scope declares for the last     *)
(* activity that it leaves (plugin/settings.go, scope.go:492-504).         *)
THEOREM Arrive == Spec => []LastSelectionArrives
<1>1. ASSUME IInv, ParametersAsDeclared, scope # NoScope, stage = "loaded", NEW p \in Params
      PROVE  LET assessed == {a \in Activities :
                   /\ generated.value[a][p] # Unset
                   /\ \E c \in generated.related[a] : Declares(c, generated.title[a])}
             IN  IF assessed = {} THEN settings.selectedParameters[p] = Unset
                 ELSE \E a \in assessed :
                        /\ \A b \in assessed : b <= a
                        /\ settings.selectedParameters[p] = DeclaredValue(a, p)
  <2> DEFINE C == Carrying(planFile, p)
  <2>1. /\ planFile = PlanInMemory
        /\ C = {a \in Activities :
                  /\ generated.value[a][p] # Unset
                  /\ \E c \in generated.related[a] : Declares(c, generated.title[a])}
    BY <1>1, LoadedCarrying
  <2>2. settings.selectedParameters[p] = IF C = {} THEN Unset ELSE value[Latest(C)][p]
    BY <1>1, <2>1 DEF IInv, OnFile, NewAssessmentActivitiesSettings, PlanInMemory
  <2>3. C # {} => Latest(C) \in C /\ \A b \in C : b <= Latest(C)
    <3>1. C \subseteq 1 .. NumActivities
      BY <2>1 DEF Activities
    <3> QED BY <3>1, NumActivitiesAssumption, Last
  <2>4. C # {} => value[Latest(C)][p] = DeclaredValue(Latest(C), p)
    BY <1>1, <2>1, <2>3 DEF ParametersAsDeclared
  <2> HIDE DEF C
  <2> QED BY <2>1, <2>2, <2>3, <2>4
<1>2. IInv /\ ParametersAsDeclared => LastSelectionArrives
  BY <1>1 DEF LastSelectionArrives
<1> QED BY Invariance, ParametersDeclared, <1>2, PTL

(* A value that is handed to the plugins was set by the components or has  *)
(* passed validation.                                                      *)
THEOREM Admissible == Spec => []SettingsValuesAdmissible
<1>1. ASSUME IInv, PInv, stage = "loaded", NEW p \in Params,
             settings.selectedParameters[p] # Unset
      PROVE  \/ \E a \in Activities : settings.selectedParameters[p] = generated.value[a][p]
             \/ filterParameterSelection(p, settings.selectedParameters[p])
  <2> DEFINE C == Carrying(planFile, p)
  <2>1. planFile = PlanInMemory
    BY <1>1 DEF IInv, OnFile
  <2>2. settings.selectedParameters[p] = IF C = {} THEN Unset ELSE value[Latest(C)][p]
    BY <1>1, <2>1 DEF IInv, OnFile, NewAssessmentActivitiesSettings, PlanInMemory
  <2>3. C \subseteq 1 .. NumActivities
    BY DEF Carrying, AssessedActivities, Activities
  <2>4. Latest(C) \in Activities
    BY <1>1, <2>2, <2>3, NumActivitiesAssumption, Last DEF Activities
  <2> HIDE DEF C
  <2> QED BY <1>1, <2>2, <2>4 DEF PInv, ValuesAdmissible
<1>2. IInv /\ PInv => SettingsValuesAdmissible
  BY <1>1 DEF SettingsValuesAdmissible
<1> QED BY Invariance, InitPInv, NextPInv, <1>2, PTL DEF Spec

-----------------------------------------------------------------------------
(* What is in memory, once it is complete, is what the scope file declares. *)
LEMMA InMemoryAsDeclared ==
  ASSUME IInv, PInv, Applied, stage \in {"written", "loaded"}
  PROVE  PlanInMemory = DeclaredPlan
<1>1. CASE scope = NoScope
  BY <1>1 DEF IInv, Unscoped, PInv, Untouched, PlanInMemory, DeclaredPlan
<1>2. CASE scope # NoScope
  <2> DEFINE P == DeclaredPlan
  <2>0. RuleScopeDone
    BY DEF RuleScopeDone
  <2>1. related = P.related
    <3>1. \A a \in Activities :
            related[a] = {c \in generated.related[a] : Declares(c, generated.title[a])}
      BY <1>2, <2>0, RelatedIfScoped
    <3> QED BY <1>2, <3>1 DEF IInv, TypeOK, DeclaredPlan
  <2>2. skipped = P.skipped
    <3>1. \A a \in Activities :
            skipped[a] = ~ \E c \in generated.related[a] : Declares(c, generated.title[a])
      <4>1. ASSUME NEW a \in Activities
            PROVE  skipped[a] <=> ~ \E c \in generated.related[a] : Declares(c, generated.title[a])
        BY <1>2, <2>0, RelatedIfScoped
      <4>2. \A a \in Activities : skipped[a] \in BOOLEAN
        BY DEF IInv, TypeOK
      <4> QED BY <4>1, <4>2
    <3> QED BY <1>2, <3>1 DEF IInv, TypeOK, DeclaredPlan
  <2>3. waived = P.waived
    <3>1. \A a \in Activities :
            waived[a] = \E c \in generated.related[a] : DeclaresWaived(c, generated.title[a])
      <4>1. ASSUME NEW a \in Activities
            PROVE  waived[a] <=>
                     \E c \in generated.related[a] : DeclaresWaived(c, generated.title[a])
        BY <1>2, <2>0, WaivedIfScoped
      <4>2. \A a \in Activities : waived[a] \in BOOLEAN
        BY DEF IInv, TypeOK
      <4> QED BY <4>1, <4>2
    <3> QED BY <1>2, <3>1 DEF IInv, TypeOK, DeclaredPlan
  <2>4. value = P.value
    <3>1. \A a \in Activities : value[a] = [p \in Params |-> DeclaredValue(a, p)]
      BY <1>2, AppliedAsDeclared DEF IInv, TypeOK
    <3> QED BY <1>2, <3>1 DEF IInv, TypeOK, DeclaredPlan
  <2>5. reviewed = P.reviewed
    <3>1. reviewed = generated.reviewed \cap IncludedControls
      BY <1>2, <2>0 DEF IInv, RuleScoped
    <3>2. generated.reviewed \subseteq Controls
      BY DEF IInv, TypeOK, GeneratedPlan
    <3> QED BY <1>2, <3>1, <3>2 DEF IncludedControls, DeclaredPlan
  <2>6. P = [title |-> generated.title, related |-> P.related, skipped |-> P.skipped,
             waived |-> P.waived, value |-> P.value, reviewed |-> P.reviewed]
    BY <1>2 DEF DeclaredPlan
  <2> QED BY <2>1, <2>2, <2>3, <2>4, <2>5, <2>6 DEF PlanInMemory
<1> QED BY <1>1, <1>2

(* The plan file stays the earlier command's unless all selections of the  *)
(* scope are admissible, and then it says all that the scope declares      *)
(* (plan.go:115-143, scope.go:405-438).                                    *)
THEOREM PlanFileComplete == Spec => []PlanFileAllOrNothing
<1>1. ASSUME IInv, PInv, Applied
      PROVE  PlanFileAllOrNothing
  <2>1. scope # NoScope => (SelectsInadmissible <=> ~ validateAllControlParameterSelections)
    BY <1>1, RefusedIfInadmissible DEF IInv, Given
  <2>2. stage \in {"written", "loaded"} => ~ SelectsInadmissible /\ planFile = DeclaredPlan
    <3>1. stage \in {"written", "loaded"} => planFile = PlanInMemory
      BY <1>1 DEF IInv, OnFile
    <3>2. stage \in {"written", "loaded"} => ~ SelectsInadmissible
      BY <1>1, <2>1 DEF PInv, Validated, SelectsInadmissible
    <3> QED BY <1>1, <3>1, <3>2, InMemoryAsDeclared
  <2>3. stage \notin {"written", "loaded"} => planFile = earlier
    BY <1>1 DEF IInv, OnFile
  <2>4. stage \in {"rejected", "earlierLoaded"} => SelectsInadmissible
    BY <1>1, <2>1 DEF PInv, Validated
  <2>5. stage = "earlierLoaded" =>
          settings.mappedRules =
            {earlier.title[a] : a \in {b \in Activities : ~ earlier.skipped[b]}}
    BY <1>1, <2>3 DEF IInv, OnFile, NewAssessmentActivitiesSettings, AssessedActivities
  <2> QED BY <2>2, <2>3, <2>4, <2>5 DEF PlanFileAllOrNothing
<1>2. Init => Applied
  BY DEF Init, Applied
<1> QED BY Invariance, InitPInv, NextPInv, NextApplied, <1>1, <1>2, PTL DEF Spec
=============================================================================

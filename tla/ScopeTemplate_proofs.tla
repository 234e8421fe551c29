------------------------ MODULE ScopeTemplate_proofs ------------------------
(***************************************************************************)
(* Theorems about ScopeTemplate, for any component definitions: what an    *)
(* unedited template does to the plan made from the same definitions.      *)
(* The behaviours are some of AssessmentScope's, so that its theorems hold *)
(* of them; what is new is what the entries of a template look like.       *)
(***************************************************************************)
EXTENDS ScopeTemplate, AssessmentScope_proofs

USE DEF given, plan

(* Template and plan belong to the bundle, all along.                      *)
Made ==
  /\ bundle \in Bundles
  /\ scope \in Scopes
  /\ IsTemplate(scope, bundle)
  /\ generated = PlanOf(bundle)

(* A parameter that changed was there before, and still is.                *)
StillThere ==
  \A a \in Activities, p \in Params :
    value[a][p] # generated.value[a][p] => generated.value[a][p] # Unset /\ value[a][p] # Unset

TInv == Made /\ StillThere

(* The template lists each control of its implementations once, with the   *)
(* entry that was built for it.                                            *)
LEMMA TemplateEntries ==
  ASSUME Made
  PROVE  /\ IncludedControls = includeControls(bundle)
         /\ \A c \in IncludedControls : EntryOf(c) = controlEntry(bundle, c)
         /\ \A c \in ConfiguredControls :
              c \in IncludedControls
              /\ controlParams(c) = controlEntry(bundle, c).selectParameters
<1>1. \A i \in DOMAIN bundle : DOMAIN bundle[i].requirements \subseteq Controls
  BY BundlesAssumption DEF Made, IsImplementation
<1>2. IncludedControls = includeControls(bundle)
  BY <1>1 DEF Made, IsTemplate, IncludedControls, EntriesOf, includeControls,
              TemplateImplementations
<1>3. \A c \in IncludedControls :
        EntryOf(c) \in ControlEntry /\ Latest(EntriesOf(c)) \in EntriesOf(c)
  BY Entries DEF Made
<1>4. ASSUME NEW c \in IncludedControls PROVE EntryOf(c) = controlEntry(bundle, c)
  BY <1>3 DEF EntryOf, EntriesOf, Made, IsTemplate
<1>5. ASSUME NEW c \in ConfiguredControls
      PROVE  c \in IncludedControls
             /\ controlParams(c) = controlEntry(bundle, c).selectParameters
  <2>1. scope.includeControls \in Seq(ControlEntry)
    BY ScopesAssumption DEF Made, Scope
  <2>2. PICK n \in Nat : DOMAIN scope.includeControls = 1 .. n
    BY <2>1
  <2>3. ParameterEntriesOf(c) \subseteq 1 .. n /\ ParameterEntriesOf(c) # {}
    BY <2>2 DEF ConfiguredControls, ParameterEntriesOf, EntriesOf
  <2>4. Latest(ParameterEntriesOf(c)) \in ParameterEntriesOf(c)
    BY <2>2, <2>3, Last
  <2> QED BY <2>4 DEF ConfiguredControls, ParameterEntriesOf, EntriesOf, IncludedControls,
                      controlParams, Made, IsTemplate
<1> QED BY <1>2, <1>4, <1>5

(* What a template selects for a control is the first value that one of    *)
(* the control's implementations sets, or the "N/A" of NoParameters.       *)
LEMMA TemplateSelections ==
  ASSUME Made, NEW c \in ConfiguredControls, NEW p \in Params, controlParams(c)[p] # Unset
  PROVE  \/ p = NoParameters /\ controlParams(c)[p] = NotApplicable
         \/ \E i \in Named : /\ c \in DOMAIN bundle[i].requirements
                             /\ p \in DOMAIN bundle[i].setParameters
                             /\ bundle[i].setParameters[p] # <<>>
                             /\ controlParams(c)[p] = Head(bundle[i].setParameters[p])
<1> DEFINE selected == [q \in Params |-> processSetParameters(bundle, c, q)]
           setting == {i \in TemplateImplementations(bundle) : setsParameter(bundle, i, c, p)}
<1>1. \/ controlParams(c) = selected
      \/ controlParams(c) = [selected EXCEPT ![NoParameters] = NotApplicable]
  BY TemplateEntries DEF controlEntry
<1>2. \/ p = NoParameters /\ controlParams(c)[p] = NotApplicable
      \/ controlParams(c)[p] = processSetParameters(bundle, c, p)
  BY <1>1
<1>3. ASSUME controlParams(c)[p] = processSetParameters(bundle, c, p)
      PROVE  \E i \in Named : /\ c \in DOMAIN bundle[i].requirements
                              /\ p \in DOMAIN bundle[i].setParameters
                              /\ bundle[i].setParameters[p] # <<>>
                              /\ controlParams(c)[p] = Head(bundle[i].setParameters[p])
  <2>1. setting # {} /\ controlParams(c)[p] = Head(bundle[Latest(setting)].setParameters[p])
    BY <1>3 DEF processSetParameters
  <2>2. setting \subseteq 1 .. Len(bundle) /\ Len(bundle) \in Nat
    BY BundlesAssumption DEF Made, TemplateImplementations
  <2>3. Latest(setting) \in setting
    BY <2>1, <2>2, Last
  <2> QED BY <2>1, <2>3 DEF setsParameter, TemplateImplementations, Named
<1> QED BY <1>2, <1>3

-----------------------------------------------------------------------------
(* The behaviours are behaviours of AssessmentScope.                       *)
LEMMA TemplateSpecIsSpec == TemplateSpec => Spec
<1>1. TemplateInit => Init
  BY DEF TemplateInit
<1>2. [TemplateNext]_templateVars => [Next]_vars
  BY DEF TemplateNext, templateVars
<1> QED BY <1>1, <1>2, PTL DEF TemplateSpec, Spec

LEMMA InitTInv == TemplateInit => TInv
BY DEF TemplateInit, TInv, Made, StillThere, Init

LEMMA NextTInv == IInv /\ PInv /\ TInv /\ [TemplateNext]_templateVars => TInv'
<1> SUFFICES ASSUME IInv, PInv, TInv, [TemplateNext]_templateVars PROVE TInv'
  OBVIOUS
<1>1. scope' = scope /\ generated' = generated /\ bundle' = bundle
  BY DEF TemplateNext, templateVars, vars, Next, applyControlScope, applyRuleScope,
         rejectParameters, applyParameterScope, WritePlan, LoadSettings, Done
<1>2. Made'
  BY <1>1 DEF TInv, Made, IsTemplate
<1>3. CASE applyParameterScope
  <2>1. StillThere'
    <3> SUFFICES ASSUME NEW a \in Activities, NEW p \in Params,
                        value'[a][p] # generated.value[a][p]
                 PROVE  generated.value[a][p] # Unset /\ value'[a][p] # Unset
      BY <1>1 DEF StillThere
    <3>1. value = generated.value /\ scope \in Scopes
      BY <1>3 DEF PInv, Untouched, applyParameterScope, TInv, Made
    <3>2. value'[a][p] = UpdatedValue(a, p)
      BY <1>3 DEF applyParameterScope
    <3>3. /\ generated.value[a][p] # Unset
          /\ findParameterValueForControls(p, related[a]) # Empty
          /\ value'[a][p] = findParameterValueForControls(p, related[a])
      BY <3>1, <3>2 DEF UpdatedValue
    <3>4. findParameterValueForControls(p, related[a]) # Unset
      BY <3>1, <3>3, FoundValue
    <3> QED BY <3>3, <3>4
  <2> QED BY <1>2, <2>1 DEF TInv
<1>4. CASE ~ applyParameterScope
  <2>1. UNCHANGED value
    BY <1>4 DEF TemplateNext, templateVars, vars, Next, applyControlScope, applyRuleScope,
                rejectParameters, WritePlan, LoadSettings, Done
  <2> QED BY <1>1, <1>2, <2>1 DEF TInv, StillThere
<1> QED BY <1>3, <1>4

LEMMA TemplateInvariance == TemplateSpec => [](IInv /\ PInv /\ TInv)
<1>1. TemplateSpec => [](IInv /\ PInv)
  BY TemplateSpecIsSpec, Invariance, InitPInv, NextPInv, PTL DEF Spec
<1> QED BY <1>1, InitTInv, NextTInv, PTL DEF TemplateSpec

-----------------------------------------------------------------------------
(* When the framework is named by properties only, an unedited template    *)
(* leaves every control of every activity in place, and no activity is     *)
(* skipped or waived (scope.go:59-151).                                    *)
THEOREM ControlsKept == TemplateSpec => []KeepsControls
<1>1. ASSUME IInv, TInv, NamedByProperty PROVE
        /\ related = generated.related
        /\ reviewed = generated.reviewed
        /\ \A a \in Activities : ~ skipped[a] /\ ~ waived[a]
  <2>1. /\ Made
        /\ IncludedControls = includeControls(bundle)
        /\ \A c \in IncludedControls : EntryOf(c) = controlEntry(bundle, c)
        /\ scope # NoScope
    BY <1>1, TemplateEntries, ScopesAssumption DEF TInv, Made
  <2>2. FrameworkImplementations(bundle) = TemplateImplementations(bundle)
    BY <1>1, <2>1, BundlesAssumption
       DEF Made, NamedByProperty, IsImplementation, FrameworkImplementations,
           TemplateImplementations
  <2>3. \A r : ApplicableControls(bundle, r) \subseteq IncludedControls
    BY <2>1, <2>2 DEF ApplicableControls, includeControls
  <2>4. generated.reviewed \subseteq IncludedControls
    BY <2>1, <2>3 DEF Made, PlanOf
  <2>5. ASSUME NEW a \in Activities
        PROVE  generated.related[a] # {} /\ generated.related[a] \subseteq IncludedControls
    BY <2>1, <2>3, BundlesAssumption DEF Made, PlanOf
  <2>6. \A c \in IncludedControls : \A r : Declares(c, r) /\ ~ DeclaresWaived(c, r)
    BY <2>1 DEF Declares, DeclaresWaived, controlEntry, Made, IsTemplate
  <2>7. related \in [Activities -> SUBSET Controls] /\ generated.related \in [Activities -> SUBSET Controls]
    BY <1>1 DEF IInv, TypeOK, GeneratedPlan
  <2>8. CASE stage = "generated"
    BY <1>1, <2>8 DEF IInv, Unscoped
  <2>9. CASE stage = "controlScoped"
    <3>1. \A a \in Activities : related[a] = generated.related[a] /\ ~ skipped[a] /\ ~ waived[a]
      BY <1>1, <2>5, <2>9 DEF IInv, ControlScoped
    <3>2. reviewed = generated.reviewed
      BY <1>1, <2>4, <2>9 DEF IInv, ControlScoped
    <3> QED BY <2>7, <3>1, <3>2
  <2>10. CASE RuleScopeDone
    <3>1. ASSUME NEW a \in Activities
          PROVE  related[a] = generated.related[a] /\ ~ skipped[a]
      BY <1>1, <2>1, <2>5, <2>6, <2>10, RelatedIfScoped
    <3>2. ASSUME NEW a \in Activities
          PROVE  ~ waived[a]
      <4>1. scope \in Scopes /\ waived[a] <=> checkWaive(related[a], generated.title[a])
        BY <1>1, <2>1, <2>10 DEF IInv, RuleScoped, Made
      <4>2. \A c \in IncludedControls :
              {generated.title[a], Star}
                \cap (globalWaiveRules \cup controlRuleConfig(c).waiveRules) = {}
        BY <2>1, <2>6, WaivedIfDeclared DEF Made
      <4> QED BY <2>1, <4>1, <4>2 DEF checkWaive, Made
    <3>3. reviewed = generated.reviewed
      BY <1>1, <2>1, <2>4, <2>10 DEF IInv, RuleScoped
    <3> QED BY <2>7, <3>1, <3>2, <3>3
  <2> QED BY <1>1, <2>8, <2>9, <2>10 DEF IInv, TypeOK, Stages, RuleScopeDone
<1>2. IInv /\ TInv => KeepsControls
  BY <1>1 DEF KeepsControls
<1> QED BY <1>2, TemplateInvariance, PTL

(* Where a changed parameter's value comes from.                           *)
LEMMA ChangedValue ==
  ASSUME IInv, PInv, TInv, NEW a \in Activities, NEW p \in Params,
         value[a][p] # generated.value[a][p]
  PROVE  /\ Default[TitleOf[a]][p] # Unset
         /\ \E i \in Named :
              /\ DOMAIN bundle[i].requirements \cap related[a] # {}
              /\ p \in DOMAIN bundle[i].setParameters
              /\ bundle[i].setParameters[p] # <<>>
              /\ value[a][p] = Head(bundle[i].setParameters[p])
<1>1. Made /\ generated.value[a][p] # Unset /\ value[a][p] # Unset
  BY DEF TInv, StillThere
<1>2. Default[TitleOf[a]][p] # Unset
  BY <1>1 DEF Made, PlanOf, ApplyParameterSettings
<1>3. p # NoParameters
  BY <1>2, DefaultAssumption, TitleOfAssumption, NoParametersAssumption
<1>4. PICK c \in related[a] \cap ConfiguredControls : value[a][p] = controlParams(c)[p]
  BY DEF PInv, ParametersFollowControls
<1>5. PICK i \in Named : /\ c \in DOMAIN bundle[i].requirements
                         /\ p \in DOMAIN bundle[i].setParameters
                         /\ bundle[i].setParameters[p] # <<>>
                         /\ controlParams(c)[p] = Head(bundle[i].setParameters[p])
  BY <1>1, <1>3, <1>4, TemplateSelections
<1> QED BY <1>2, <1>4, <1>5

(* A parameter that an unedited template changes takes the first value     *)
(* that an implementation of one of the activity's controls sets           *)
(* (scope.go:201-239).                                                     *)
THEOREM ChangesComeFromBundle == TemplateSpec => []ChangesToSetValues
<1>1. IInv /\ PInv /\ TInv => ChangesToSetValues
  BY ChangedValue DEF ChangesToSetValues
<1> QED BY <1>1, TemplateInvariance, PTL

(* A parameter on which the implementations of the framework agree keeps   *)
(* its value, whichever remarks tie it to whichever rule (scope.go:153-199). *)
THEOREM AgreedParametersKept == TemplateSpec => []KeepsAgreedParameters
<1>1. ASSUME IInv, PInv, TInv, NEW p \in Params, Agreed(p), NEW a \in Activities
      PROVE  value[a][p] = generated.value[a][p]
  <2> SUFFICES ASSUME value[a][p] # generated.value[a][p] PROVE FALSE
    OBVIOUS
  <2>1. Made
    BY <1>1 DEF TInv
  <2>2. PICK i \in Named : /\ p \in DOMAIN bundle[i].setParameters
                           /\ value[a][p] = Head(bundle[i].setParameters[p])
    BY <1>1, ChangedValue
  <2>3. Default[TitleOf[a]][p] # Unset
    BY <1>1, ChangedValue
  <2>4. PICK v \in Values : \A j \in FrameworkImplementations(bundle) :
          p \in DOMAIN bundle[j].setParameters => bundle[j].setParameters[p] = <<v>>
    BY <1>1 DEF Agreed
  <2>5. i \in FrameworkImplementations(bundle)
    BY DEF Named, FrameworkImplementations
  <2>6. value[a][p] = v /\ i \in SetOnce(bundle, p)
    <3>1. bundle[i].setParameters[p] = <<v>>
      BY <2>2, <2>4, <2>5
    <3>2. Head(<<v>>) = v /\ Len(<<v>>) = 1
      OBVIOUS
    <3> QED BY <2>2, <2>5, <3>1, <3>2 DEF SetOnce
  <2>7. SetOnce(bundle, p) \subseteq 1 .. Len(bundle) /\ Len(bundle) \in Nat
    BY <2>1, BundlesAssumption DEF Made, SetOnce, FrameworkImplementations
  <2>8. Latest(SetOnce(bundle, p)) \in SetOnce(bundle, p)
    BY <2>6, <2>7, Last
  <2>9. bundle[Latest(SetOnce(bundle, p))].setParameters[p] = <<v>>
    BY <2>4, <2>8 DEF SetOnce
  <2>10. generated.value[a][p] = ApplyParameterSettings(bundle, TitleOf[a], p)
    BY <2>1 DEF Made, PlanOf
  <2> QED BY <2>3, <2>6, <2>9, <2>10 DEF ApplyParameterSettings
<1>2. IInv /\ PInv /\ TInv => KeepsAgreedParameters
  BY <1>1 DEF KeepsAgreedParameters
<1> QED BY <1>2, TemplateInvariance, PTL

(* An unedited template is refused only for a value that the component     *)
(* definitions set outside their own alternatives (scope.go:505-548).      *)
THEOREM RefusedForAReason == TemplateSpec => []RefusedOnlyIfInadmissible
<1>1. ASSUME PInv, TInv, stage = "rejected"
      PROVE  \E i \in Named : \E p \in DOMAIN bundle[i].setParameters :
               /\ bundle[i].setParameters[p] # <<>>
               /\ ~ filterParameterSelection(p, Head(bundle[i].setParameters[p]))
  <2>1. PICK c \in ConfiguredControls, p \in Params :
          controlParams(c)[p] # Unset /\ ~ filterParameterSelection(p, controlParams(c)[p])
    BY <1>1 DEF PInv, Validated, validateAllControlParameterSelections
  <2>2. controlParams(c)[p] # NotApplicable
    BY <2>1 DEF filterParameterSelection
  <2>3. PICK i \in Named : /\ p \in DOMAIN bundle[i].setParameters
                           /\ bundle[i].setParameters[p] # <<>>
                           /\ controlParams(c)[p] = Head(bundle[i].setParameters[p])
    BY <1>1, <2>1, <2>2, TemplateSelections DEF TInv
  <2> QED BY <2>1, <2>3
<1>2. PInv /\ TInv => RefusedOnlyIfInadmissible
  BY <1>1 DEF RefusedOnlyIfInadmissible
<1> QED BY <1>2, TemplateInvariance, PTL
=============================================================================

-------------------------- MODULE Tailoring_proofs --------------------------
(***************************************************************************)
(* Theorems about Tailoring, for any rules, variables and values, and any  *)
(* policies and datastreams: a scan with the tailored profile evaluates    *)
(* the rules of the policy with values of the policy, and the tailoring    *)
(* says nothing that the datastream does not know.                         *)
(***************************************************************************)
EXTENDS Tailoring, WellFoundedInduction, TLAPS

(* A nonempty set of positions has a first one. *)
LEMMA First ==
  ASSUME NEW S, S \subseteq Nat, S # {}
  PROVE  \E i \in S : \A j \in S : i <= j
<1>1. PICK i \in S : \A j \in S : <<j, i>> \notin OpToRel(<, Nat)
  BY WFMin, NatLessThanWellFounded
<1>2. \A j \in S : i \in Nat /\ j \in Nat /\ ~ (j < i)
  BY <1>1 DEF OpToRel
<1>3. \A j \in S : i <= j
  BY <1>2
<1> QED BY <1>3

(* What each check that has been passed leaves behind. *)
Given == policy \in Policies /\ ds \in Datastreams

Selected ==
  stage \in {"selected", "written", "generated", "scanned"} =>
    /\ policy.rules \subseteq ds.rules
    /\ unselects = unselectAbsentRules
    /\ selects = selectAdditionalRules

Valued ==
  /\ stage \in {"written", "generated", "scanned"} =>
       /\ \A i \in DOMAIN policy.parameters : policy.parameters[i].id \in ds.variables
       /\ setValues = [v \in Variables |-> updateTailoringValues(v)]
  /\ stage = "scanned" =>
       /\ evaluated = SelectedBy(ScanProfile)
       /\ evaluatedWith = [v \in Variables |-> ValueBy(ScanProfile, v)]

IInv == TypeOK /\ Given /\ Selected /\ Valued

-----------------------------------------------------------------------------
(* What is set for a variable is nothing, if the profile agrees with all   *)
(* of its setters, or the value of one that differs from the profile.      *)
LEMMA UpdatedValue ==
  ASSUME IInv, NEW v \in Variables
  PROVE  /\ DifferingSetters(v) = {} => updateTailoringValues(v) = Unlisted
         /\ DifferingSetters(v) # {} =>
              \E i \in DifferingSetters(v) :
                updateTailoringValues(v) = policy.parameters[i].value
<1>1. CASE DifferingSetters(v) = {}
  BY <1>1 DEF updateTailoringValues
<1>2. CASE DifferingSetters(v) # {}
  <2> DEFINE i == CHOOSE i \in DifferingSetters(v) : \A j \in DifferingSetters(v) : i <= j
  <2>1. DifferingSetters(v) \subseteq Nat
    BY DEF DifferingSetters, SettersOf, IInv, TypeOK, Policy
  <2>2. i \in DifferingSetters(v)
    BY <1>2, <2>1, First
  <2>3. updateTailoringValues(v) = policy.parameters[i].value
    BY <1>2 DEF updateTailoringValues
  <2> QED BY <1>2, <2>2, <2>3
<1> QED BY <1>1, <1>2

(* The elements of a sequence, by position. *)
LEMMA Elements ==
  ASSUME NEW S, NEW s \in Seq(S)
  PROVE  \A i \in DOMAIN s : s[i] \in S
OBVIOUS

(* The parameters of a policy are pairs of a variable and a value. *)
LEMMA ParameterType ==
  ASSUME IInv
  PROVE  \A i \in DOMAIN policy.parameters :
           policy.parameters[i].id \in Variables /\ policy.parameters[i].value \in Values
<1>1. policy.parameters \in Seq([id : Variables, value : Values])
  BY DEF IInv, TypeOK, Policy
<1>2. \A i \in DOMAIN policy.parameters :
        policy.parameters[i] \in [id : Variables, value : Values]
  BY <1>1, Elements, Zenon
<1> QED BY <1>2

(* The values that are set are values. *)
LEMMA UpdatedType ==
  ASSUME IInv, NEW v \in Variables
  PROVE  updateTailoringValues(v) \in ValueOrUnlisted
<1>1. \A i \in DifferingSetters(v) : policy.parameters[i].value \in Values
  BY ParameterType DEF DifferingSetters, SettersOf
<1> QED BY <1>1, UpdatedValue DEF ValueOrUnlisted

(* A profile, tailored or not, selects rules and gives every variable a    *)
(* value.                                                                  *)
LEMMA ProfileType ==
  ASSUME IInv, NEW name
  PROVE  /\ SelectedBy(name) \in SUBSET Rules
         /\ \A v \in Variables : ValueBy(name, v) \in ValueOrUnlisted
<1>1. SelectedBy(name) \in SUBSET Rules
  BY DEF SelectedBy, IInv, TypeOK, Datastream
<1>2. ASSUME NEW v \in Variables PROVE ValueBy(name, v) \in ValueOrUnlisted
  BY DEF ValueBy, ValueOrUnlisted, IInv, TypeOK, Datastream
<1> QED BY <1>1, <1>2

-----------------------------------------------------------------------------
(* Init establishes the invariant. *)
LEMMA InitIInv == Init => IInv
<1> SUFFICES ASSUME Init PROVE IInv
  OBVIOUS
<1>1. TypeOK
  BY PoliciesAssumption, DatastreamsAssumption DEF Init, TypeOK, ValueOrUnlisted
<1>2. Given /\ Selected /\ Valued
  BY DEF Init, Given, Selected, Valued
<1> QED BY <1>1, <1>2 DEF IInv

(* Every step preserves it. *)
LEMMA NextIInv == IInv /\ [Next]_vars => IInv'
<1> SUFFICES ASSUME IInv, [Next]_vars PROVE IInv'
  OBVIOUS
<1> USE DEF unselectAbsentRules, selectAdditionalRules
<1>1. CASE GetDsProfile
  BY <1>1 DEF GetDsProfile, IInv, TypeOK, Given, Selected, Valued
<1>2. CASE getTailoringSelections
  <2>1. TypeOK'
    BY <1>2 DEF getTailoringSelections, IInv, TypeOK, Policy, Datastream
  <2>2. (Given /\ Selected /\ Valued)'
    BY <1>2 DEF getTailoringSelections, validateRuleExistence, IInv, Given, Selected, Valued
  <2> QED BY <2>1, <2>2 DEF IInv
<1>3. CASE getTailoringValues
  <2>1. \A v \in Variables : updateTailoringValues(v) \in ValueOrUnlisted
    BY UpdatedType
  <2>2. TypeOK'
    BY <1>3, <2>1 DEF getTailoringValues, IInv, TypeOK
  <2>3. \A v \in Variables : updateTailoringValues(v)' = updateTailoringValues(v)
    BY <1>3 DEF getTailoringValues, updateTailoringValues, DifferingSetters, SettersOf
  <2>4. (Given /\ Selected /\ Valued)'
    BY <1>3, <2>3 DEF getTailoringValues, validateVariableExistence, IInv, Given, Selected, Valued
  <2> QED BY <2>2, <2>4 DEF IInv
<1>4. CASE OscapGenerateFix
  <2>1. TypeOK'
    BY <1>4, ProfileType DEF OscapGenerateFix, IInv, TypeOK
  <2>2. \A v \in Variables : updateTailoringValues(v)' = updateTailoringValues(v)
    BY <1>4 DEF OscapGenerateFix, updateTailoringValues, DifferingSetters, SettersOf
  <2>3. (Given /\ Selected /\ Valued)'
    BY <1>4, <2>2 DEF OscapGenerateFix, IInv, Given, Selected, Valued
  <2> QED BY <2>1, <2>3 DEF IInv
<1>5. CASE OscapScan
  <2>1. TypeOK'
    BY <1>5, ProfileType DEF OscapScan, IInv, TypeOK
  <2>2. \A v \in Variables : updateTailoringValues(v)' = updateTailoringValues(v)
    BY <1>5 DEF OscapScan, updateTailoringValues, DifferingSetters, SettersOf
  <2>3. SelectedBy(ScanProfile)' = SelectedBy(ScanProfile)
    BY <1>5 DEF OscapScan, SelectedBy, ScanProfile
  <2>4. \A v \in Variables : ValueBy(ScanProfile, v)' = ValueBy(ScanProfile, v)
    BY <1>5 DEF OscapScan, ValueBy, ScanProfile
  <2>5. (Given /\ Selected /\ Valued)'
    BY <1>5, <2>2, <2>3, <2>4 DEF OscapScan, IInv, Given, Selected, Valued
  <2> QED BY <2>1, <2>5 DEF IInv
<1>6. CASE UNCHANGED vars
  <2>1. \A v \in Variables : updateTailoringValues(v)' = updateTailoringValues(v)
    BY <1>6 DEF vars, updateTailoringValues, DifferingSetters, SettersOf
  <2>2. SelectedBy(ScanProfile)' = SelectedBy(ScanProfile)
    BY <1>6 DEF vars, SelectedBy, ScanProfile
  <2>3. \A v \in Variables : ValueBy(ScanProfile, v)' = ValueBy(ScanProfile, v)
    BY <1>6 DEF vars, ValueBy, ScanProfile
  <2>4. TypeOK'
    BY <1>6 DEF vars, IInv, TypeOK
  <2>5. (Given /\ Selected /\ Valued)'
    BY <1>6, <2>1, <2>2, <2>3 DEF vars, IInv, Given, Selected, Valued
  <2> QED BY <2>4, <2>5 DEF IInv
<1> QED BY <1>1, <1>2, <1>3, <1>4, <1>5, <1>6 DEF Next, Done

(* Every reachable state satisfies the inductive invariant. *)
THEOREM Invariance == Spec => []IInv
BY InitIInv, NextIInv, PTL DEF Spec

(* The tailoring and what oscap makes of it keep their types: an element   *)
(* of the tailoring file is a rule or a value (xccdf/tailoring.go).        *)
THEOREM TypeCorrect == Spec => []TypeOK
BY Invariance, PTL DEF IInv

(* Whatever the profile lists, evaluates by default or leaves out, the     *)
(* scan evaluates the rules of the policy (tailoring.go:78-148).           *)
THEOREM Evaluated == Spec => []EvaluatedAsPlanned
<1>1. IInv => EvaluatedAsPlanned
  BY DEF IInv, TypeOK, Selected, Valued, EvaluatedAsPlanned, SelectedBy, ScanProfile,
         unselectAbsentRules, selectAdditionalRules, Policy, Datastream
<1> QED BY Invariance, <1>1, PTL

(* However many parameters share a variable, it is evaluated with a value  *)
(* of the policy, or with the profile's if none sets it                    *)
(* (tailoring.go:150-203).                                                 *)
THEOREM ValuesPlanned == Spec => []ValuesAsPlanned
<1>1. ASSUME IInv, stage = "scanned", NEW v \in Variables
      PROVE  IF SettersOf(v) = {}
             THEN evaluatedWith[v] = ValueBy("framework", v)
             ELSE \E i \in SettersOf(v) : evaluatedWith[v] = policy.parameters[i].value
  <2>1. setValues[v] = updateTailoringValues(v) /\ evaluatedWith[v] = ValueBy(ScanProfile, v)
    BY <1>1 DEF IInv, Valued
  <2>2. \A i \in SettersOf(v) : policy.parameters[i].value \in Values
    BY <1>1, ParameterType DEF SettersOf
  <2>3. CASE DifferingSetters(v) = {}
    <3>1. \A i \in SettersOf(v) : policy.parameters[i].value = ds.refined[v]
      BY <2>3 DEF DifferingSetters
    <3>2. evaluatedWith[v] = ValueBy("framework", v)
      BY <1>1, <2>1, <2>3, UpdatedValue DEF ValueBy, ScanProfile
    <3>3. CASE SettersOf(v) # {}
      <4>1. PICK i \in SettersOf(v) : TRUE
        BY <3>3
      <4>2. ds.refined[v] \in Values
        BY <2>2, <3>1, <4>1
      <4> QED BY <3>1, <3>2, <4>1, <4>2 DEF ValueBy
    <3> QED BY <3>2, <3>3
  <2>4. CASE DifferingSetters(v) # {}
    <3>1. PICK i \in DifferingSetters(v) : setValues[v] = policy.parameters[i].value
      BY <1>1, <2>1, <2>4, UpdatedValue
    <3>2. i \in SettersOf(v) /\ setValues[v] # Unlisted
      BY <2>2, <3>1, MarkersAssumption DEF DifferingSetters
    <3>3. evaluatedWith[v] = setValues[v]
      BY <2>1, <3>2 DEF ValueBy, ScanProfile
    <3> QED BY <3>1, <3>2, <3>3
  <2> QED BY <2>3, <2>4
<1>2. IInv => ValuesAsPlanned
  BY <1>1 DEF ValuesAsPlanned
<1> QED BY Invariance, <1>2, PTL

(* A policy that the datastream does not define never reaches the file,    *)
(* and what reaches it is a difference (tailoring.go:58-203).              *)
THEOREM Valid == Spec => []TailoringIsValid
<1>1. ASSUME IInv, stage \in {"written", "generated", "scanned"}
      PROVE  /\ unselects \cup selects \subseteq ds.rules
             /\ unselects \cap selects = {}
             /\ selects \cap ds.selected = {}
  BY <1>1, DatastreamsAssumption
     DEF IInv, Given, Selected, unselectAbsentRules, selectAdditionalRules
<1>2. ASSUME IInv, stage \in {"written", "generated", "scanned"}, NEW v \in Variables,
             setValues[v] # Unlisted
      PROVE  v \in ds.variables /\ setValues[v] # ds.refined[v]
  <2>1. setValues[v] = updateTailoringValues(v)
    BY <1>2 DEF IInv, Valued
  <2>2. PICK i \in DifferingSetters(v) : setValues[v] = policy.parameters[i].value
    BY <1>2, <2>1, UpdatedValue
  <2>3. i \in DOMAIN policy.parameters /\ policy.parameters[i].id = v
    BY <2>2 DEF DifferingSetters, SettersOf
  <2> QED BY <1>2, <2>2, <2>3 DEF IInv, Valued, DifferingSetters
<1>3. IInv => TailoringIsValid
  BY <1>1, <1>2 DEF TailoringIsValid
<1> QED BY Invariance, <1>3, PTL
=============================================================================

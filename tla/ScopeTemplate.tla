--------------------------- MODULE ScopeTemplate ---------------------------
(***************************************************************************)
(* The scope file that "complyctl plan --dry-run" writes, handed unedited  *)
(* to "complyctl plan --scope-config".                                     *)
(*                                                                         *)
(* Template and plan are made from the same component definitions (the     *)
(* bundle) by two pieces of code that read them differently.  The plan     *)
(* takes every control implementation whose framework is named by its      *)
(* property or, failing that, by the path of its source; the template only *)
(* those named by property.  The plan keeps one value of a parameter for   *)
(* the whole framework, the template one per control.  The template finds  *)
(* the parameters of a control through the remarks that tie a component's  *)
(* properties together, and puts together what different components tie    *)
(* with the same remarks.                                                  *)
(*                                                                         *)
(* The passes over the plan are those of AssessmentScope.  Bundles map the *)
(* rule of each activity to a control of the framework: the transformer    *)
(* makes no activity of another rule.  Left out: the titles of controls,   *)
(* requirements without a control id, and a control that one               *)
(* implementation lists twice.                                             *)
(***************************************************************************)
EXTENDS AssessmentScope

CONSTANTS
  Remarks,       \* the remarks that components use
  Groups,        \* the properties that a component ties by one remarks value,
                 \* of all components, in the order of their files
  TitleOf,       \* per activity, its rule
  Default,       \* per rule, the default values of its parameters
  NoParameters,  \* "N/A", the name of the parameter of a control without any
  Bundles        \* the control implementations considered

Suffixes == {0, 1}  \* "Parameter_Id" and "Parameter_Id_1"

Group ==
  [remarks      : Remarks,
   rule         : Rules,
   parameters   : UNION {[S -> Params] : S \in SUBSET Suffixes},
   alternatives : UNION {[S -> SUBSET Values] : S \in SUBSET Suffixes}]

(* framework: how the implementation names it; requirements: the rules of  *)
(* each control it lists; setParameters: the values of each parameter.     *)
IsImplementation(i) ==
  /\ i.framework \in {"property", "source", "other"}
  /\ DOMAIN i.requirements \subseteq Controls
  /\ \A c \in DOMAIN i.requirements : i.requirements[c] \subseteq Rules
  /\ DOMAIN i.setParameters \subseteq Params
  /\ \A p \in DOMAIN i.setParameters : i.setParameters[p] \in Seq(Values)

VARIABLE bundle  \* the control implementations of the component definitions

templateVars == <<vars, bundle>>

-----------------------------------------------------------------------------
(* Groups of properties, looked up by their remarks. *)

GroupsOf(m) == {i \in DOMAIN Groups : Groups[i].remarks = m}

namesParameter(i, p) == \E k \in DOMAIN Groups[i].parameters : Groups[i].parameters[k] = p

(* The last rule of all the components that use the remarks. *)
ruleID(m) == Groups[Latest(GroupsOf(m))].rule

parametersInGroup(m) == {p \in Params : \E i \in GroupsOf(m) : namesParameter(i, p)}

Earliest(S) == CHOOSE i \in S : \A j \in S : i <= j

(* The suffix of the first property that names p selects the alternatives, *)
(* which may be those that another component declares for another          *)
(* parameter.                                                              *)
AlternativesIn(m, p) ==
  LET first == Groups[Earliest({i \in GroupsOf(m) : namesParameter(i, p)})]
      suffix == CHOOSE k \in DOMAIN first.parameters : first.parameters[k] = p
      listing == {i \in GroupsOf(m) : suffix \in DOMAIN Groups[i].alternatives}
  IN  IF p \notin parametersInGroup(m) \/ listing = {} THEN {}
      ELSE Groups[Earliest(listing)].alternatives[suffix]

-----------------------------------------------------------------------------
(* The template, NewAssessmentScopeFromCDs. *)

(* Mutant: implementations of other frameworks are not passed over. *)
AllImplementations(b) == DOMAIN b

TemplateImplementations(b) == {i \in DOMAIN b : b[i].framework = "property"}

(* Mutant: the controls are collected where the parameters are. *)
includeControlsWithParameters(b) ==
  UNION {DOMAIN b[i].requirements :
           i \in {j \in TemplateImplementations(b) : DOMAIN b[j].setParameters # {}}}

includeControls(b) == UNION {DOMAIN b[i].requirements : i \in TemplateImplementations(b)}

(* Implementation i sets p, and it maps to c a rule which the remarks tie  *)
(* to p.                                                                   *)
setsParameter(b, i, c, p) ==
  /\ c \in DOMAIN b[i].requirements
  /\ p \in DOMAIN b[i].setParameters
  /\ b[i].setParameters[p] # <<>>
  /\ \E m \in Remarks : /\ GroupsOf(m) # {}
                        /\ ruleID(m) \in b[i].requirements[c]
                        /\ p \in parametersInGroup(m)

(* Mutant: the last of the values is taken. *)
processSetParametersLast(b, c, p) ==
  LET setting == {i \in TemplateImplementations(b) : setsParameter(b, i, c, p)}
      values == b[Latest(setting)].setParameters[p]
  IN  IF setting = {} THEN Unset ELSE values[Len(values)]

(* A later implementation overwrites an earlier one. *)
processSetParameters(b, c, p) ==
  LET setting == {i \in TemplateImplementations(b) : setsParameter(b, i, c, p)}
  IN  IF setting = {} THEN Unset ELSE Head(b[Latest(setting)].setParameters[p])

controlEntry(b, c) ==
  LET selected == [p \in Params |-> processSetParameters(b, c, p)]
  IN  [controlId |-> c, includeRules |-> {Star}, excludeRules |-> {}, waiveRules |-> {},
       selectParameters |->
         IF \A p \in Params : selected[p] = Unset
         THEN [selected EXCEPT ![NoParameters] = NotApplicable] ELSE selected]

(* s is the template: an entry for each control, sorted. *)
IsTemplate(s, b) ==
  /\ s.globalExcludeRules = {} /\ s.globalWaiveRules = {}
  /\ {s.includeControls[i].controlId : i \in DOMAIN s.includeControls} = includeControls(b)
  /\ \A i \in DOMAIN s.includeControls :
       /\ s.includeControls[i] = controlEntry(b, s.includeControls[i].controlId)
       /\ \A j \in DOMAIN s.includeControls :
            i < j => s.includeControls[i].controlId < s.includeControls[j].controlId

-----------------------------------------------------------------------------
(* The plan, ComponentDefinitionsToAssessmentPlan. *)

FrameworkImplementations(b) == {i \in DOMAIN b : b[i].framework \in {"property", "source"}}

ApplicableControls(b, r) ==
  {c \in Controls : \E i \in FrameworkImplementations(b) :
                      c \in DOMAIN b[i].requirements /\ r \in b[i].requirements[c]}

(* One value for the framework; lists of several values are ignored. *)
SetOnce(b, p) ==
  {i \in FrameworkImplementations(b) :
     p \in DOMAIN b[i].setParameters /\ Len(b[i].setParameters[p]) = 1}

ApplyParameterSettings(b, r, p) ==
  IF Default[r][p] = Unset \/ SetOnce(b, p) = {} THEN Default[r][p]
  ELSE b[Latest(SetOnce(b, p))].setParameters[p][1]

PlanOf(b) ==
  [title    |-> TitleOf,
   related  |-> [a \in Activities |-> ApplicableControls(b, TitleOf[a])],
   value    |-> [a \in Activities |->
                   [p \in Params |-> ApplyParameterSettings(b, TitleOf[a], p)]],
   reviewed |-> UNION {ApplicableControls(b, r) : r \in Rules}]

-----------------------------------------------------------------------------
ASSUME GroupsAssumption == Groups \in Seq(Group)
ASSUME TitleOfAssumption == TitleOf \in [Activities -> Rules]
ASSUME DefaultAssumption ==
  /\ Default \in [Rules -> [Params -> Values \cup {Empty, Unset}]]
  /\ \A r \in Rules, p \in Params : Default[r][p] # Unset =>
       \E i \in DOMAIN Groups : Groups[i].rule = r /\ namesParameter(i, p)
ASSUME NoParametersAssumption ==
  /\ NoParameters \in Params
  /\ \A i \in DOMAIN Groups : ~ namesParameter(i, NoParameters)
ASSUME AlternativesOfGroups ==
  \A p \in Params : Alternatives[p] = UNION {AlternativesIn(m, p) : m \in Remarks}
ASSUME BundlesAssumption ==
  \A b \in Bundles :
    /\ DOMAIN b = 1 .. Len(b)
    /\ \A i \in DOMAIN b : IsImplementation(b[i])
    /\ \A a \in Activities : ApplicableControls(b, TitleOf[a]) # {}

TemplateInit ==
  /\ bundle \in Bundles
  /\ scope \in {s \in Scopes : IsTemplate(s, bundle)}
  /\ generated = PlanOf(bundle)
  /\ Init

TemplateNext == Next /\ UNCHANGED bundle

TemplateSpec == TemplateInit /\ [][TemplateNext]_templateVars

-----------------------------------------------------------------------------
(* The implementations whose property names the framework. *)
Named == {i \in DOMAIN bundle : bundle[i].framework = "property"}

NamedByProperty == \A i \in DOMAIN bundle : bundle[i].framework # "source"

(* When the framework is named by properties only, the unedited template   *)
(* keeps every control of every activity and of the plan's own list, and   *)
(* nothing is skipped or waived, whatever the template says of controls    *)
(* that have no rule (scope.go:59-151).                                    *)
KeepsControls ==
  NamedByProperty =>
    /\ related = generated.related
    /\ reviewed = generated.reviewed
    /\ \A a \in Activities : ~ skipped[a] /\ ~ waived[a]

(* The implementations of the framework that set p agree on one value. *)
Agreed(p) ==
  \E v \in Values : \A i \in FrameworkImplementations(bundle) :
    p \in DOMAIN bundle[i].setParameters => bundle[i].setParameters[p] = <<v>>

(* A parameter on which they agree keeps the plan's value, whichever rule  *)
(* and whichever component's properties the template found it through      *)
(* (scope.go:153-199).                                                     *)
KeepsAgreedParameters ==
  \A p \in Params : Agreed(p) =>
    \A a \in Activities : value[a][p] = generated.value[a][p]

(* An unedited template is refused only if the component definitions set a *)
(* parameter of the framework to a value outside the alternatives that     *)
(* they declare for it: "N/A" and the controls without rules never are a   *)
(* reason (scope.go:505-548, 705-763).                                     *)
RefusedOnlyIfInadmissible ==
  stage = "rejected" =>
    \E i \in Named : \E p \in DOMAIN bundle[i].setParameters :
      /\ bundle[i].setParameters[p] # <<>>
      /\ ~ filterParameterSelection(p, Head(bundle[i].setParameters[p]))

(* A parameter that does change takes the first value that an              *)
(* implementation sets which names the framework by property and lists a   *)
(* control that the activity is assessed for (scope.go:201-239).           *)
ChangesToSetValues ==
  \A a \in Activities, p \in Params :
    value[a][p] # generated.value[a][p] =>
      \E i \in Named :
        /\ DOMAIN bundle[i].requirements \cap related[a] # {}
        /\ p \in DOMAIN bundle[i].setParameters
        /\ bundle[i].setParameters[p] # <<>>
        /\ value[a][p] = Head(bundle[i].setParameters[p])
=============================================================================

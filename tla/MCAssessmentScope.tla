------------------------- MODULE MCAssessmentScope -------------------------
(***************************************************************************)
(* The instance of AssessmentScope for TLC.  Two activities, each related  *)
(* to any nonempty set of controls, and every scope file with up to two    *)
(* entries (the same control may be listed twice): those that vary the     *)
(* rule lists, and those that vary the selections of parameters and cross  *)
(* them with what skips or waives an activity.                             *)
(***************************************************************************)
EXTENDS AssessmentScope

CONSTANTS r1, r2, p1, v1, v2, v3

MCControls == {1, 2}
MCAlternatives == [p \in {p1} |-> {v1, v2}]

NoSelection == [p \in Params |-> Unset]

UpTo2(S) == {<<>>} \cup {<<e>> : e \in S} \cup {<<e, f>> : e, f \in S}

(* The lists tell r1, another rule and the wildcard apart. *)
RuleLists == {{}, {r1}, {Star}}

RuleEntries ==
  [controlId : MCControls,
   includeRules : {{}, {r2}, {r1, Star}}, excludeRules : RuleLists, waiveRules : RuleLists,
   selectParameters : {NoSelection}]

RuleScopes ==
  [includeControls : UpTo2(RuleEntries),
   globalExcludeRules : RuleLists, globalWaiveRules : RuleLists]

(* v3 is not one of the alternatives. *)
Selections == [Params -> {Unset, Empty, NotApplicable, v1, v2, v3}]

ParameterEntries ==
  [controlId : MCControls,
   includeRules : {{Star}}, excludeRules : {{}, {r2}}, waiveRules : {{}, {r1}},
   selectParameters : Selections]

ParameterScopes ==
  [includeControls : UpTo2(ParameterEntries),
   globalExcludeRules : {{}}, globalWaiveRules : {{}, {Star}}]

MCScopes == RuleScopes \cup ParameterScopes

(* Both activities carry the parameter, or only the first. *)
MCPlans ==
  [title : {<<r1, r2>>},
   related : [Activities -> (SUBSET MCControls) \ {{}}],
   value : {[a \in Activities |-> IF a \in S THEN [p \in Params |-> v1] ELSE NoSelection] :
              S \in {{1}, {1, 2}}},
   reviewed : {MCControls}]

(* The plan of an earlier command: r1 skipped, r2 with v2.  (That there is *)
(* none is left to MCScopeTemplate.)                                       *)
MCEarlierPlans ==
  {[title |-> <<r1, r2>>, related |-> <<{}, {2}>>, skipped |-> <<TRUE, FALSE>>,
    waived |-> <<FALSE, FALSE>>, value |-> <<[p \in Params |-> v1], [p \in Params |-> v2]>>,
    reviewed |-> {2}]}
=============================================================================

-------------------------- MODULE MCScopeTemplate --------------------------
(***************************************************************************)
(* The instance of ScopeTemplate for TLC: two rules with one parameter,    *)
(* two controls, and every bundle of two control implementations over      *)
(* three ways to name the framework, six ways to map rules to controls and *)
(* four ways to set the parameter.  A third component uses the remarks of  *)
(* the first for another rule, and declares there the only alternatives.   *)
(***************************************************************************)
EXTENDS ScopeTemplate

CONSTANTS r1, r2, p1, v1, v2, v3, m1, m2

MCControls == {1, 2}
MCTitleOf == <<r1, r2>>
MCDefault == [r \in {r1, r2} |-> [p \in Params |-> IF p = p1 THEN v1 ELSE Unset]]
MCAlternatives == [p \in Params |-> IF p = p1 THEN {v2, v3} ELSE {}]

MCGroups ==
  <<[remarks |-> m1, rule |-> r1,
     parameters |-> [k \in {1} |-> p1], alternatives |-> [k \in {} |-> {}]],
    [remarks |-> m2, rule |-> r2,
     parameters |-> [k \in {0} |-> p1], alternatives |-> [k \in {0} |-> {v2}]],
    [remarks |-> m1, rule |-> r2,
     parameters |-> [k \in {} |-> p1], alternatives |-> [k \in {1} |-> {v3}]]>>

MCRequirements ==
  {[c \in {1} |-> {r1}], [c \in {1} |-> {r1, r2}], [c \in {2} |-> {r2}],
   [c \in {1, 2} |-> IF c = 1 THEN {r1} ELSE {r2}],
   [c \in {1, 2} |-> IF c = 1 THEN {r2} ELSE {r1}],
   [c \in {1, 2} |-> IF c = 1 THEN {r1, r2} ELSE {}]}

MCSetParameters ==
  {[p \in {} |-> <<>>]} \cup
  {[p \in {p1} |-> vs] : vs \in {<<v1>>, <<v2>>, <<v2, v3>>}}

MCImplementations ==
  [framework : {"property", "source", "other"},
   requirements : MCRequirements, setParameters : MCSetParameters]

MCBundles ==
  {b \in {<<i, j>> : i, j \in MCImplementations} :
     \A r \in {r1, r2} : ApplicableControls(b, r) # {}}

(* The scope files and plans that these bundles can give. *)
MCEntries(c) ==
  {[controlId |-> c, includeRules |-> {Star}, excludeRules |-> {}, waiveRules |-> {},
    selectParameters |-> [p \in Params |-> IF p = p1 THEN v ELSE IF v = Unset THEN NotApplicable ELSE Unset]] :
     v \in {Unset, v1, v2, v3}}

MCScopes ==
  [includeControls : {<<>>} \cup {<<e>> : e \in MCEntries(1) \cup MCEntries(2)}
                            \cup {<<e, f>> : e \in MCEntries(1), f \in MCEntries(2)},
   globalExcludeRules : {{}}, globalWaiveRules : {{}}]

MCPlans ==
  UNION {[title : {MCTitleOf}, related : [Activities -> SUBSET S], reviewed : {S},
          value : [Activities -> [Params -> {v1, v2, v3, Unset}]]] : S \in SUBSET MCControls}
=============================================================================

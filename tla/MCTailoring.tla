---------------------------- MODULE MCTailoring ----------------------------
(***************************************************************************)
(* Instances of Tailoring for TLC: every policy over the rules and with up *)
(* to MaxParameters parameters, every datastream.                          *)
(***************************************************************************)
EXTENDS Tailoring, FiniteSets

CONSTANT MaxParameters

MCPolicies ==
  [rules : SUBSET Rules \ {{}},
   parameters : UNION {[1 .. n -> [id : Variables, value : Values]] : n \in 0 .. MaxParameters}]

MCDatastreams ==
  {d \in [rules : SUBSET Rules, default : SUBSET Rules, variables : SUBSET Variables,
          initial : [Variables -> Values], hasProfile : BOOLEAN,
          selected : SUBSET Rules, unselected : SUBSET Rules,
          refined : [Variables -> Values \cup {Unlisted, Unresolved}]] :
     /\ d.default \cup d.selected \cup d.unselected \subseteq d.rules
     /\ d.selected \cap d.unselected = {}}
=============================================================================

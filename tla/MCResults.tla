----------------------------- MODULE MCResults -----------------------------
(***************************************************************************)
(* The instance of Results for TLC: a plan of two activities of one or two *)
(* rules, of which the second may have any steps; two checks, one of each  *)
(* rule, and a third name that no component defines; an ARF file of two    *)
(* rule results, the first of check k1; and at most one observation of     *)
(* another plugin, which may use the title of an openscap rule or the id   *)
(* of a check.                                                             *)
(***************************************************************************)
EXTENDS Results

CONSTANTS r1, r2, c1, c2, k1, k2, k3, t1, t2

MCRuleOf == [k \in {k1, k2} |-> IF k = k1 THEN r1 ELSE r2]

(* Activities of one rule are related to the same controls. *)
MCPlans ==
  {[title |-> <<r1, r2>>, steps |-> <<{k1}, s>>, related |-> <<x, y>>, waived |-> <<v, w>>] :
     s \in {{}, {k2}, {k1, k2}}, x \in {{c1}, {c1, c2}}, y \in {{}, {c2}},
     v \in BOOLEAN, w \in {FALSE}}
  \cup
  {[title |-> <<r1, r2>>, steps |-> <<s, {k2}>>, related |-> <<x, {c2}>>, waived |-> <<v, TRUE>>] :
     s \in {{}, {k1}}, x \in {{c1}, {c2}}, v \in BOOLEAN}
  \cup
  {[title |-> <<r1, r1>>, steps |-> <<{k1}, s>>, related |-> <<x, x>>, waived |-> <<v, v>>] :
     s \in {{}, {k1}, {k2}}, x \in {{c1}, {c1, c2}}, v \in BOOLEAN}
  \cup
  {[title |-> <<r1, r2>>, steps |-> <<{}, {}>>, related |-> <<{c1}, {}>>, waived |-> <<FALSE, FALSE>>]}

MCFirst ==
  {[idref |-> t1, check |-> k1, status |-> s] : s \in {"pass", "fixed", "fail", "notapplicable", "notchecked"}}
  \cup {[idref |-> t1, check |-> Malformed, status |-> "pass"]}

MCSecond ==
  {[idref |-> t2, check |-> k, status |-> s] : k \in {k1, k2}, s \in {"pass", "fail", "informational"}}
  \cup {[idref |-> t2, check |-> k, status |-> "notchecked"] : k \in {k3, NoCheck}}

MCReports == {<<>>} \cup {<<x>> : x \in MCFirst} \cup {<<x, y>> : x \in MCFirst, y \in MCSecond}

MCOtherResults ==
  {<<>>} \cup
  {<<[title |-> t, check |-> k, results |-> s]>> :
     t \in {t2, k2}, k \in {k1, k2}, s \in {{}, {"pass"}, {"pass", "warning"}, {"badSubject"}}}
  \cup {<<[title |-> k1, check |-> k3, results |-> {"badSubject"}]>>}
=============================================================================

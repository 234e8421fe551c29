--------------------------- MODULE Results_proofs ---------------------------
(***************************************************************************)
(* Theorems about Results, for any number of activities, any rules, checks *)
(* and controls, any ARF file and whatever other plugins report: findings  *)
(* rest on evidence, rules with nothing but failures lead to findings,     *)
(* waivers are shown where they were planned, and the scan is refused or   *)
(* crashes for a reason.                                                   *)
(***************************************************************************)
EXTENDS Results, WellFoundedInduction, TLAPS

-----------------------------------------------------------------------------
(* The last of a set of activities. *)

LEMMA First ==
  ASSUME NEW S, S \subseteq Nat, S # {}
  PROVE  \E i \in S : \A j \in S : i <= j
<1>1. PICK i \in S : \A j \in S : <<j, i>> \notin OpToRel(<, Nat)
  BY WFMin, NatLessThanWellFounded
<1>2. \A j \in S : i \in Nat /\ j \in Nat /\ ~ (j < i)
  BY <1>1 DEF OpToRel
<1>3. \A j \in S : i <= j
  BY <1>2
<1> QED BY <1>3

(* Counted from the end, the last position is the first. *)
LEMMA Last ==
  ASSUME NEW n \in Nat, NEW S, S \subseteq 1 .. n, S # {}
  PROVE  Latest(S) \in S /\ \A j \in S : j <= Latest(S)
<1> DEFINE T == {n - i : i \in S}
<1>0. \A i \in S : i \in 1 .. n /\ n - i \in Nat
  OBVIOUS
<1>1. T \subseteq Nat /\ T # {}
  BY <1>0
<1>2. PICK k \in T : \A m \in T : k <= m
  BY <1>1, First
<1>3. PICK i \in S : k = n - i
  BY <1>2
<1>4. \A j \in S : n - i <= n - j
  BY <1>2, <1>3
<1>5. \A j \in S : j <= i
  BY <1>0, <1>4
<1> QED BY <1>5 DEF Latest

(* The controls of a rule are those of each of its activities, and a rule  *)
(* with a control has one.                                                 *)
LEMMA ControlsOfRule ==
  ASSUME plan \in Plans
  PROVE  /\ \A a \in Activities : rulesByControls(plan.title[a]) = plan.related[a]
         /\ \A r, c : c \in rulesByControls(r) =>
              \E a \in Activities : plan.title[a] = r /\ c \in plan.related[a]
<1> DEFINE Titled(r) == {a \in Activities : plan.title[a] = r}
<1>1. ASSUME NEW r, Titled(r) # {}
      PROVE  Latest(Titled(r)) \in Titled(r)
  <2>1. NumActivities \in Nat /\ Titled(r) \subseteq 1 .. NumActivities
    BY NumActivitiesAssumption DEF Activities
  <2> QED BY <1>1, <2>1, Last
<1>2. ASSUME NEW a \in Activities
      PROVE  rulesByControls(plan.title[a]) = plan.related[a]
  <2>1. a \in Titled(plan.title[a])
    BY <1>2
  <2>2. Latest(Titled(plan.title[a])) \in Titled(plan.title[a])
    BY <1>1, <2>1
  <2>3. plan.related[Latest(Titled(plan.title[a]))] = plan.related[a]
    BY <1>2, <2>2, PlansAssumption
  <2> QED BY <2>1, <2>3 DEF rulesByControls
<1>3. ASSUME NEW r, NEW c, c \in rulesByControls(r)
      PROVE  \E a \in Activities : plan.title[a] = r /\ c \in plan.related[a]
  <2>1. Titled(r) # {} /\ c \in plan.related[Latest(Titled(r))]
    BY <1>3 DEF rulesByControls
  <2>2. Latest(Titled(r)) \in Titled(r)
    BY <1>1, <2>1
  <2> QED BY <2>1, <2>2
<1> QED BY <1>2, <1>3

-----------------------------------------------------------------------------
(* Observations. *)

(* What is kept was reported, by openscap for a check of the policy or by  *)
(* another plugin for some check.                                          *)
LEMMA KeptObservations ==
  ASSUME NEW x \in Kept
  PROVE  /\ x \in Ids
         /\ ObservationOf(x).check \in Checks
         /\ \/ \E i \in DOMAIN arf :
                 /\ x = <<"openscap", i>>
                 /\ ObservationOf(x).check = arf[i].check
                 /\ ObservationOf(x).title = arf[i].idref
                 /\ ObservationOf(x).results = {mapResultStatus(arf[i].status)}
                 /\ arf[i].check \in policyChecks
            \/ \E i \in DOMAIN others :
                 x = <<"other", i>> /\ ObservationOf(x) = others[i]
<1>1. x \in Received /\ x \in Ids
  BY DEF Kept, Received
<1>2. CASE \E i \in DOMAIN arf : x = <<"openscap", i>>
  <2>1. PICK i \in DOMAIN arf : x = <<"openscap", i>>
    BY <1>2
  <2>2. x[1] = "openscap" /\ x[2] = i
    BY <2>1
  <2>3. ObservationOf(x) = [title |-> arf[i].idref, check |-> arf[i].check,
                            results |-> {mapResultStatus(arf[i].status)}]
    BY <2>2 DEF ObservationOf
  <2>4. arf[i].check \in policyChecks /\ ObservationOf(x).check \in Checks
    BY <1>1, <2>2, <2>3 DEF Received
  <2> QED BY <1>1, <2>1, <2>3, <2>4
<1>3. CASE \E i \in DOMAIN others : x = <<"other", i>>
  <2>1. PICK i \in DOMAIN others : x = <<"other", i>>
    BY <1>3
  <2>2. x[1] = "other" /\ x[2] = i
    BY <2>1
  <2>3. ObservationOf(x) = others[i]
    BY <2>2 DEF ObservationOf
  <2> QED BY <1>1, <2>1, <2>3 DEF Received
<1> QED BY <1>1, <1>2, <1>3 DEF Ids

LEMMA NothingIsNoId == Nothing \notin Ids /\ Nothing \notin Kept
<1>1. \A i : Nothing # <<"openscap", i>> /\ Nothing # <<"other", i>>
  BY DEF Nothing
<1> QED BY <1>1 DEF Ids, Kept, Received

LEMMA Mapped ==
  \A s : /\ mapResultStatus(s) \in {"pass", "fail", "error"}
         /\ mapResultStatus(s) = "pass" <=> s \in {"pass", "fixed"}
BY DEF mapResultStatus

(* The sole result of a check in the policy is the one observation that    *)
(* the check's steps are associated with.                                  *)
LEMMA SoleObserved ==
  ASSUME NEW a \in Activities, plan.related[a] # {},
         NEW i \in DOMAIN arf, arf[i].check \in plan.steps[a] \cap OpenscapChecks, Sole(i)
  PROVE  createOrGet(arf[i].check) = {<<"openscap", i>>}
<1> DEFINE x == <<"openscap", i>>
<1>1. x[1] = "openscap" /\ x[2] = i /\ x \in Ids
  BY DEF Ids
<1>2. ObservationOf(x) = [title |-> arf[i].idref, check |-> arf[i].check,
                          results |-> {mapResultStatus(arf[i].status)}]
  BY <1>1 DEF ObservationOf
<1>3. arf[i].check \in policyChecks /\ arf[i].check \in Checks
  BY ChecksAssumption DEF policyChecks
<1>4. x \in Received
  BY <1>1, <1>2, <1>3 DEF Received
<1>5. ASSUME NEW y \in Received, ObservationOf(y).title = arf[i].idref
      PROVE  y = x
  <2>1. CASE \E j \in DOMAIN arf : y = <<"openscap", j>>
    <3>1. PICK j \in DOMAIN arf : y = <<"openscap", j>>
      BY <2>1
    <3>2. y[1] = "openscap" /\ y[2] = j
      BY <3>1
    <3>3. arf[j].idref = arf[i].idref
      BY <1>5, <3>2 DEF ObservationOf
    <3> QED BY <3>1, <3>3 DEF Sole
  <2>2. CASE \E j \in DOMAIN others : y = <<"other", j>>
    <3>1. PICK j \in DOMAIN others : y = <<"other", j>>
      BY <2>2
    <3>2. y[1] = "other" /\ y[2] = j
      BY <3>1
    <3>3. others[j].title = arf[i].idref
      BY <1>5, <3>2 DEF ObservationOf
    <3> QED BY <3>1, <3>3 DEF Sole
  <2> QED BY <1>5, <2>1, <2>2 DEF Received, Ids
<1>6. x \in Kept
  BY <1>2, <1>4, <1>5 DEF Kept
<1>7. ASSUME NEW y \in Kept, ObservationOf(y).check = arf[i].check
      PROVE  y = x
  <2>1. CASE \E j \in DOMAIN arf : y = <<"openscap", j>> /\ ObservationOf(y).check = arf[j].check
    BY <1>7, <2>1 DEF Sole, RuleResultsFor
  <2>2. CASE \E j \in DOMAIN others : y = <<"other", j>> /\ ObservationOf(y) = others[j]
    BY <1>7, <2>2 DEF Sole, OthersFor
  <2> QED BY <1>7, <2>1, <2>2, KeptObservations
<1> DEFINE checked == {y \in Kept : ObservationOf(y).check = arf[i].check}
<1>8. checked = {x}
  BY <1>2, <1>6, <1>7
<1> QED BY <1>8 DEF createOrGet

(* Of all that is received under a title, what comes last is kept.         *)
LEMMA SomethingKept ==
  ASSUME arf \in Reports, others \in OtherResults, latest \in {"openscap", "other"},
         NEW z \in Received
  PROVE  \E x \in Kept : ObservationOf(x).title = ObservationOf(z).title
<1> DEFINE T == {y \in Received : ObservationOf(y).title = ObservationOf(z).title}
           p == IF \E y \in T : y[1] = latest THEN latest ELSE z[1]
           S == {i \in Nat : <<p, i>> \in T}
<1>1. PICK m \in Nat, n \in Nat : DOMAIN arf = 1 .. m /\ DOMAIN others = 1 .. n
  <2>1. arf \in Seq(RuleResult) /\ others \in Seq(Observation)
    BY ReportsAssumption, OtherResultsAssumption
  <2> QED BY <2>1
<1>2. \A y \in T : /\ y = <<y[1], y[2]>>
                   /\ \/ y[1] = "openscap" /\ y[2] \in 1 .. m
                      \/ y[1] = "other" /\ y[2] \in 1 .. n
  BY <1>1 DEF Received, Ids
<1>3. z \in T
  OBVIOUS
<1>4. S # {}
  <2>1. PICK y \in T : y[1] = p
    BY <1>3
  <2>2. y[2] \in Nat /\ y = <<p, y[2]>>
    BY <1>2, <2>1
  <2> QED BY <2>2
<1>5. S \subseteq 1 .. m \/ S \subseteq 1 .. n
  <2>1. ASSUME NEW i \in S
        PROVE  (p = "openscap" /\ i \in 1 .. m) \/ (p = "other" /\ i \in 1 .. n)
    <3> DEFINE y == <<p, i>>
    <3>1. y \in T
      OBVIOUS
    <3>2. y[1] = p /\ y[2] = i
      OBVIOUS
    <3> HIDE DEF y, T, p
    <3> QED BY <1>2, <3>1, <3>2
  <2> HIDE DEF S, p
  <2>2. CASE p = "openscap"
    BY <2>1, <2>2
  <2>3. CASE p # "openscap"
    BY <2>1, <2>3
  <2> QED BY <2>2, <2>3
<1> DEFINE x == <<p, Latest(S)>>
<1>6. Latest(S) \in S /\ \A j \in S : j <= Latest(S)
  BY <1>4, <1>5, Last
<1>7. x \in T /\ x[1] = p /\ x[2] = Latest(S) /\ Latest(S) \in Nat
  BY <1>6
<1>8. ASSUME NEW y \in T, y # x PROVE After(x, y)
  <2>1. CASE y[1] = p
    <3>1. y = <<p, y[2]>> /\ y[2] \in Nat
      BY <1>2, <2>1
    <3>2. y[2] \in S /\ y[2] # Latest(S)
      BY <1>8, <3>1
    <3> HIDE DEF S
    <3>3. Latest(S) > y[2]
      BY <1>6, <1>7, <3>1, <3>2
    <3> QED BY <1>7, <2>1, <3>3 DEF After
  <2>2. CASE y[1] # p
    <3>1. p = latest
      BY <1>2, <1>3, <2>2
    <3> QED BY <1>7, <2>2, <3>1 DEF After
  <2> QED BY <2>1, <2>2
<1>9. x \in Received /\ ObservationOf(x).title = ObservationOf(z).title
  BY <1>7
<1>10. x \in Kept
  <2> HIDE DEF x
  <2> QED BY <1>8, <1>9 DEF Kept
<1> QED BY <1>9, <1>10

(* For a check of which only failures are reported, a step gets one.       *)
LEMMA FailureObserved ==
  ASSUME arf \in Reports, others \in OtherResults, latest \in {"openscap", "other"},
         plan \in Plans, NEW a \in Activities, plan.related[a] # {},
         NEW k \in plan.steps[a], OnlyFailuresFor(k), NEW x \in createOrGet(k)
  PROVE  Failed(x) /\ ObservationOf(x).check = k
<1>1. k \in Checks
  BY PlansAssumption DEF Plan
<1>2. \E z \in Received : ObservationOf(z).check = k
  <2>1. ASSUME k \in OpenscapChecks, NEW i \in RuleResultsFor(k)
        PROVE  <<"openscap", i>> \in Received /\ ObservationOf(<<"openscap", i>>).check = k
    <3> DEFINE z == <<"openscap", i>>
    <3>1. z[1] = "openscap" /\ z[2] = i /\ z \in Ids /\ arf[i].check = k
      BY DEF RuleResultsFor, Ids
    <3>2. ObservationOf(z).check = k
      BY <3>1 DEF ObservationOf
    <3>3. k \in policyChecks
      BY <2>1 DEF policyChecks
    <3> QED BY <1>1, <3>1, <3>2, <3>3 DEF Received
  <2>2. ASSUME NEW i \in OthersFor(k)
        PROVE  <<"other", i>> \in Received /\ ObservationOf(<<"other", i>>).check = k
    <3> DEFINE z == <<"other", i>>
    <3>1. z[1] = "other" /\ z[2] = i /\ z \in Ids /\ others[i].check = k
      BY DEF OthersFor, Ids
    <3>2. ObservationOf(z).check = k
      BY <3>1 DEF ObservationOf
    <3> QED BY <1>1, <3>1, <3>2 DEF Received
  <2> QED BY <2>1, <2>2 DEF OnlyFailuresFor
<1>3. PICK z \in Received : ObservationOf(z).check = k
  BY <1>2
<1>4. PICK y \in Kept : ObservationOf(y).title = ObservationOf(z).title
  BY <1>3, SomethingKept
<1>5. \A u \in Received :
        \/ \E i \in DOMAIN arf :
             /\ ObservationOf(u).check = arf[i].check
             /\ ObservationOf(u).title = arf[i].idref
             /\ ObservationOf(u).results = {mapResultStatus(arf[i].status)}
        \/ \E i \in DOMAIN others : ObservationOf(u) = others[i]
  BY DEF Received, Ids, ObservationOf
<1>6. ObservationOf(z).title \in TitlesFor(k)
  BY <1>3, <1>5 DEF TitlesFor, RuleResultsFor, OthersFor
<1>7. ObservationOf(y).check = k
  BY <1>4, <1>5, <1>6 DEF Kept, OnlyFailuresFor
<1>8. x \in Kept /\ ObservationOf(x).check = k
  BY <1>4, <1>7 DEF createOrGet
<1>9. ObservationOf(x).results \ {"pass"} # {}
  <2>1. CASE \E i \in DOMAIN arf :
               /\ ObservationOf(x).check = arf[i].check
               /\ ObservationOf(x).results = {mapResultStatus(arf[i].status)}
    <3>1. PICK i \in DOMAIN arf :
               /\ ObservationOf(x).check = arf[i].check
               /\ ObservationOf(x).results = {mapResultStatus(arf[i].status)}
      BY <2>1
    <3>2. Violates(i)
      BY <1>8, <3>1 DEF OnlyFailuresFor, RuleResultsFor
    <3> QED BY <3>1, <3>2, Mapped DEF Violates
  <2>2. CASE \E i \in DOMAIN others : ObservationOf(x) = others[i]
    BY <1>8, <2>2 DEF OnlyFailuresFor, OthersFor
  <2> QED BY <1>5, <1>8, <2>1, <2>2 DEF Kept
<1> QED BY <1>8, <1>9, NothingIsNoId DEF Failed

(* A step gets what is kept, for its check or of its title, or nothing. *)
LEMMA Gets ==
  ASSUME NEW k, NEW x \in createOrGet(k)
  PROVE  \/ x = Nothing
         \/ x \in Kept /\ k \in {ObservationOf(x).check, ObservationOf(x).title}
BY DEF createOrGet

-----------------------------------------------------------------------------
(* The inductive invariant: each activity that has been associated has an  *)
(* observation for each step, which createOrGet gives; what is marked is   *)
(* what waived activities got; and a scan ends for the reason stated.      *)

Associated ==
  /\ \A t \in associated :
       /\ t[1] \in Activities /\ t[1] < next
       /\ t[2] \in plan.steps[t[1]]
       /\ t[3] \in createOrGet(t[2])
  /\ \A a \in Activities : a < next =>
       \A k \in plan.steps[a] : \E t \in associated : t[1] = a /\ t[2] = k

Marked ==
  /\ \A x \in marked : \E t \in associated : plan.waived[t[1]] /\ t[3] = x
  /\ \A t \in associated : plan.waived[t[1]] => t[3] \in marked

Filed ==
  /\ findings \in {NoFindings, [c \in Controls |-> findingsFor(c)]}
  /\ stage = "reported" =>
       next = NumActivities + 1 /\ findings = [c \in Controls |-> findingsFor(c)]
  /\ stage \in {"scanning", "received", "associating"} => findings = NoFindings

Inv ==
  /\ plan \in Plans /\ arf \in Reports /\ others \in OtherResults
  /\ TypeOK
  /\ Associated
  /\ Marked
  /\ Filed
  /\ RefusedOnlyInScope
  /\ CrashesOnlyWithoutResults

(* Nothing derived from the input changes. *)
LEMMA InputStays ==
  ASSUME UNCHANGED <<input, latest>>
  PROVE  /\ \A k : createOrGet(k)' = createOrGet(k)
         /\ \A x : ObservationOf(x)' = ObservationOf(x)
         /\ \A r : rulesByControls(r)' = rulesByControls(r)
         /\ Ids' = Ids
         /\ \A i : Sole(i)' = Sole(i)
         /\ \A k : RuleResultsFor(k)' = RuleResultsFor(k)
<1>0. plan' = plan /\ arf' = arf /\ others' = others /\ latest' = latest
  BY DEF input
<1>1. \A x : ObservationOf(x)' = ObservationOf(x)
  BY <1>0 DEF ObservationOf
<1>2. Ids' = Ids
  BY <1>0 DEF Ids
<1>3. policyChecks' = policyChecks
  BY <1>0 DEF policyChecks
<1>4. Received' = Received
  BY <1>1, <1>2, <1>3 DEF Received
<1>5. \A x, y : After(x, y)' = After(x, y)
  BY <1>0 DEF After
<1>6. Kept' = Kept
  BY <1>1, <1>4, <1>5 DEF Kept
<1>7. \A k : createOrGet(k)' = createOrGet(k)
  BY <1>1, <1>6 DEF createOrGet
<1>8. \A r : rulesByControls(r)' = rulesByControls(r)
  BY <1>0 DEF rulesByControls
<1>9. /\ \A k : RuleResultsFor(k)' = RuleResultsFor(k)
      /\ \A k : OthersFor(k)' = OthersFor(k)
  BY <1>0 DEF RuleResultsFor, OthersFor
<1>10. \A i : Sole(i)' = Sole(i)
  BY <1>0, <1>9 DEF Sole
<1> QED BY <1>1, <1>2, <1>7, <1>8, <1>9, <1>10

(* An ARF file lists rule results. *)
LEMMA ReportShape ==
  ASSUME arf \in Reports, NEW i \in DOMAIN arf
  PROVE  arf[i] \in RuleResult
<1>1. arf \in Seq(RuleResult)
  BY ReportsAssumption
<1> QED BY <1>1

(* What openscap refuses, it refuses for a rule result that names no check *)
(* or one of the policy.                                                   *)
LEMMA UnmappableInScope ==
  ASSUME arf \in Reports, Unmappable
  PROVE  \/ \E i \in DOMAIN arf : arf[i].check = Malformed
         \/ \E i \in DOMAIN arf, a \in Activities :
              /\ plan.related[a] # {} /\ arf[i].check \in plan.steps[a]
              /\ arf[i].status \in {"notchecked", "informational"}
<1>1. SUFFICES ASSUME NEW i \in DOMAIN arf,
                      arf[i].check \in policyChecks, arf[i].status \notin MappedStatuses
               PROVE  \E a \in Activities :
                        /\ plan.related[a] # {} /\ arf[i].check \in plan.steps[a]
                        /\ arf[i].status \in {"notchecked", "informational"}
  BY DEF Unmappable
<1>2. arf[i].status \in {"notchecked", "informational"}
  BY <1>1, ReportShape DEF RuleResult, MappedStatuses
<1>3. \E a \in Activities : plan.related[a] # {} /\ arf[i].check \in plan.steps[a]
  BY <1>1 DEF policyChecks
<1> QED BY <1>2, <1>3

(* The report refuses only subjects of other plugins. *)
LEMMA BadSubjectOfOther ==
  ASSUME NEW x \in Received, "badSubject" \in ObservationOf(x).results
  PROVE  \E i \in DOMAIN others :
           others[i].check \in Checks /\ "badSubject" \in others[i].results
<1>1. x \in Ids /\ ObservationOf(x).check \in Checks
  BY DEF Received
<1>2. CASE \E i \in DOMAIN arf : x = <<"openscap", i>>
  <2>1. PICK i \in DOMAIN arf : x = <<"openscap", i>>
    BY <1>2
  <2>2. x[1] = "openscap" /\ x[2] = i
    BY <2>1
  <2>3. ObservationOf(x).results = {mapResultStatus(arf[i].status)}
    BY <2>2 DEF ObservationOf
  <2> QED BY <2>3, Mapped
<1>3. CASE \E i \in DOMAIN others : x = <<"other", i>>
  <2>1. PICK i \in DOMAIN others : x = <<"other", i>>
    BY <1>3
  <2>2. x[1] = "other" /\ x[2] = i
    BY <2>1
  <2>3. ObservationOf(x) = others[i]
    BY <2>2 DEF ObservationOf
  <2> QED BY <1>1, <2>3
<1> QED BY <1>1, <1>2, <1>3 DEF Ids

(* A step of a waived activity without subjects to mark has no sole result *)
(* of openscap.                                                            *)
LEMMA UnmarkedIsUnresolved ==
  ASSUME plan \in Plans, NEW a \in Activities, plan.waived[a], NEW k \in plan.steps[a],
         NEW x \in createOrGet(k), ~ HasSubjects(x)
  PROVE  k \notin OpenscapChecks \/ \A i \in RuleResultsFor(k) : ~ Sole(i)
<1>1. SUFFICES ASSUME k \in OpenscapChecks, NEW i \in RuleResultsFor(k), Sole(i)
               PROVE  FALSE
  OBVIOUS
<1>2. i \in DOMAIN arf /\ arf[i].check = k
  BY DEF RuleResultsFor
<1>3. plan.related[a] # {}
  BY PlansAssumption
<1>4. createOrGet(k) = {<<"openscap", i>>}
  BY <1>1, <1>2, <1>3, SoleObserved
<1>5. x = <<"openscap", i>> /\ x[1] = "openscap"
  BY <1>4
<1>6. ObservationOf(x).results # {}
  BY <1>5 DEF ObservationOf
<1>7. x # Nothing
  BY <1>5 DEF Nothing
<1> QED BY <1>6, <1>7 DEF HasSubjects

LEMMA InitInv == Init => Inv
<1> SUFFICES ASSUME Init PROVE Inv
  OBVIOUS
<1>1. plan \in Plans /\ arf \in Reports /\ others \in OtherResults /\ plan \in Plan
  BY PlansAssumption DEF Init
<1>2. TypeOK
  BY <1>1, NumActivitiesAssumption DEF Init, TypeOK, NoFindings
<1>3. Associated
  BY DEF Init, Associated, Activities
<1> QED BY <1>1, <1>2, <1>3
    DEF Init, Inv, Marked, Filed, RefusedOnlyInScope, CrashesOnlyWithoutResults

(* Actions that leave the associations alone keep what concerns them. *)
LEMMA AssociationsStay ==
  ASSUME Inv, UNCHANGED <<input, latest, next, associated, marked>>
  PROVE  /\ plan' \in Plans /\ arf' \in Reports /\ others' \in OtherResults
         /\ Associated' /\ Marked'
         /\ plan' \in Plan /\ latest' \in {"openscap", "other"}
         /\ next' \in 1 .. NumActivities + 1
         /\ associated' \in SUBSET (Activities \X Checks \X (Ids \cup {Nothing}))'
         /\ marked' \in (SUBSET Ids)'
<1>1. plan' = plan /\ arf' = arf /\ others' = others /\ latest' = latest
      /\ next' = next /\ associated' = associated /\ marked' = marked
  BY DEF input
<1>2. Ids' = Ids /\ \A k : createOrGet(k)' = createOrGet(k)
  BY InputStays
<1>3. Associated'
  BY <1>1, <1>2 DEF Inv, Associated, Activities
<1>4. Marked'
  BY <1>1 DEF Inv, Marked
<1>5. Nothing' = Nothing /\ Activities' = Activities
  BY DEF Nothing, Activities
<1> QED BY <1>1, <1>2, <1>3, <1>4, <1>5 DEF Inv, TypeOK

(* A finding lists observations. *)
LEMMA FindingsType ==
  ASSUME TypeOK
  PROVE  [c \in Controls |-> findingsFor(c)] \in [Controls -> SUBSET Ids]
<1>1. ASSUME NEW c \in Controls, NEW x \in findingsFor(c)
      PROVE  x \in Ids
  <2>1. PICK t \in associated : x = t[3]
    BY <1>1 DEF findingsFor
  <2>2. t \in Activities \X Checks \X (Ids \cup {Nothing})
    BY DEF TypeOK
  <2>3. t[3] \in Ids \cup {Nothing}
    BY <2>2
  <2>4. x # Nothing
    BY <1>1 DEF findingsFor, Failed
  <2> QED BY <2>1, <2>3, <2>4
<1> QED BY <1>1

LEMMA StepGetResults == Inv /\ GetResults => Inv'
<1> SUFFICES ASSUME Inv, GetResults PROVE Inv'
  OBVIOUS
<1>1. UNCHANGED <<input, latest, next, associated, marked, findings>> /\ stage = "scanning"
  BY DEF GetResults
<1>2. plan' = plan /\ arf' = arf /\ others' = others /\ findings' = NoFindings /\ findings = NoFindings
  BY <1>1 DEF input, Inv, Filed
<1>3. TypeOK'
  BY <1>1, <1>2, AssociationsStay, InputStays DEF GetResults, TypeOK, NoFindings
<1>4. Filed'
  BY <1>1, <1>2 DEF GetResults, Filed, NoFindings
<1>5. RefusedOnlyInScope'
  <2>1. CASE stage' # "failed"
    BY <2>1 DEF RefusedOnlyInScope
  <2>2. CASE Unmappable
    BY <1>2, <2>2, UnmappableInScope DEF Inv, RefusedOnlyInScope, Activities
  <2> QED BY <2>1, <2>2 DEF GetResults
<1>6. CrashesOnlyWithoutResults'
  BY DEF GetResults, CrashesOnlyWithoutResults
<1> QED BY <1>1, <1>3, <1>4, <1>5, <1>6, AssociationsStay DEF Inv

LEMMA StepToOscalObservations == Inv /\ toOscalObservations => Inv'
<1> SUFFICES ASSUME Inv, toOscalObservations PROVE Inv'
  OBVIOUS
<1>1. UNCHANGED <<input, latest, next, associated, marked, findings>> /\ stage = "received"
  BY DEF toOscalObservations
<1>2. plan' = plan /\ arf' = arf /\ others' = others /\ findings' = NoFindings /\ findings = NoFindings
  BY <1>1 DEF input, Inv, Filed
<1>3. TypeOK'
  BY <1>1, <1>2, AssociationsStay, InputStays DEF toOscalObservations, TypeOK, NoFindings
<1>4. Filed'
  BY <1>1, <1>2 DEF toOscalObservations, Filed, NoFindings
<1>5. RefusedOnlyInScope'
  <2>1. CASE stage' # "failed"
    BY <2>1 DEF RefusedOnlyInScope
  <2>2. CASE \E x \in Received : "badSubject" \in ObservationOf(x).results
    BY <1>2, <2>2, BadSubjectOfOther DEF RefusedOnlyInScope
  <2> QED BY <2>1, <2>2 DEF toOscalObservations
<1>6. CrashesOnlyWithoutResults'
  BY DEF toOscalObservations, CrashesOnlyWithoutResults
<1> QED BY <1>1, <1>3, <1>4, <1>5, <1>6, AssociationsStay DEF Inv

LEMMA StepPanicOnWaived == Inv /\ PanicOnWaived => Inv'
<1> SUFFICES ASSUME Inv, PanicOnWaived PROVE Inv'
  OBVIOUS
<1>1. UNCHANGED <<input, latest, next, associated, marked, findings>>
      /\ stage = "associating" /\ stage' = "panicked" /\ next \in Activities /\ plan.waived[next]
  BY DEF PanicOnWaived
<1>2. plan' = plan /\ arf' = arf /\ others' = others /\ findings' = NoFindings
  BY <1>1 DEF input, Inv, Filed
<1>3. TypeOK'
  BY <1>1, <1>2, AssociationsStay, InputStays DEF TypeOK, NoFindings
<1>4. Filed'
  BY <1>1, <1>2 DEF Filed, NoFindings
<1>5. CrashesOnlyWithoutResults'
  <2>1. PICK pick \in Associations, k \in plan.steps[next] : ~ HasSubjects(pick[k])
    BY DEF PanicOnWaived
  <2>2. pick[k] \in createOrGet(k)
    BY <2>1 DEF Associations
  <2>3. k \notin OpenscapChecks \/ \A i \in RuleResultsFor(k) : ~ Sole(i)
    BY <1>1, <2>1, <2>2, UnmarkedIsUnresolved DEF Inv
  <2>4. \E a \in Activities : plan.waived[a] /\ \E j \in plan.steps[a] :
          j \notin OpenscapChecks \/ \A i \in RuleResultsFor(j) : ~ Sole(i)
    BY <1>1, <2>1, <2>3
  <2> QED BY <1>1, <1>2, <2>4, InputStays DEF CrashesOnlyWithoutResults, Activities
<1>6. RefusedOnlyInScope'
  BY <1>1 DEF RefusedOnlyInScope
<1> QED BY <1>1, <1>3, <1>4, <1>5, <1>6, AssociationsStay DEF Inv

LEMMA StepPanicWithoutSteps == Inv /\ PanicWithoutSteps => Inv'
<1> SUFFICES ASSUME Inv, PanicWithoutSteps PROVE Inv'
  OBVIOUS
<1>1. UNCHANGED <<input, latest, next, associated, marked, findings>>
      /\ stage = "associating" /\ stage' = "panicked" /\ next \notin Activities /\ associated = {}
  BY DEF PanicWithoutSteps
<1>2. plan' = plan /\ arf' = arf /\ others' = others /\ findings' = NoFindings
  BY <1>1 DEF input, Inv, Filed
<1>3. TypeOK'
  BY <1>1, <1>2, AssociationsStay, InputStays DEF TypeOK, NoFindings
<1>4. Filed'
  BY <1>1, <1>2 DEF Filed, NoFindings
<1>5. next = NumActivities + 1
  BY <1>1, NumActivitiesAssumption DEF Inv, TypeOK, Activities
<1>6. \A a \in Activities : a < next
  BY <1>5, NumActivitiesAssumption DEF Activities
<1>7. \A a \in Activities : plan.steps[a] = {}
  BY <1>1, <1>6 DEF Inv, Associated
<1>8. CrashesOnlyWithoutResults'
  BY <1>2, <1>7 DEF CrashesOnlyWithoutResults, Activities
<1>9. RefusedOnlyInScope'
  BY <1>1 DEF RefusedOnlyInScope
<1> QED BY <1>1, <1>3, <1>4, <1>8, <1>9, AssociationsStay DEF Inv

LEMMA StepGenerateFindings == Inv /\ generateFindings => Inv'
<1> SUFFICES ASSUME Inv, generateFindings PROVE Inv'
  OBVIOUS
<1>1. UNCHANGED <<input, latest, next, associated, marked>> /\ stage' = "reported"
      /\ next \notin Activities /\ findings' = [c \in Controls |-> findingsFor(c)]
  BY DEF generateFindings
<1>2. next = NumActivities + 1
  BY <1>1, NumActivitiesAssumption DEF Inv, TypeOK, Activities
<1>3. \A c : findingsFor(c)' = findingsFor(c)
  <2>1. /\ associated' = associated
        /\ \A x : ObservationOf(x)' = ObservationOf(x)
        /\ \A r : rulesByControls(r)' = rulesByControls(r)
    BY <1>1, InputStays
  <2> QED BY <2>1 DEF findingsFor, Failed, Nothing
<1>4. TypeOK'
  BY <1>1, AssociationsStay, FindingsType, InputStays DEF Inv, TypeOK
<1>5. Filed'
  BY <1>1, <1>2, <1>3 DEF Filed
<1>6. RefusedOnlyInScope' /\ CrashesOnlyWithoutResults'
  BY <1>1 DEF RefusedOnlyInScope, CrashesOnlyWithoutResults
<1> QED BY <1>1, <1>4, <1>5, <1>6, AssociationsStay DEF Inv

(* What an activity's steps get, and what of it a waived activity marks. *)
LEMMA StepAssociateActivity == Inv /\ AssociateActivity => Inv'
<1> SUFFICES ASSUME Inv, AssociateActivity PROVE Inv'
  OBVIOUS
<1>1. UNCHANGED <<input, latest, stage, findings>> /\ stage = "associating" /\ next \in Activities
  BY DEF AssociateActivity
<1>2. PICK pick \in Associations :
        /\ plan.waived[next] => \A k \in plan.steps[next] : HasSubjects(pick[k])
        /\ associated' = associated \cup {<<next, k, pick[k]>> : k \in plan.steps[next]}
        /\ next' = next + 1
        /\ marked' = IF plan.waived[next] THEN marked \cup {pick[k] : k \in plan.steps[next]}
                     ELSE marked
  BY DEF AssociateActivity, Associate
<1>3. plan' = plan /\ arf' = arf /\ others' = others /\ latest' = latest /\ Ids' = Ids
      /\ findings' = NoFindings /\ \A k : createOrGet(k)' = createOrGet(k)
  BY <1>1, InputStays DEF input, Inv, Filed
<1>4. \A k \in plan.steps[next] : pick[k] \in createOrGet(k)
  BY DEF Associations
<1>5. plan.steps[next] \subseteq Checks
  BY <1>1 DEF Inv, TypeOK, Plan
<1>6. \A k \in plan.steps[next] : pick[k] \in Ids \cup {Nothing}
  BY <1>4, Gets, KeptObservations
<1>7. plan.waived[next] => \A k \in plan.steps[next] : pick[k] \in Ids
  BY <1>2, <1>6 DEF HasSubjects
<1>8. next \in Nat /\ next' \in 1 .. NumActivities + 1
  BY <1>1, <1>2, NumActivitiesAssumption DEF Activities
<1>9. associated' \in SUBSET (Activities \X Checks \X (Ids \cup {Nothing}))
  BY <1>1, <1>2, <1>5, <1>6 DEF Inv, TypeOK
<1>10. marked' \in SUBSET Ids
  BY <1>2, <1>7 DEF Inv, TypeOK
<1>11. TypeOK'
  BY <1>1, <1>3, <1>8, <1>9, <1>10 DEF Inv, TypeOK, NoFindings, Activities, Nothing
<1>12. Associated'
  <2>1. ASSUME NEW t \in associated'
        PROVE  /\ t[1] \in Activities /\ t[1] < next'
               /\ t[2] \in plan.steps[t[1]]
               /\ t[3] \in createOrGet(t[2])
    <3>1. CASE t \in associated
      <4>1. t[1] \in Activities /\ t[1] < next /\ t[2] \in plan.steps[t[1]]
            /\ t[3] \in createOrGet(t[2])
        BY <3>1 DEF Inv, Associated
      <4>2. t[1] < next'
        BY <1>2, <1>8, <4>1, NumActivitiesAssumption DEF Activities
      <4> QED BY <4>1, <4>2
    <3>2. CASE \E k \in plan.steps[next] : t = <<next, k, pick[k]>>
      <4>1. PICK k \in plan.steps[next] : t = <<next, k, pick[k]>>
        BY <3>2
      <4>2. t[1] = next /\ t[2] = k /\ t[3] = pick[k]
        BY <4>1
      <4>3. next < next'
        BY <1>2, <1>8
      <4> QED BY <1>1, <1>4, <4>1, <4>2, <4>3
    <3> QED BY <1>2, <2>1, <3>1, <3>2
  <2>2. ASSUME NEW a \in Activities, a < next', NEW k \in plan.steps[a]
        PROVE  \E t \in associated' : t[1] = a /\ t[2] = k
    <3>1. CASE a < next
      <4>1. PICK t \in associated : t[1] = a /\ t[2] = k
        BY <3>1, <2>2 DEF Inv, Associated
      <4> QED BY <1>2, <4>1
    <3>2. CASE a = next
      <4>1. <<next, k, pick[k]>> \in associated'
        BY <1>2, <2>2, <3>2
      <4>2. <<next, k, pick[k]>>[1] = a /\ <<next, k, pick[k]>>[2] = k
        BY <3>2
      <4> QED BY <4>1, <4>2
    <3>3. a < next \/ a = next
      BY <1>2, <1>8, <2>2, NumActivitiesAssumption DEF Activities
    <3> QED BY <3>1, <3>2, <3>3
  <2> QED BY <1>3, <2>1, <2>2 DEF Associated, Activities
<1>13. Marked'
  <2>1. ASSUME NEW x \in marked'
        PROVE  \E t \in associated' : plan.waived[t[1]] /\ t[3] = x
    <3>1. CASE x \in marked
      <4>1. PICK t \in associated : plan.waived[t[1]] /\ t[3] = x
        BY <3>1 DEF Inv, Marked
      <4> QED BY <1>2, <4>1
    <3>2. CASE x \notin marked
      <4>1. plan.waived[next]
        BY <1>2, <2>1, <3>2
      <4>2. PICK k \in plan.steps[next] : x = pick[k]
        BY <1>2, <2>1, <3>2, <4>1
      <4>3. <<next, k, pick[k]>> \in associated'
        BY <1>2
      <4>4. <<next, k, pick[k]>>[1] = next /\ <<next, k, pick[k]>>[3] = x
        BY <4>2
      <4> QED BY <4>1, <4>3, <4>4
    <3> QED BY <3>1, <3>2
  <2>2. ASSUME NEW t \in associated', plan.waived[t[1]]
        PROVE  t[3] \in marked'
    <3>1. CASE t \in associated
      BY <1>2, <2>2, <3>1 DEF Inv, Marked
    <3>2. CASE \E k \in plan.steps[next] : t = <<next, k, pick[k]>>
      <4>1. PICK k \in plan.steps[next] : t = <<next, k, pick[k]>>
        BY <3>2
      <4>2. t[1] = next /\ t[3] = pick[k]
        BY <4>1
      <4> QED BY <1>2, <2>2, <4>1, <4>2
    <3> QED BY <1>2, <2>2, <3>1, <3>2
  <2> QED BY <1>3, <2>1, <2>2 DEF Marked
<1>14. Filed'
  BY <1>1, <1>3 DEF Inv, Filed, NoFindings
<1>15. RefusedOnlyInScope' /\ CrashesOnlyWithoutResults'
  BY <1>1 DEF RefusedOnlyInScope, CrashesOnlyWithoutResults
<1> QED BY <1>3, <1>11, <1>12, <1>13, <1>14, <1>15 DEF Inv

LEMMA StepStutter == Inv /\ UNCHANGED vars => Inv'
<1> SUFFICES ASSUME Inv, UNCHANGED vars PROVE Inv'
  OBVIOUS
<1>1. UNCHANGED <<input, latest, next, associated, marked, findings>> /\ stage' = stage
      /\ plan' = plan /\ arf' = arf /\ others' = others /\ findings' = findings
  BY DEF vars, input
<1>2. \A c : findingsFor(c)' = findingsFor(c)
  <2>1. /\ associated' = associated
        /\ \A x : ObservationOf(x)' = ObservationOf(x)
        /\ \A r : rulesByControls(r)' = rulesByControls(r)
    BY <1>1, InputStays
  <2> QED BY <2>1 DEF findingsFor, Failed, Nothing
<1>3. TypeOK'
  BY <1>1, AssociationsStay, InputStays DEF Inv, TypeOK
<1>4. Filed'
  BY <1>1, <1>2 DEF Inv, Filed, NoFindings
<1>5. RefusedOnlyInScope'
  BY <1>1 DEF Inv, RefusedOnlyInScope, Activities
<1>6. CrashesOnlyWithoutResults'
  BY <1>1, InputStays DEF Inv, CrashesOnlyWithoutResults, Activities
<1> QED BY <1>1, <1>3, <1>4, <1>5, <1>6, AssociationsStay DEF Inv

(* The invariant holds throughout a scan (report.go:36-165). *)
THEOREM Invariance == Spec => []Inv
<1>1. Inv /\ [Next]_vars => Inv'
  BY StepGetResults, StepToOscalObservations, StepAssociateActivity, StepPanicOnWaived,
     StepPanicWithoutSteps, StepGenerateFindings, StepStutter
  DEF Next, Done
<1> QED BY InitInv, <1>1, PTL DEF Spec

-----------------------------------------------------------------------------
(* What follows from the invariant, one theorem per property. *)

(* The associations and the marks are of the plan's activities and of what *)
(* was received (results.go:127-170).                                      *)
THEOREM TypeCorrect == Spec => []TypeOK
<1>1. Inv => TypeOK
  BY DEF Inv
<1> QED BY <1>1, Invariance, PTL

LEMMA InvJustified == Inv => FindingsJustified
<1> SUFFICES ASSUME Inv, NEW c \in Controls, findings[c] # {}
             PROVE  \E a \in Activities, k \in Checks :
                      /\ c \in plan.related[a]
                      /\ RuleOf[k] = plan.title[a]
                      /\ \/ \E i \in RuleResultsFor(k) : Violates(i)
                         \/ \E i \in OthersFor(k) : others[i].results \ {"pass"} # {}
  BY DEF FindingsJustified
<1>1. findings[c] = findingsFor(c)
  BY DEF Inv, Filed, NoFindings
<1>2. PICK t \in associated :
        Failed(t[3]) /\ c \in rulesByControls(RuleOf[ObservationOf(t[3]).check])
  BY <1>1 DEF findingsFor
<1> DEFINE x == t[3]
<1> DEFINE k == ObservationOf(x).check
<1>3. x \in Kept
  <2>1. x \in createOrGet(t[2]) /\ x # Nothing
    BY <1>2 DEF Inv, Associated, Failed
  <2> QED BY <2>1, Gets
<1>4. ObservationOf(x).check \in Checks
  BY <1>3, KeptObservations
<1>5. \E a \in Activities : plan.title[a] = RuleOf[k] /\ c \in plan.related[a]
  BY <1>2, ControlsOfRule DEF Inv
<1>6. (\E i \in RuleResultsFor(k) : Violates(i))
      \/ \E i \in OthersFor(k) : others[i].results \ {"pass"} # {}
  <2>1. ObservationOf(x).results \ {"pass"} # {}
    BY <1>2 DEF Failed
  <2>2. CASE \E i \in DOMAIN arf :
               /\ ObservationOf(x).check = arf[i].check
               /\ ObservationOf(x).results = {mapResultStatus(arf[i].status)}
    <3>1. PICK i \in DOMAIN arf :
               /\ ObservationOf(x).check = arf[i].check
               /\ ObservationOf(x).results = {mapResultStatus(arf[i].status)}
      BY <2>2
    <3>2. mapResultStatus(arf[i].status) # "pass"
      BY <2>1, <3>1
    <3>3. Violates(i)
      BY <3>2, Mapped DEF Violates
    <3> QED BY <3>1, <3>3 DEF RuleResultsFor
  <2>3. CASE \E i \in DOMAIN others : ObservationOf(x) = others[i]
    BY <2>1, <2>3 DEF OthersFor
  <2> QED BY <1>3, <2>2, <2>3, KeptObservations
<1> QED BY <1>4, <1>5, <1>6

(* Every finding rests on a rule result, or another plugin's observation,  *)
(* that is not a pass, for a check of a rule that the plan relates to the  *)
(* control (report.go:127-161, 247-275).                                   *)
THEOREM FindingsRestOnEvidence == Spec => []FindingsJustified
BY InvJustified, Invariance, PTL

LEMMA InvFailuresReported == Inv => FailuresReported
<1> SUFFICES ASSUME Inv, stage = "reported", NEW a \in Activities, NEW k \in plan.steps[a],
                    RuleOf[k] = plan.title[a], OnlyFailuresFor(k),
                    NEW c \in plan.related[a]
             PROVE  findings[c] # {}
  BY DEF FailuresReported
<1>1. a < next
  BY NumActivitiesAssumption DEF Inv, Filed, Activities
<1>2. PICK t \in associated : t[1] = a /\ t[2] = k
  BY <1>1 DEF Inv, Associated
<1>3. t[3] \in createOrGet(k)
  BY <1>2 DEF Inv, Associated
<1>4. Failed(t[3]) /\ ObservationOf(t[3]).check = k
  BY <1>3, FailureObserved DEF Inv, TypeOK
<1>5. c \in rulesByControls(RuleOf[k])
  BY ControlsOfRule DEF Inv
<1>6. t[3] \in findingsFor(c)
  BY <1>2, <1>4, <1>5 DEF findingsFor
<1>7. c \in Controls
  BY DEF Inv, TypeOK, Plan
<1> QED BY <1>6, <1>7 DEF Inv, Filed

(* A rule of which only failures are reported leads to a finding against   *)
(* each of its controls, whichever of the observations for its check is    *)
(* taken (report.go:127-161; observations.go:46-80).                       *)
THEOREM FailuresAreReported == Spec => []FailuresReported
BY InvFailuresReported, Invariance, PTL

LEMMA InvWaivedAsPlanned == Inv => WaivedAsPlanned
<1> SUFFICES ASSUME Inv PROVE WaivedAsPlanned
  OBVIOUS
<1>1. ASSUME NEW x \in marked
      PROVE  \E a \in Activities :
               /\ plan.waived[a]
               /\ {ObservationOf(x).check, ObservationOf(x).title} \cap plan.steps[a] # {}
  <2>1. PICK t \in associated : plan.waived[t[1]] /\ t[3] = x
    BY <1>1 DEF Inv, Marked
  <2>2. t[1] \in Activities /\ t[2] \in plan.steps[t[1]] /\ x \in createOrGet(t[2])
    BY <2>1 DEF Inv, Associated
  <2>3. x # Nothing
    BY <1>1, NothingIsNoId DEF Inv, TypeOK
  <2>4. t[2] \in {ObservationOf(x).check, ObservationOf(x).title}
    BY <2>2, <2>3, Gets
  <2> QED BY <2>1, <2>2, <2>4
<1>2. ASSUME stage = "reported", NEW a \in Activities, NEW i \in DOMAIN arf, plan.waived[a],
             arf[i].check \in plan.steps[a] \cap OpenscapChecks, Sole(i)
      PROVE  <<"openscap", i>> \in marked
  <2>1. plan.related[a] # {}
    BY <1>2, PlansAssumption DEF Inv
  <2>2. createOrGet(arf[i].check) = {<<"openscap", i>>}
    BY <1>2, <2>1, SoleObserved
  <2>3. a < next
    BY <1>2, NumActivitiesAssumption DEF Inv, Filed, Activities
  <2>4. PICK t \in associated : t[1] = a /\ t[2] = arf[i].check
    BY <1>2, <2>3 DEF Inv, Associated
  <2>5. t[3] = <<"openscap", i>>
    BY <2>2, <2>4 DEF Inv, Associated
  <2> QED BY <1>2, <2>4, <2>5 DEF Inv, Marked
<1> QED BY <1>1, <1>2 DEF WaivedAsPlanned

(* Waivers are shown on the observations of waived activities and on no    *)
(* others (results.go:145-160).                                            *)
THEOREM WaiversAsPlanned == Spec => []WaivedAsPlanned
BY InvWaivedAsPlanned, Invariance, PTL

(* Rules out of scope never fail a scan (server.go:115-137, 212-229;       *)
(* report.go:73-85).                                                       *)
THEOREM RefusedInScope == Spec => []RefusedOnlyInScope
<1>1. Inv => RefusedOnlyInScope
  BY DEF Inv
<1> QED BY <1>1, Invariance, PTL

(* A report crashes only for want of results or of steps                   *)
(* (results.go:151-160; report.go:129).                                    *)
THEOREM CrashesWithoutResults == Spec => []CrashesOnlyWithoutResults
<1>1. Inv => CrashesOnlyWithoutResults
  BY DEF Inv
<1> QED BY <1>1, Invariance, PTL
=============================================================================

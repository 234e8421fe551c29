CONSTANTS
  r1 = r1
  r2 = r2
  c1 = c1
  c2 = c2
  k1 = k1
  k2 = k2
  k3 = k3
  t1 = t1
  t2 = t2
  NumActivities = 2
  Rules = {r1, r2}
  Controls = {c1, c2}
  Names = {k1, k2, k3, t1, t2}
  Checks = {k1, k2}
  OpenscapChecks = {k1, k2}
  Malformed = Malformed
  NoCheck = NoCheck
  RuleOf <- MCRuleOf
  Plans <- MCPlans
  Reports <- MCReports
  OtherResults <- MCOtherResults
SPECIFICATION Spec
INVARIANTS
  FindingsJustified
  FailuresReported
  WaivedAsPlanned
  RefusedOnlyInScope
  CrashesOnlyWithoutResults

CONSTANTS
  NumActivities = 2
  r1 = r1
  r2 = r2
  p1 = p1
  v1 = v1
  v2 = v2
  v3 = v3
  m1 = m1
  m2 = m2
  Rules = {r1, r2}
  Controls <- MCControls
  Params = {p1, NoParameters}
  Values = {v1, v2, v3}
  Star = Star
  Empty = Empty
  NotApplicable = NotApplicable
  Unset = Unset
  NoParameters = NoParameters
  Remarks = {m1, m2}
  Groups <- MCGroups
  TitleOf <- MCTitleOf
  Default <- MCDefault
  Bundles <- MCBundles
  Alternatives <- MCAlternatives
  NoScope = NoScope
  Scopes <- MCScopes
  Plans <- MCPlans
  NoPlan = NoPlan
  EarlierPlans = {NoPlan}
SPECIFICATION TemplateSpec
INVARIANTS
  KeepsControls
  KeepsAgreedParameters
  RefusedOnlyIfInadmissible
  ChangesToSetValues

CONSTANTS
  NumActivities = 2
  r1 = r1
  r2 = r2
  p1 = p1
  v1 = v1
  v2 = v2
  v3 = v3
  Rules = {r1, r2}
  Controls <- MCControls
  Params = {p1}
  Values = {v1, v2, v3}
  Star = Star
  Empty = Empty
  NotApplicable = NotApplicable
  Unset = Unset
  Alternatives <- MCAlternatives
  NoScope = NoScope
  Scopes <- ParameterScopes
  Plans <- MCPlans
  NoPlan = NoPlan
  EarlierPlans <- MCEarlierPlans
SPECIFICATION Spec
INVARIANTS
  WaivedParametersUnaltered

CONSTANTS
  Rules = {r1, r2}
  Variables = {x}
  Values = {v1, v2}
  Unlisted = Unlisted
  Unresolved = Unresolved
  MaxParameters = 2
  Policies <- MCPolicies
  Datastreams <- MCDatastreams
SPECIFICATION Spec
INVARIANTS
  EvaluatedAsPlanned
  TailoringIsValid
  ValuesAsPlanned

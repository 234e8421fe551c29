CONSTANTS
  Rules = {r1, r2}
  Variables = {x}
  Values = {v1}
  Unlisted = Unlisted
  Unresolved = Unresolved
  MaxParameters = 0
  Policies <- MCPolicies
  Datastreams <- MCDatastreams
SPECIFICATION Spec
INVARIANTS
  RemediationCoversPolicy

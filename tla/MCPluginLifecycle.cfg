CONSTANTS
  Plugins = {p1, p2}
SPECIFICATION Spec
INVARIANTS
  NoPluginOutlivesCommand
  LaunchedAsRequested
  SuccessCoversRequested
PROPERTIES
  EndsAfterInterrupt
  EndsWhenPluginsBehave

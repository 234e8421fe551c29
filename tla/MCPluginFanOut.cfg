CONSTANTS
  Plugins = {1, 2, 3}
  Limit = 2
  Cases <- MCCases
SPECIFICATION Spec
INVARIANTS
  NoSendAfterClose
  HeldUpOnlyByHanging
  ConcurrencyLimited
  ReportedErrorIsOwn
  NothingLeftBehind
PROPERTIES
  ImplementsContract
  EndsWhenPluginsAnswer
  EndsAfterError
  EndsAfterInterrupt

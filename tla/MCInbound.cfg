SPECIFICATION Spec
CONSTANTS
  SLASH = "/"
  SEP = "/"
  Good = {"a", "b"}
  Other = {"?"}
  MaxLen = 6
  Inputs <- MCInputs
  Threads = {t1, t2}
  Handlers <- MCHandlers
  Queries <- MCQueries
  None = None
  Lens <- MCLens
  Behind = 16
  OutLens <- MCOutLens
INVARIANTS DecodedInPlace FramesAgree WellFormed CleansAsDefined
  AnswersExpected FoundHandles KnownIsFound
CHECK_DEADLOCK FALSE

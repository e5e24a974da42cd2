\* A daemon that is configured after it has started: the phone, the preflight and the retries compete.
SPECIFICATION RunSpec
CONSTANTS
  MaxRuns = 2
  MaxPrompts = 2
  Configured = FALSE
INVARIANTS
  OneChildOneSession
  ResultOfThisRun
  PromptOfThisRun
PROPERTIES
  StopEndsRun
  RetryPrepares

\* The daemon is shut down while both threads use the worker.
SPECIFICATION FairSpec
CONSTANTS
  MaxRuns = 2
  MaxPrompts = 0
  Configured = TRUE
PROPERTY
  ShutdownEnds

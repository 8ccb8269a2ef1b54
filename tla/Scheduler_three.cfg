SPECIFICATION FairSpec
CONSTANTS
  N = 3
  Durations = {0, 1, 2}
  Values = {0, 1}
INVARIANTS AcknowledgedWhenIdle OwnWorld KernelOutcome BoundedBypass
PROPERTIES EveryoneRuns

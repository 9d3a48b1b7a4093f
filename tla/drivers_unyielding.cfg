SPECIFICATION Spec
CONSTANTS
  Attachers = {h1}
  Dispatchers = {}
  Runners = {"sector_explore"}
  MaxGeneration = 1
  LateSendBound = 2
INVARIANT PreemptedRunSendsAtMostOnce

CONSTANTS
  Fns = {f1, f2}
  NoFn = NoFn
  MaxCount = 3
SPECIFICATION FairSpec
INVARIANTS ListsOK BoundedRun
PROPERTIES EveryFnRuns ImplementsQueue

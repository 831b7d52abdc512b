SPECIFICATION FairSpec
CONSTANTS
  f = f
  g = g
  Funcs <- MCFuncs
  NoFunc = none
  NeedsCca <- MCNeedsCca
  MaxAsks = 4
INVARIANT SettledShowsFunction
PROPERTY WindowIsFreed
CHECK_DEADLOCK FALSE

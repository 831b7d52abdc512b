SPECIFICATION LoadingSpec
CONSTANTS
  file1 = file1
  file2 = file2
  Projects <- MCProjects
  NoProject = none
  MaxJobs = 3
INVARIANTS ResultsOfProject SettledIsFinal
PROPERTY RefreshThreadEnds
CHECK_DEADLOCK FALSE

SPECIFICATION DisassemblySpec
CONSTANTS
  Regions <- MCRegions
  Versions <- MCVersions
  Height = 3
  LineBytes = 2
  Addr <- MCAddr
  NoAddr <- MCNone
  NoFunc <- MCNone
  MaxLen = 2
  Stops <- MCStops
  MaxChanges = 1
INVARIANTS
  BackReturnsToSource
  ScrollMovesByLines
  JumpShowsTarget
PROPERTIES
  ImplementsBrowserHistory

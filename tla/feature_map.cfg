SPECIFICATION Spec
CONSTANTS
  code = code
  data = data
  BinWidths <- MCBins
  Binaries <- MCBinaries
  ExternSize = 2
  Addr <- MCAddr
  Widths <- MCWidths
  MaxCfgJobs = 2
  MaxPosted = 2
INVARIANTS
  MapsAreCanonical
  PaintIsContent
  ClickComesBack
  SettledMapIsCfb
  RefreshIsComing

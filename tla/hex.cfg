SPECIFICATION HexViewSpec
CONSTANTS
  Row = 3
  RowCounts <- MCRowCounts
  LoaderMin = 4
  LoaderMax = 10
  DebuggerEnd = 12
  Region <- MCRegion
  Memory <- MCMemory
  Digits = {0, 1}
  Typed = {0}
  Printable <- MCPrintable
  MaxEdits = 3
INVARIANTS CursorInRegion PatchesKeepBytes
PROPERTY KeyShowsCursor

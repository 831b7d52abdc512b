SPECIFICATION ViewsSpec
CONSTANTS
  h = h
  d = d
  e = e
  c = c
  HexViews <- MCHex
  CodeViews <- MCCode
  Category <- MCCategory
  PlainViews <- MCPlain
  Addrs = {1, 2, 3}
  NoAddr = 0
  FuncStart <- MCFuncStart
  HexShows = {1, 2}
INVARIANTS ManagerAgrees GroupsAgree GroupShowsCursor

SPECIFICATION GraphSpec
CONSTANTS
  MaxEdges = 5
  Blocks <- MCBlocks
  Functions <- MCFunctions
  Flows <- MCFlows
  Nodes <- MCNodes
  Graphs <- MCGraphs
  Keys <- MCKeys
  Sizes <- MCSizes
  XMargin = 10
  YMargin = 5
  RowMargin = 16
  ColMargin = 16
INVARIANTS Layered RoutesAndBlocksApart SupergraphIsFlow

SPECIFICATION PluginsSpec
CONSTANTS
  Plugins <- MCPluginNames
  Registers <- MCRegisters
  MaxObjects = 2
INVARIANTS PartsBelongToActive TornDownOnce

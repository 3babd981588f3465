CONSTANTS
  Nodes <- MCNodes
  NodeType <- MCNodeType
  NodeFile <- MCNodeFile
  Pool <- MCPool
  Class <- MCClass
  Under <- MCUnder
  Cases <- MCCases
  Depths = {2, 9}
  Unlimited = 9
  Toggles = 1
SPECIFICATION Spec
INVARIANT DependentsAreAffected

CONSTANTS
  None = None
  Sources = {s1, s2}
  MaxAttempts = 2
  MaxContainers = 3
SPECIFICATION Spec
PROPERTIES RemovesOnlyOwned CustodyIsFinal

SPECIFICATION Spec
CONSTANTS
  MaxEvents = 2
  BatchSize = 2
  MaxFaults = 2
PROPERTIES StreamFailureStaysLocal

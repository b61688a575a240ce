SPECIFICATION Spec
CONSTANTS
  okta = okta
  entra = entra
  acme = acme
  MaxFiles = 3
  Stems <- ThreeStems
  LogLevel = 20
  Overrides <- LogLevels
INVARIANTS TypeOK  LevelsKeptApart
CHECK_DEADLOCK FALSE

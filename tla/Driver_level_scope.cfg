SPECIFICATION Spec
CONSTANTS
  okta = okta
  entra = entra
  acme = acme
  MaxFiles = 2
  Stems <- TwoStems
  LogLevel = 20
  Overrides <- LogLevels
INVARIANTS OverrideIsScoped
CHECK_DEADLOCK FALSE

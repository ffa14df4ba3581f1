CONSTANTS
  Names = {"one", "two"}
  Values <- SomeValues
  Vaults <- SomeVaults
  Outputs <- SomeOutputs
  Formatted = {"F"}
  MinLength = 2
  Commands <- SomeCommands
  PrefixLists <- SomePrefixes
  SetExprs <- SomeSetExprs
  Statements <- SomeStatements
  SqlTexts <- SomeSql
  Services <- SomeServices
  ServiceCalls <- SomeCalls
  UpperCase <- Capitals
  MaxEvents = 2
  None = None
SPECIFICATION Spec
INVARIANTS TypeOK GuardedPrograms ReadOnlyStaysReadOnly RequestsMatchAllowList LastingSecretsStay OnlySecretsAreMasked CredentialStays
PROPERTIES ServiceCallEnds
CHECK_DEADLOCK FALSE

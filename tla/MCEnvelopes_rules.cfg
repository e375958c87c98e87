SPECIFICATION Spec
CONSTANTS
  Versions = {"0.3.0", "0.3.1", "0.4.0", Missing, NotText}
  Lists <- MCLists
  Received <- MCReceived
  Missing = Missing
  Null = Null
  NotText = NotText
  NoDocument = NoDocument
INVARIANTS
  TypeOK
  TierRulesInLockstep
  DumpsAreAccepted
  VersionErrorsAreTyped
  PortsCheckTheRest

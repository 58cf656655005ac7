SPECIFICATION Spec
CONSTANTS
  Legacy = 0
  MaxChallenge = 5
  MaxPackets = 3
INVARIANTS
  UncertaintyOnDisk
  NothingOldWhenSending
  ReplyAnswersRequest
  GuardAgreesWithDisk
PROPERTY RecoveryNeedsFreshConsent

SPECIFICATION Spec
CONSTANTS
  Legacy = 1
  MaxChallenge = 4
  MaxPackets = 3
INVARIANT NothingOldWhenSending

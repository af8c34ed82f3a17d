SPECIFICATION Spec
CONSTANTS
  c = c  d = d  a = a  alice = alice  Creator = creator  None = None
  Installations = {c, d, a}
  Identity <- MCIdentity
  Twin = d
  MaxEpochs = 4
  MaxNonces = 1
  MaxCards <- MemberCards
  MayFill = {FALSE, TRUE}
INVARIANTS OneSignerOneChain RoomToClose ForksAreSeen AdmissionIsConsented
CONSTRAINT OneStory
CHECK_DEADLOCK FALSE

SPECIFICATION Spec
CONSTANTS
  Chains <- MCChains
  MaxSeqno <- MCMaxSeqno
  OffSeqnos <- MCOffSeqnos
  MaxEpno = 6
  ka = ka
  kb = kb
  t1 = t1
  t2 = t2
  Keys <- MCKeys
  Eldest = ka
  Txns <- MCTxns
  WithPassphrase = TRUE
  UserLinks = 3
  SettingsLinks = 2
  OffUser = {3}
  OffSettings = {2}
SYMMETRY MCSymmetry
CHECK_DEADLOCK FALSE
INVARIANTS
  RevokeCoversSignatures
  SignaturesFollowProvisioning
PROPERTIES
  MQSpec

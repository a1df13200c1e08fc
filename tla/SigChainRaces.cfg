SPECIFICATION Spec
CONSTANTS
  Chains <- MCChains
  MaxSeqno <- MCMaxSeqno
  OffSeqnos <- MCOffSeqnos
  MaxEpno = 6
  ka = ka
  kb = kb
  t1 = t1
  t2 = t2
  Keys <- MCKeys
  Eldest = ka
  Txns <- MCTxns
  WithPassphrase = FALSE
  UserLinks = 4
  SettingsLinks = 1
  OffUser = {3, 4}
  OffSettings = {}
SYMMETRY MCSymmetry
CHECK_DEADLOCK FALSE
INVARIANTS
  TypeOK
  RevokeCoversSignatures
  TriggersResolve
  ChainOrder
  SomeDeviceRemains
  NoWaitCycleOnTail
PROPERTIES
  SignersStillCurrent

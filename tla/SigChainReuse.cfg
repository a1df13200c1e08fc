SPECIFICATION Spec
CONSTANTS
  Chains <- MCChains
  MaxSeqno <- MCMaxSeqno
  OffSeqnos <- MCOffSeqnos
  MaxEpno = 7
  ka = ka
  kb = kb
  t1 = t1
  t2 = t2
  Keys <- MCKeys
  Eldest = ka
  Txns <- MCOneTxn
  WithPassphrase = FALSE
  UserLinks = 5
  SettingsLinks = 0
  OffUser = {}
  OffSettings = {}
CHECK_DEADLOCK FALSE
INVARIANTS
  EpnosAgree

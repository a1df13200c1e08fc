SPECIFICATION Spec
CONSTANTS
  Chains <- MCChains
  MaxSeqno <- MCMaxSeqno
  OffSeqnos <- MCOffSeqnos
  MaxEpno = 4
  ka = ka
  kb = kb
  t1 = t1
  t2 = t2
  Keys <- MCOneKey
  Eldest = ka
  Txns <- MCTxns
  WithPassphrase = TRUE
  UserLinks = 2
  SettingsLinks = 1
  OffUser = {}
  OffSettings = {}
CHECK_DEADLOCK FALSE
INVARIANTS
  NoWaitCycle

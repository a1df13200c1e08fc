SPECIFICATION Spec
CONSTANTS
  Chains <- MCChains
  MaxSeqno <- MCMaxSeqno
  OffSeqnos <- MCOffSeqnos
  MaxEpno = 5
  ka = ka
  kb = kb
  t1 = t1
  t2 = t2
  Keys <- MCKeys
  Eldest = ka
  Txns <- MCTxns
  WithPassphrase = FALSE
  UserLinks = 4
  SettingsLinks = 0
  OffUser = {4}
  OffSettings = {}
CHECK_DEADLOCK FALSE
INVARIANTS
  NoWaitCycle

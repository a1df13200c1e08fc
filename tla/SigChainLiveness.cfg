SPECIFICATION FairSpec
CONSTANTS
  Chains <- MCChains
  MaxSeqno <- MCMaxSeqno
  OffSeqnos <- MCOffSeqnos
  MaxEpno = 5
  ka = ka
  kb = kb
  t1 = t1
  t2 = t2
  Keys <- MCKeys
  Eldest = ka
  Txns <- MCTxns
  WithPassphrase = TRUE
  UserLinks = 3
  SettingsLinks = 1
  OffUser = {3}
  OffSettings = {}
CHECK_DEADLOCK FALSE
PROPERTIES
  HandlersEnd
  LinksGetCommitted

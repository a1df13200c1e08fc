---------------------------- MODULE MCSigChain ----------------------------
EXTENDS SigChain, TLC

CONSTANTS ka, kb, t1, t2, UserLinks, SettingsLinks, OffUser, OffSettings

MCChains == {"user", "settings"}
MCMaxSeqno == [c \in MCChains |-> IF c = "user" THEN UserLinks ELSE SettingsLinks]
MCOffSeqnos == [c \in MCChains |-> IF c = "user" THEN OffUser ELSE OffSettings]
MCKeys == {ka, kb}
MCOneKey == {ka}
MCTxns == {t1, t2}
MCOneTxn == {t1}
MCSymmetry == Permutations(MCTxns)
=============================================================================

--------------------------- MODULE SigChainProofs ---------------------------
(* Proofs about the sigchain handlers, in layers: what every handler knows *)
(* while it holds its locks (Base), that handlers and batcher keep the     *)
(* promises of MerkleQueue, and then the properties themselves.            *)
EXTENDS SigChain, MerkleQueueProofs

-----------------------------------------------------------------------------
(* Layer 1: requests, and the locks a handler holds at each point. *)

(* What the start of a handler established about its request and the chain *)
(* lock keeps true.  Off the tail a request may name any seqno.            *)
RequestOK(r) ==
  /\ Item(r) \in Items
  /\ OnTail(r) => r.seqno = tail[r.chain] + 1
  /\ r.chain = ChainOf(r.op)
  /\ tail[UserChain] # 0
  /\ r.ppSeqno # 0 => /\ WithPassphrase
                      /\ PPItem(r) \in Items
                      /\ r.op \in {"revoke", "rotate"}
  /\ RevokesItself(r) => r.tseq = r.sseq

HandlerOK(t) ==
  pc[t] # "idle" =>
    /\ RequestOK(req[t])
    /\ pc[t] = "signerLocked" => RevokesAnother(req[t])
    /\ pc[t] \in {"applied", "done"} => OnTail(req[t])
    /\ pc[t] = "applied" => req[t].ppSeqno # 0
    /\ (pc[t] = "done" /\ req[t].ppSeqno # 0) =>
         req[t].ppSeqno = tail[SettingsChain] + 1 /\ ~RevokesItself(req[t])

HandlersOK == \A t \in Txns : HandlerOK(t)

LocksHeldBy(t) ==
  /\ pc[t] # "idle" => chainLock[Item(req[t])] = t
  /\ (pc[t] = "done" /\ req[t].ppSeqno # 0) => chainLock[PPItem(req[t])] = t
  /\ pc[t] \in {"signerLocked", "applied", "done"} => keyLock[SignerPair(req[t])] = t
  /\ (pc[t] \in {"applied", "done"} /\ req[t].op = "revoke") =>
       keyLock[TargetPair(req[t])] = t

LocksHeld == \A t \in Txns : LocksHeldBy(t)

(* Nobody else holds a key lock. *)
KeyLockHolders ==
  \A t \in Txns : pc[t] \in {"idle", "authorized"} => \A p \in KeyPairs : keyLock[p] # t

DevicesBelowTail == \A k \in Keys : dev[k].seqno <= tail[UserChain]

Base == TypeOK /\ HandlersOK /\ LocksHeld /\ KeyLockHolders /\ DevicesBelowTail

USE DEF UserChain, SettingsChain, ChainOf, OnTail, RevokesItself

(* Which pairs of a chain and a seqno are items.                           *)
LEMMA ItemFacts ==
  /\ \A c \in Chains, n \in Nat : <<c, n>> \in Items <=> n \in 1..MaxSeqno[c]
  /\ \A i \in Items : i = <<i[1], i[2]>> /\ i[1] \in Chains /\ i[2] \in Nat \ {0}
  /\ MaxSeqno[UserChain] \in Nat
  /\ UserChain \in Chains /\ SettingsChain \in Chains
BY MaxSeqnoAssumption, ChainsAssumption DEF Items

(* Before signup there are no locks and no requests.                       *)
LEMMA BaseInit == Init => Base
<1> SUFFICES ASSUME Init PROVE Base
  BY Zenon
<1> USE EldestAssumption, ItemFacts DEF Init
<1>1. MQTypeOK
  BY MQInitInv, Zenon DEF MQInv
<1>2. TypeOK
  BY <1>1 DEF TypeOK, Owner, KeyPairs, KeySeqnos, NoDevice, NoLink, Link, NoRequest,
             Request, Ops, PCs
<1>3. HandlersOK /\ LocksHeld
  BY Zenon DEF HandlersOK, LocksHeld, HandlerOK, LocksHeldBy
<1>4. KeyLockHolders
  BY TxnsAssumption, Zenon DEF KeyLockHolders
<1>5. DevicesBelowTail
  BY DEF DevicesBelowTail, NoDevice
<1> QED BY <1>2, <1>3, <1>4, <1>5, Zenon DEF Base

(* The types of a request, spelled out once. *)
LEMMA RequestTypes ==
  ASSUME TypeOK, NEW t \in Txns
  PROVE /\ req[t] \in Request
        /\ SignerPair(req[t]) \in KeyPairs /\ TargetPair(req[t]) \in KeyPairs
        /\ req[t].seqno \in Nat /\ req[t].ppSeqno \in Nat /\ req[t].root \in Nat
        /\ req[t].chain \in Chains /\ req[t].op \in Ops
        /\ req[t].signer \in Keys /\ req[t].target \in Keys
        /\ req[t].sseq \in KeySeqnos /\ req[t].tseq \in KeySeqnos
BY Zenon DEF TypeOK, Request, SignerPair, TargetPair, KeyPairs

(* A transaction that ends without a trace. *)
LEMMA BaseFail ==
  ASSUME Base, NEW t \in Txns, Fail(t)
  PROVE Base'
<1> USE TxnsAssumption DEF Base, Fail, Rollback, tables
<1>1. TypeOK'
  BY EldestAssumption, ItemFacts
  DEF TypeOK, MQTypeOK, Owner, PCs, Request, NoRequest, Ops, KeySeqnos
<1>2. \A u \in Txns : pc'[u] # "idle" => u # t /\ pc'[u] = pc[u] /\ req'[u] = req[u]
  BY Zenon DEF TypeOK
<1>3. HandlersOK'
  BY <1>2 DEF HandlersOK, HandlerOK, RequestOK
<1>4. LocksHeld'
  <2> SUFFICES ASSUME NEW u \in Txns PROVE LocksHeldBy(u)'
    BY Zenon DEF LocksHeld
  <2>1. CASE pc'[u] = "idle"
    BY <2>1, Zenon DEF LocksHeldBy
  <2>2. CASE pc'[u] # "idle"
    <3>1. u # t /\ pc'[u] = pc[u] /\ req'[u] = req[u]
      BY <2>2, <1>2, Zenon
    <3>2. Item(req[u]) \in Items /\ (req[u].ppSeqno # 0 => PPItem(req[u]) \in Items)
      BY <2>2, <3>1, Zenon DEF HandlersOK, HandlerOK, RequestOK
    <3>3. SignerPair(req[u]) \in KeyPairs /\ TargetPair(req[u]) \in KeyPairs
      BY RequestTypes, Zenon
    <3> QED BY <3>1, <3>2, <3>3 DEF LocksHeld, LocksHeldBy
  <2> QED BY <2>1, <2>2, Zenon
<1>5. KeyLockHolders'
  BY Zenon DEF KeyLockHolders, TypeOK
<1>6. DevicesBelowTail'
  BY Zenon DEF DevicesBelowTail
<1> QED BY <1>1, <1>3, <1>4, <1>5, <1>6, Zenon

(* Signup takes no lock that outlives it.                                  *)
LEMMA BaseSignup == ASSUME Base, Signup PROVE Base'
<1> USE ItemFacts, EldestAssumption DEF Base, Signup
<1>1. TypeOK'
  BY DEF TypeOK, MQTypeOK, QueueMerkleWork, Row, Queued, KeySeqnos, Link, Ops
<1>2. HandlersOK'
  BY Zenon DEF HandlersOK, HandlerOK, RequestOK
<1>3. LocksHeld' /\ KeyLockHolders'
  BY Zenon DEF LocksHeld, LocksHeldBy, KeyLockHolders
<1>4. DevicesBelowTail'
  BY DEF DevicesBelowTail, TypeOK, KeySeqnos
<1> QED BY <1>1, <1>2, <1>3, <1>4, Zenon

(* A request as the start of a handler leaves it, the root named being     *)
(* remembered if it can matter.                                            *)
Fresh(r, root) ==
  /\ r \in Request
  /\ RequestOK(r)
  /\ r.sseq = dev[r.signer].seqno
  /\ r.op = "revoke" => r.tseq = dev[r.target].seqno
  /\ OnTail(r) => r.root = root

(* A handler starts. *)
Starts(t) == \E r \in Request, root \in Nat : Fresh(r, root) /\ Start(t, r, root)

(* The request of a handler whose signer is a device is well formed.       *)
LEMMA FreshRequest ==
  ASSUME Base, NEW r \in Request, NEW root, Item(r) \in Items, Authorized(r, root),
         OnTail(r) => r.seqno = tail[r.chain] + 1 /\ r.root = root,
         r.chain = ChainOf(r.op), r.sseq = dev[r.signer].seqno,
         r.op = "revoke" => r.tseq = dev[r.target].seqno,
         r.ppSeqno # 0 => /\ WithPassphrase /\ PPItem(r) \in Items
                          /\ r.op \in {"revoke", "rotate"}
  PROVE Fresh(r, root)
<1>1. dev[r.signer].seqno # 0 /\ r.signer \in Keys
  BY Zenon DEF Authorized, IsCurrent, Request
<1>2. tail[UserChain] # 0
  BY <1>1, ItemFacts DEF Base, DevicesBelowTail, TypeOK, KeySeqnos
<1> QED BY <1>2, Zenon DEF Fresh, RequestOK

(* Every handler whose client built on top of the tail starts in this way. *)
LEMMA PrepareStarts ==
  ASSUME Base, NEW t \in Txns, NEW op \in Ops, NEW k \in Keys, NEW target \in Keys,
         NEW root, NEW ppSeqno \in Nat, Prepare(t, op, k, target, root, ppSeqno)
  PROVE Starts(t)
<1> DEFINE c == ChainOf(op)
           r == [op |-> op, chain |-> c, seqno |-> tail[c] + 1, place |-> "next",
                 signer |-> k, sseq |-> dev[k].seqno, target |-> target,
                 tseq |-> IF op = "revoke" THEN dev[target].seqno ELSE 0, root |-> root,
                 ppSeqno |-> ppSeqno]
<1>1. /\ Start(t, r, root)
      /\ root \in 1..epno
      /\ ppSeqno # 0 => /\ WithPassphrase /\ op \in {"revoke", "rotate"}
                        /\ PPItem(r) \in Items
  BY Zenon DEF Prepare
<1>2. epno \in Nat /\ tail[c] + 1 \in Nat /\ dev[k].seqno \in KeySeqnos
      /\ dev[target].seqno \in KeySeqnos /\ 0 \in KeySeqnos /\ c \in Chains
  BY ItemFacts DEF Base, TypeOK, MQTypeOK, KeySeqnos
<1>3. r \in Request /\ root \in Nat
  BY <1>1, <1>2 DEF Request
<1>4. Item(r) \in Items /\ Authorized(r, root)
  BY Zenon, <1>1 DEF Start
<1>5. Fresh(r, root)
  BY <1>1, <1>3, <1>4, FreshRequest, Zenon
<1> QED BY Zenon, <1>1, <1>3, <1>5 DEF Starts

(* So does one whose client built on another seqno than the tail.          *)
LEMMA PrepareOffTailStarts ==
  ASSUME Base, NEW t \in Txns, NEW op \in Ops, NEW k \in Keys, NEW target \in Keys,
         NEW seqno \in Nat, PrepareOffTail(t, op, k, target, seqno)
  PROVE Starts(t)
<1> DEFINE c == ChainOf(op)
           r == [op |-> op, chain |-> c, seqno |-> seqno, place |-> "off", signer |-> k,
                 sseq |-> dev[k].seqno, target |-> target,
                 tseq |-> IF op = "revoke" THEN dev[target].seqno ELSE 0, root |-> 0,
                 ppSeqno |-> 0]
<1>1. Start(t, r, epno)
  BY Zenon DEF PrepareOffTail
<1>2. epno \in Nat /\ dev[k].seqno \in KeySeqnos
      /\ dev[target].seqno \in KeySeqnos /\ 0 \in KeySeqnos /\ c \in Chains
  BY ItemFacts DEF Base, TypeOK, MQTypeOK, KeySeqnos
<1>3. r \in Request
  BY <1>2, Zenon DEF Request
<1>4. Item(r) \in Items /\ Authorized(r, epno)
  BY Zenon, <1>1 DEF Start
<1>5. Fresh(r, epno)
  BY <1>3, <1>4, FreshRequest, Zenon
<1> QED BY Zenon, <1>1, <1>2, <1>3, <1>5 DEF Starts

(* A handler that starts holds the lock of the seqno its link names.       *)
LEMMA BaseStart == ASSUME Base, NEW t \in Txns, Starts(t) PROVE Base'
<1>0. PICK r \in Request, root \in Nat : Fresh(r, root) /\ Start(t, r, root)
  BY Zenon DEF Starts
<1>1. /\ Item(r) \in Items
      /\ pc[t] = "idle" /\ pc' = [pc EXCEPT ![t] = "authorized"]
      /\ chainLock[Item(r)] = Free
      /\ chainLock' = [chainLock EXCEPT ![Item(r)] = t]
      /\ req' = [req EXCEPT ![t] = r]
      /\ UNCHANGED <<keyLock, tables>>
  BY <1>0, Zenon DEF Start, Goto, CanLockEntity
<1>3. RequestOK(r)
  BY <1>0, Zenon DEF Fresh
<1>4. TypeOK'
  BY <1>1, Zenon DEF Base, TypeOK, MQTypeOK, tables, Owner, PCs
<1>5. /\ pc'[t] = "authorized" /\ req'[t] = r
      /\ \A u \in Txns \ {t} : pc'[u] = pc[u] /\ req'[u] = req[u]
  BY <1>1, Zenon DEF Base, TypeOK
<1>6. HandlersOK'
  BY <1>1, <1>3, <1>5 DEF Base, HandlersOK, HandlerOK, RequestOK, tables
<1>7. LocksHeld'
  <2> SUFFICES ASSUME NEW u \in Txns PROVE LocksHeldBy(u)'
    BY Zenon DEF LocksHeld
  <2>1. CASE u = t
    BY <1>1, <1>5, <2>1, Zenon DEF LocksHeldBy, Base, TypeOK
  <2>2. CASE u # t
    <3>1. LocksHeldBy(u) /\ HandlerOK(u)
      BY Zenon DEF Base, LocksHeld, HandlersOK
    <3>2. \A i \in Items : chainLock[i] = u => chainLock'[i] = u
      BY <1>1, TxnsAssumption, Zenon DEF Base, TypeOK
    <3> QED BY <1>1, <1>5, <2>2, <3>1, <3>2 DEF LocksHeldBy, HandlerOK, RequestOK
  <2> QED BY <2>1, <2>2, Zenon
<1>8. KeyLockHolders' /\ DevicesBelowTail'
  BY <1>1, <1>5, Zenon DEF Base, KeyLockHolders, DevicesBelowTail, tables
<1> QED BY <1>4, <1>6, <1>7, <1>8, Zenon DEF Base

(* The next statement takes the lock row of a key pair. *)
LEMMA BaseLockKey ==
  ASSUME Base, NEW t \in Txns, NEW p \in KeyPairs, NEW to \in PCs \ {"idle", "authorized"},
         pc[t] \in {"authorized", "signerLocked"}, pc' = [pc EXCEPT ![t] = to],
         keyLock[p] = Free, keyLock' = [keyLock EXCEPT ![p] = t],
         UNCHANGED <<chainLock, req, tables>>,
         HandlerOK(t)',
         p = SignerPair(req[t]) \/ pc[t] = "signerLocked",
         (to \in {"applied", "done"} /\ req[t].op = "revoke") => p = TargetPair(req[t]),
         to = "done" => req[t].ppSeqno = 0
  PROVE Base'
<1>1. TypeOK'
  BY Zenon DEF Base, TypeOK, MQTypeOK, tables, Owner
<1>2. \A u \in Txns \ {t} : pc'[u] = pc[u]
  BY Zenon DEF Base, TypeOK
<1>3. pc'[t] = to /\ pc[t] # "idle"
  BY Zenon DEF Base, TypeOK
<1>4. HandlersOK'
  BY <1>2 DEF Base, HandlersOK, HandlerOK, RequestOK, tables
<1>5. LocksHeld'
  <2> SUFFICES ASSUME NEW u \in Txns PROVE LocksHeldBy(u)'
    BY Zenon DEF LocksHeld
  <2>1. LocksHeldBy(u)
    BY Zenon DEF Base, LocksHeld
  <2>2. \A q \in KeyPairs : keyLock[q] = u => keyLock'[q] = u
    BY TxnsAssumption, Zenon DEF Base, TypeOK
  <2>3. SignerPair(req[u]) \in KeyPairs /\ TargetPair(req[u]) \in KeyPairs
    BY RequestTypes, Zenon DEF Base
  <2>4. CASE u = t
    BY <1>3, <2>1, <2>2, <2>3, <2>4, Zenon DEF LocksHeldBy, Base, TypeOK
  <2>5. CASE u # t
    BY <1>2, <2>1, <2>2, <2>3, <2>5, Zenon DEF LocksHeldBy
  <2> QED BY <2>4, <2>5, Zenon
<1>6. KeyLockHolders'
  BY <1>2, <1>3, Zenon DEF Base, KeyLockHolders, TypeOK
<1>7. DevicesBelowTail'
  BY Zenon DEF Base, DevicesBelowTail, tables
<1> QED BY <1>1, <1>4, <1>5, <1>6, <1>7, Zenon DEF Base

(* The signer's lock, taken before that of the key to be revoked.          *)
LEMMA BaseLockSigner == ASSUME Base, NEW t \in Txns, LockSigner(t) PROVE Base'
<1>1. CASE Goto(t, "authorized", "signerLocked") /\ CanLockKey(SignerPair(req[t]))
  <2>1. SignerPair(req[t]) \in KeyPairs
    BY RequestTypes, Zenon DEF Base
  <2>2. HandlerOK(t)'
    BY <1>1, Zenon DEF LockSigner, Goto, Fail, CanLockKey, KeyLocked, Free, Kept, tables,
                Base, TypeOK, HandlersOK, HandlerOK, RequestOK, RevokesAnother
  <2>3. /\ pc[t] = "authorized" /\ pc' = [pc EXCEPT ![t] = "signerLocked"]
        /\ keyLock[SignerPair(req[t])] = Free
        /\ keyLock' = [keyLock EXCEPT ![SignerPair(req[t])] = t]
        /\ UNCHANGED <<chainLock, req, tables>>
    BY <1>1, Zenon DEF LockSigner, Goto, CanLockKey, KeyLocked, Free, Kept
  <2> QED BY ZenonT(60), <2>1, <2>2, <2>3, BaseLockKey DEF PCs
<1>2. CASE Fail(t)
  BY <1>2, BaseFail, Zenon
<1> QED BY <1>1, <1>2, Zenon DEF LockSigner

(* The last key lock of a link, or the handler's failure.                  *)
LEMMA BaseInsertLink == ASSUME Base, NEW t \in Txns, InsertLink(t) PROVE Base'
<1> DEFINE r == req[t]
           from == IF RevokesAnother(r) THEN "signerLocked" ELSE "authorized"
           to == IF r.ppSeqno # 0 THEN "applied" ELSE "done"
           p == IF RevokesAnother(r) THEN TargetPair(r) ELSE SignerPair(r)
<1>1. ASSUME Goto(t, from, to), CanLockKey(p), OnTail(r),
             keyLock' = [keyLock EXCEPT ![p] = t],
             UNCHANGED <<chainLock, req, tables>>
      PROVE Base'
  <2>1. p \in KeyPairs
    BY RequestTypes, Zenon DEF Base
  <2>2. pc[t] = from /\ pc' = [pc EXCEPT ![t] = to] /\ keyLock[p] = Free
    BY <1>1, Zenon DEF Goto, CanLockKey
  <2>3. HandlerOK(t)
    BY Zenon DEF Base, HandlersOK
  <2>4. HandlerOK(t)'
    BY ZenonT(60), <1>1, <2>2, <2>3 DEF Base, TypeOK, HandlerOK, RequestOK, tables
  <2>5. r.op = "revoke" => p = TargetPair(r)
    BY <2>2, <2>3, Zenon DEF HandlerOK, RequestOK, RevokesAnother, SignerPair, TargetPair
  <2> QED BY ZenonT(60), <1>1, <2>1, <2>2, <2>4, <2>5, BaseLockKey DEF PCs
<1>2. CASE Fail(t)
  BY <1>2, BaseFail, Zenon
<1> QED BY <1>1, <1>2, Zenon DEF InsertLink

(* The lock of the settings chain inside a revoke.                         *)
LEMMA BasePostSettings == ASSUME Base, NEW t \in Txns, PostSettings(t) PROVE Base'
<1> DEFINE r == req[t]
           i == PPItem(r)
<1>1. ASSUME pc[t] = "applied", pc' = [pc EXCEPT ![t] = "done"], chainLock[i] = Free,
             r.ppSeqno = tail[SettingsChain] + 1, ~RevokesItself(r),
             chainLock' = [chainLock EXCEPT ![i] = t],
             UNCHANGED <<keyLock, req, tables>>
      PROVE Base'
  <2>1. i \in Items
    BY <1>1, Zenon DEF Base, HandlersOK, HandlerOK, RequestOK
  <2>2. TypeOK'
    BY <1>1, <2>1, Zenon DEF Base, TypeOK, MQTypeOK, tables, Owner, PCs
  <2>3. pc'[t] = "done" /\ \A u \in Txns \ {t} : pc'[u] = pc[u]
    BY <1>1, Zenon DEF Base, TypeOK
  <2>4. HandlersOK'
    BY <1>1, <2>3 DEF Base, HandlersOK, HandlerOK, RequestOK, tables
  <2>5. LocksHeld'
    <3> SUFFICES ASSUME NEW u \in Txns PROVE LocksHeldBy(u)'
      BY Zenon DEF LocksHeld
    <3>1. LocksHeldBy(u) /\ HandlerOK(u)
      BY Zenon DEF Base, LocksHeld, HandlersOK
    <3>2. \A j \in Items : chainLock[j] = u => chainLock'[j] = u
      BY <1>1, TxnsAssumption, Zenon DEF Base, TypeOK
    <3>3. CASE u = t
      BY <1>1, <2>1, <2>3, <3>1, <3>2, <3>3, Zenon
      DEF LocksHeldBy, HandlerOK, RequestOK, Base, TypeOK
    <3>4. CASE u # t
      BY <1>1, <2>3, <3>1, <3>2, <3>4, Zenon DEF LocksHeldBy, HandlerOK, RequestOK
    <3> QED BY <3>3, <3>4, Zenon
  <2>6. KeyLockHolders' /\ DevicesBelowTail'
    BY <1>1, <2>3, Zenon DEF Base, KeyLockHolders, DevicesBelowTail, tables
  <2> QED BY <2>2, <2>4, <2>5, <2>6, Zenon DEF Base
<1>2. CASE Fail(t)
  BY <1>2, BaseFail, Zenon
<1> QED BY <1>1, <1>2, Zenon DEF PostSettings, Goto, CanLockEntity
(* The links a commit makes visible. *)
Written(r) == {Item(r)} \cup (IF r.ppSeqno # 0 THEN {PPItem(r)} ELSE {})

(* They are on top of their chains, whose locks the transaction holds. *)
LEMMA WrittenFacts ==
  ASSUME Base, NEW t \in Txns, pc[t] = "done"
  PROVE /\ Written(req[t]) \subseteq Items
        /\ \A i \in Written(req[t]) : i[2] = tail[i[1]] + 1 /\ chainLock[i] = t
        /\ req[t].op # "post" => req[t].chain = UserChain
<1>1. HandlerOK(t) /\ LocksHeldBy(t)
  BY Zenon DEF Base, HandlersOK, LocksHeld
<1>2. Item(req[t]) \in Items /\ chainLock[Item(req[t])] = t
  BY <1>1, Zenon DEF HandlerOK, RequestOK, LocksHeldBy
<1>3. Item(req[t])[2] = tail[Item(req[t])[1]] + 1
  BY <1>1, Zenon DEF HandlerOK, RequestOK, Item
<1>4. req[t].ppSeqno # 0 => /\ PPItem(req[t]) \in Items /\ chainLock[PPItem(req[t])] = t
                            /\ PPItem(req[t])[2] = tail[PPItem(req[t])[1]] + 1
  BY <1>1, Zenon DEF HandlerOK, RequestOK, LocksHeldBy, PPItem
<1>5. req[t].op # "post" => req[t].chain = UserChain
  BY <1>1, Zenon DEF HandlerOK, RequestOK
<1> QED BY <1>2, <1>3, <1>4, <1>5, Zenon DEF Written

(* A commit keeps the chain locks and a revoked key's lock, and gives the  *)
(* others up.                                                              *)
LEMMA BaseCommitTx == ASSUME Base, NEW t \in Txns, CommitTx(t) PROVE Base'
<1> DEFINE r == req[t]
<1>1. pc[t] = "done" /\ pc' = [pc EXCEPT ![t] = "idle"] /\ req' = [req EXCEPT ![t] = NoRequest]
  BY Zenon DEF CommitTx, Goto
<1>2. /\ Written(r) \subseteq Items
      /\ \A i \in Written(r) : i[2] = tail[i[1]] + 1 /\ chainLock[i] = t
      /\ r.op # "post" => r.chain = UserChain
  BY <1>1, WrittenFacts, Zenon
<1>3. r \in Request
  BY RequestTypes, Zenon DEF Base
<1>4. tail' = [c \in Chains |-> IF \E i \in Written(r) : i[1] = c THEN tail[c] + 1 ELSE tail[c]]
  BY Zenon DEF CommitTx, Written
<1>5. /\ chainLock' = [i \in Items |-> IF chainLock[i] = t THEN Kept ELSE chainLock[i]]
      /\ keyLock' = [p \in KeyPairs |->
                       IF keyLock[p] # t THEN keyLock[p]
                       ELSE IF KeepsKeyLock(r, p) THEN Kept ELSE Free]
  BY Zenon DEF CommitTx
<1>6. r.seqno \in 1..MaxSeqno[r.chain]
  BY ZenonT(60), <1>2, <1>3, ItemFacts DEF Written, Item, Request
<1>7. dev' \in [Keys -> [seqno : KeySeqnos, epno : Nat]]
  <2>1. r.op = "provision" => r.seqno \in KeySeqnos
    BY <1>2, <1>6, ItemFacts DEF KeySeqnos
  <2>2. CASE r.op = "provision"
    BY <2>1, <2>2, <1>3, Zenon DEF CommitTx, InsertDevice, RemoveDevice, Base, TypeOK, Request
  <2>3. CASE r.op = "revoke"
    BY <2>3, <1>3, ItemFacts DEF CommitTx, RemoveDevice, Base, TypeOK, Request, NoDevice, KeySeqnos
  <2>4. CASE r.op \notin {"provision", "revoke"}
    BY <2>4, Zenon DEF CommitTx, Base, TypeOK
  <2> QED BY <2>2, <2>3, <2>4, Zenon
<1>8. TypeOK'
  <2>1. MQTypeOK'
    BY Zenon DEF CommitTx, QueueMerkleWork, Queued, Row, Base, TypeOK, MQTypeOK
  <2>2. chainLock' \in [Items -> Owner] /\ keyLock' \in [KeyPairs -> Owner]
    BY <1>5, Zenon DEF Base, TypeOK, Owner
  <2>3. revoked' \in SUBSET Revocation
    BY <1>3 DEF CommitTx, Base, TypeOK, Revocation, Request
  <2>4. link' \in [Items -> Link]
    BY ZenonT(60), <1>3 DEF CommitTx, Base, TypeOK, Link, Request, Ops
  <2>5. tail' \in [Chains -> Nat]
    BY <1>4 DEF Base, TypeOK
  <2>6. pc' \in [Txns -> PCs] /\ req' \in [Txns -> Request]
    BY <1>1, EldestAssumption, ItemFacts
    DEF Base, TypeOK, PCs, Request, NoRequest, Ops, KeySeqnos
  <2> QED BY <1>7, <2>1, <2>2, <2>3, <2>4, <2>5, <2>6, Zenon DEF TypeOK
<1>9. \A u \in Txns : pc'[u] # "idle" => u # t /\ pc'[u] = pc[u] /\ req'[u] = req[u]
  BY <1>1, Zenon DEF Base, TypeOK
<1>10. HandlersOK'
  <2> SUFFICES ASSUME NEW u \in Txns, pc'[u] # "idle" PROVE HandlerOK(u)'
    BY Zenon DEF HandlersOK, HandlerOK
  <2>1. u # t /\ pc'[u] = pc[u] /\ req'[u] = req[u]
    BY <1>9, Zenon
  <2>2. HandlerOK(u) /\ LocksHeldBy(u)
    BY Zenon DEF Base, HandlersOK, LocksHeld
  <2>3. req[u].chain \in Chains /\ req[u].seqno \in Nat
    BY RequestTypes, Zenon DEF Base
  <2>4. OnTail(req[u]) => \A i \in Written(r) : i[1] # req[u].chain
    BY <1>2, <2>1, <2>2, <2>3, ItemFacts DEF HandlerOK, RequestOK, LocksHeldBy, Item
  <2>5. OnTail(req[u]) => tail'[req[u].chain] = tail[req[u].chain]
    BY <1>4, <2>3, <2>4, Zenon
  <2>6. tail'[UserChain] # 0
    BY <1>4, <2>1, <2>2, ItemFacts DEF HandlerOK, RequestOK, Base, TypeOK
  <2>7. ASSUME pc[u] = "done", req[u].ppSeqno # 0
        PROVE  tail'[SettingsChain] = tail[SettingsChain]
    <3>1. \A i \in Written(r) : i[1] # SettingsChain
      BY <1>2, <2>1, <2>2, <2>7, ItemFacts DEF HandlerOK, RequestOK, LocksHeldBy, PPItem
    <3> QED BY <1>4, <3>1, ItemFacts, Zenon
  <2> QED BY <2>1, <2>2, <2>5, <2>6, <2>7, Zenon DEF HandlerOK, RequestOK
<1>11. LocksHeld'
  <2> SUFFICES ASSUME NEW u \in Txns PROVE LocksHeldBy(u)'
    BY Zenon DEF LocksHeld
  <2>1. CASE pc'[u] = "idle"
    BY <2>1, Zenon DEF LocksHeldBy
  <2>2. CASE pc'[u] # "idle"
    <3>1. u # t /\ pc'[u] = pc[u] /\ req'[u] = req[u]
      BY <2>2, <1>9, Zenon
    <3>2. Item(req[u]) \in Items /\ (req[u].ppSeqno # 0 => PPItem(req[u]) \in Items)
      BY <2>2, <3>1, Zenon DEF Base, HandlersOK, HandlerOK, RequestOK
    <3>3. SignerPair(req[u]) \in KeyPairs /\ TargetPair(req[u]) \in KeyPairs
      BY RequestTypes, Zenon DEF Base
    <3> QED BY <1>5, <3>1, <3>2, <3>3 DEF Base, LocksHeld, LocksHeldBy
  <2> QED BY <2>1, <2>2, Zenon
<1>12. KeyLockHolders'
  BY <1>1, <1>5, TxnsAssumption, Zenon DEF Base, KeyLockHolders, TypeOK
<1>13. DevicesBelowTail'
  <2> SUFFICES ASSUME NEW k \in Keys PROVE dev'[k].seqno <= tail'[UserChain]
    BY Zenon DEF DevicesBelowTail
  <2>1. dev[k].seqno <= tail[UserChain] /\ dev[k].seqno \in Nat /\ tail[UserChain] \in Nat
    BY ItemFacts DEF Base, DevicesBelowTail, TypeOK, KeySeqnos
  <2>2. tail'[UserChain] \in {tail[UserChain], tail[UserChain] + 1}
    BY <1>4, ItemFacts, Zenon
  <2>3. CASE r.op = "provision"
    <3>1. tail'[UserChain] = r.seqno /\ r.seqno = tail[UserChain] + 1
      BY ZenonT(60), <1>2, <1>4, <2>3, ItemFacts DEF Written, Item
    <3>2. dev'[k].seqno \in {dev[k].seqno, r.seqno}
      BY <2>3, <1>3, Zenon DEF CommitTx, InsertDevice, RemoveDevice, Base, TypeOK, Request
    <3> QED BY <2>1, <3>1, <3>2
  <2>4. CASE r.op # "provision"
    <3>1. dev'[k].seqno \in {dev[k].seqno, 0}
      BY <2>4, <1>3, Zenon DEF CommitTx, RemoveDevice, Base, TypeOK, Request, NoDevice
    <3> QED BY <2>1, <2>2, <3>1
  <2> QED BY <2>3, <2>4, Zenon
<1> QED BY <1>8, <1>10, <1>11, <1>12, <1>13, Zenon DEF Base

(* The batcher's update touches no lock and no request.                    *)
LEMMA BaseCheckTree ==
  ASSUME Base, NEW S \in SUBSET Items, CheckTreeForLeafUpdates(S)
  PROVE Base'
<1>1. MQTypeOK'
  BY DEF CheckTreeForLeafUpdates, CheckTree, Base, TypeOK, MQTypeOK, Row
<1>2. /\ dev' \in [Keys -> [seqno : KeySeqnos, epno : Nat]]
      /\ \A k \in Keys : dev'[k].seqno = dev[k].seqno
  <2>1. \A i \in Items : tree[i] \in Nat
    BY DEF Base, TypeOK, MQTypeOK
  <2>2. \A k \in Keys : (\E i \in S : Provisions(i) /\ link[i].target = k) =>
          tree[CHOOSE i \in S : Provisions(i) /\ link[i].target = k] \in Nat
    BY <2>1, Zenon
  <2> QED BY <2>2 DEF CheckTreeForLeafUpdates, Base, TypeOK
<1>3. revoked' \in SUBSET Revocation
  <2> SUFFICES ASSUME NEW w \in revoked' PROVE w \in Revocation
    BY Zenon
  <2> DEFINE hits(v) == {i \in S : /\ Revokes(i)
                                   /\ link[i].target = v.key
                                   /\ link[i].root = v.header}
  <2>1. PICK v \in revoked : w = IF hits(v) = {} THEN v
                                 ELSE [v EXCEPT !.tree = tree[CHOOSE i \in hits(v) : TRUE]]
    BY Zenon DEF CheckTreeForLeafUpdates
  <2>2. v \in Revocation
    BY Zenon DEF Base, TypeOK
  <2>3. hits(v) # {} => tree[CHOOSE i \in hits(v) : TRUE] \in Nat
    BY DEF Base, TypeOK, MQTypeOK
  <2> HIDE DEF hits
  <2> QED BY <2>1, <2>2, <2>3, Zenon DEF Revocation
<1>4. TypeOK'
  BY ZenonT(60), <1>1, <1>2, <1>3 DEF CheckTreeForLeafUpdates, Base, TypeOK
<1>5. HandlersOK' /\ LocksHeld' /\ KeyLockHolders'
  BY DEF CheckTreeForLeafUpdates, Base, HandlersOK, HandlerOK, RequestOK, LocksHeld,
         LocksHeldBy, KeyLockHolders
<1>6. DevicesBelowTail'
  BY <1>2, Zenon DEF CheckTreeForLeafUpdates, Base, DevicesBelowTail
<1> QED BY <1>4, <1>5, <1>6, Zenon DEF Base

(* The disjuncts of Next, with the handlers as one.                        *)
LEMMA NextSteps ==
  ASSUME [Next]_vars, Base, epno \in Nat \ {0}
  PROVE \/ Signup
        \/ \E t \in Txns : Starts(t) \/ Step(t) \/ AbortTx(t) \/ DeadlockVictim(t)
        \/ MQPipeline /\ UNCHANGED scvars
        \/ \E S \in SUBSET Items : CheckTreeForLeafUpdates(S)
        \/ UNCHANGED vars
<1>1. {"post", "provision", "revoke", "rotate"} \subseteq Ops /\ 0 \in Nat
      /\ PPSeqnos \subseteq Nat
  BY ItemFacts, MaxSeqnoAssumption DEF Ops, PPSeqnos
<1>2. ASSUME NEW t \in Txns, NEW k \in Keys, NEW new \in Keys, ProvisionDevice(t, k, new)
      PROVE Starts(t)
  BY Zenon, <1>1, <1>2, PrepareStarts DEF ProvisionDevice
<1>3. ASSUME NEW t \in Txns, NEW k \in Keys, NEW root,
             \/ PostGenericLink(t, k, root)
             \/ \E pp \in PPSeqnos :
                  \/ RotateKeys(t, k, root, pp)
                  \/ \E target \in Keys : RevokeDevice(t, k, target, root, pp)
      PROVE Starts(t)
  BY Zenon, <1>1, <1>3, PrepareStarts DEF PostGenericLink, RotateKeys, RevokeDevice
<1>4. ASSUME NEW t \in Txns, NEW op \in Ops, NEW k \in Keys, NEW target \in Keys,
             NEW n \in OffSeqnos[ChainOf(op)], PrepareOffTail(t, op, k, target, n)
      PROVE Starts(t)
  <2>1. n \in Nat
    BY OffSeqnosAssumption, ItemFacts, Zenon
  <2> QED BY Zenon, <1>4, <2>1, PrepareOffTailStarts
<1>5. FoundRows \subseteq Items
  BY Zenon DEF FoundRows
<1> QED BY Zenon, <1>2, <1>3, <1>4, <1>5 DEF Next, Pipeline

(* Every step keeps the base invariant.                                    *)
LEMMA BaseNext == Base /\ [Next]_vars => Base'
<1> SUFFICES ASSUME Base, [Next]_vars PROVE Base'
  BY Zenon
<1>1. CASE Signup
  BY <1>1, BaseSignup, Zenon
<1>2. ASSUME NEW t \in Txns, Starts(t) PROVE Base'
  BY <1>2, BaseStart, Zenon
<1>3. ASSUME NEW t \in Txns, Step(t) PROVE Base'
  BY <1>3, BaseLockSigner, BaseInsertLink, BasePostSettings, BaseCommitTx, Zenon DEF Step
<1>4. ASSUME NEW t \in Txns, AbortTx(t) \/ DeadlockVictim(t) PROVE Base'
  BY <1>4, BaseFail, Zenon DEF AbortTx, DeadlockVictim
<1>5. CASE MQPipeline /\ UNCHANGED scvars
  <2>1. MQTypeOK'
    BY <1>5 DEF MQPipeline, InsertKeyValue, StoreRoot, Base, TypeOK, MQTypeOK
  <2> QED BY ZenonT(60), <1>5, <2>1 DEF scvars, Base, TypeOK, HandlersOK, HandlerOK, RequestOK,
             LocksHeld, LocksHeldBy, KeyLockHolders, DevicesBelowTail
<1>6. ASSUME NEW S \in SUBSET Items, CheckTreeForLeafUpdates(S) PROVE Base'
  BY <1>6, BaseCheckTree, Zenon
<1>7. CASE UNCHANGED vars
  BY ZenonT(60), <1>7 DEF vars, scvars, Base, TypeOK, MQTypeOK, HandlersOK, HandlerOK, RequestOK,
              LocksHeld, LocksHeldBy, KeyLockHolders, DevicesBelowTail
<1> QED BY <1>1, <1>2, <1>3, <1>4, <1>5, <1>6, <1>7, NextSteps, Zenon DEF Base, TypeOK, MQTypeOK

(* In every behaviour a handler holds just the locks that its progress     *)
(* calls for, so at most one handler works on a chain's next seqno.        *)
THEOREM BaseInvariant == Spec => []Base
BY BaseInit, BaseNext, PTL DEF Spec

(* Every handler's request, the lock tables and the queue keep their types *)
(* for any number of devices, links and concurrent handlers.               *)
THEOREM TypeCorrect == Spec => []TypeOK
<1>1. Base => TypeOK
  BY Zenon DEF Base
<1> QED BY <1>1, BaseInvariant, PTL
-----------------------------------------------------------------------------
(* Layer 2: the handlers and the batcher's triggers implement MerkleQueue. *)

(* The links in the queue, committed or not, are those up to the tail. *)
QueueMatchesTail == \A i \in Items : wq[i].state # "none" <=> i[2] <= tail[i[1]]

QueueInv == Base /\ QueueMatchesTail

(* Every step is one of the queue's, and the queue stays as long as the    *)
(* chains.                                                                 *)
LEMMA QueueStep ==
  ASSUME QueueInv, [Next]_vars, Base'
  PROVE QueueMatchesTail' /\ [MQNext]_mqvars
<1> USE DEF QueueInv
<1>1. CASE Signup
  <2> DEFINE i1 == <<UserChain, 1>>
  <2>1. i1 \in Items /\ tail[UserChain] = 0 /\ tail' = [tail EXCEPT ![UserChain] = 1]
        /\ QueueMerkleWork({i1})
    BY <1>1, Zenon DEF Signup
  <2>2. InSeqnoOrder({i1})
    BY SMTT(60), <2>1, ItemFacts DEF InSeqnoOrder, QueueMatchesTail
  <2>3. QueueMatchesTail'
    BY <2>1, ItemFacts DEF QueueMatchesTail, QueueMerkleWork, Queued, Base, TypeOK
  <2> QED BY <2>1, <2>2, <2>3, Zenon DEF MQNext
<1>2. ASSUME NEW t \in Txns, CommitTx(t)
      PROVE  QueueMatchesTail' /\ MQNext
  <2> DEFINE W == Written(req[t])
  <2>1. /\ W \subseteq Items
        /\ \A i \in W : i[2] = tail[i[1]] + 1
    BY <1>2, WrittenFacts, Zenon DEF CommitTx, Goto
  <2>2. /\ QueueMerkleWork(W)
        /\ tail' = [c \in Chains |-> IF \E i \in W : i[1] = c THEN tail[c] + 1 ELSE tail[c]]
    BY <1>2, Zenon DEF CommitTx, Written
  <2> HIDE DEF W
  <2>3. tail \in [Chains -> Nat]
    BY Zenon DEF Base, TypeOK
  <2>4. InSeqnoOrder(W)
    BY <2>1, <2>3, ItemFacts DEF InSeqnoOrder, QueueMatchesTail
  <2>5. \A i \in Items : i \in W <=> (\E j \in W : j[1] = i[1]) /\ i[2] = tail[i[1]] + 1
    BY <2>1, ItemFacts
  <2>6. QueueMatchesTail'
    <3> SUFFICES ASSUME NEW i \in Items
                 PROVE  wq'[i].state # "none" <=> i[2] <= tail'[i[1]]
      BY Zenon DEF QueueMatchesTail
    <3>1. wq[i].state # "none" <=> i[2] <= tail[i[1]]
      BY Zenon DEF QueueMatchesTail
    <3>2. i[1] \in Chains /\ i[2] \in Nat /\ tail[i[1]] \in Nat
      BY <2>3, ItemFacts, Zenon
    <3>3. wq'[i].state # "none" <=> i \in W \/ wq[i].state # "none"
      BY <2>2, Zenon DEF QueueMerkleWork, Queued
    <3>4. tail'[i[1]] = IF \E j \in W : j[1] = i[1] THEN tail[i[1]] + 1 ELSE tail[i[1]]
      BY <2>2, <3>2, Zenon
    <3> QED BY <2>5, <3>1, <3>2, <3>3, <3>4
  <2> QED BY <2>1, <2>2, <2>4, <2>6, Zenon DEF MQNext
<1>3. CASE UNCHANGED <<wq, tree, epno, tail>>
  BY <1>3, Zenon DEF QueueMatchesTail, mqvars
<1>4. ASSUME NEW t \in Txns, Fail(t) PROVE UNCHANGED <<wq, tree, epno, tail>>
  BY <1>4, Zenon DEF Fail, Rollback, tables
<1>5. ASSUME NEW t \in Txns, Step(t)
      PROVE  CommitTx(t) \/ UNCHANGED <<wq, tree, epno, tail>>
  <2>1. LockSigner(t) => Fail(t) \/ UNCHANGED tables
    BY ZenonT(60) DEF LockSigner
  <2>2. InsertLink(t) => Fail(t) \/ UNCHANGED tables
    BY ZenonT(60) DEF InsertLink
  <2>3. PostSettings(t) => Fail(t) \/ UNCHANGED tables
    BY Zenon DEF PostSettings
  <2>4. CommitTx(t) \/ Fail(t) \/ UNCHANGED tables
    BY <1>5, <2>1, <2>2, <2>3, Zenon DEF Step
  <2> QED BY <1>4, <2>4, Zenon DEF tables
<1>6. ASSUME NEW t \in Txns, Starts(t) PROVE UNCHANGED <<wq, tree, epno, tail>>
  BY <1>6, Zenon DEF Starts, Start, tables
<1>7. CASE MQPipeline /\ UNCHANGED scvars
  BY <1>7, Zenon DEF MQPipeline, InsertKeyValue, StoreRoot, MQNext, scvars, QueueMatchesTail
<1>8. ASSUME NEW S \in SUBSET Items, CheckTreeForLeafUpdates(S)
      PROVE QueueMatchesTail' /\ MQNext
  <2>1. S \in SUBSET FoundRows
    BY <1>8, Zenon DEF CheckTreeForLeafUpdates, CheckTree, FoundRows
  <2>2. QueueMatchesTail'
    BY <1>8, Zenon DEF CheckTreeForLeafUpdates, CheckTree, QueueMatchesTail
  <2> QED BY <1>8, <2>1, <2>2, Zenon DEF CheckTreeForLeafUpdates, MQNext
<1>9. CASE UNCHANGED vars
  BY <1>9, <1>3, Zenon DEF vars, scvars
<1> QED
  BY <1>1, <1>2, <1>3, <1>4, <1>5, <1>6, <1>7, <1>8, <1>9, NextSteps, Zenon
  DEF AbortTx, DeadlockVictim, Base, TypeOK, MQTypeOK

(* The queue holds a row for each link of a chain and for no other.        *)
LEMMA QueueInvariant == Spec => []QueueInv
<1>1. Init => QueueInv
  BY BaseInit, ItemFacts DEF QueueInv, QueueMatchesTail, Init, MQInit, Absent
<1>2. QueueInv /\ [Next]_vars => QueueInv'
  BY BaseNext, QueueStep, Zenon DEF QueueInv
<1> QED BY <1>1, <1>2, PTL DEF Spec

(* The handlers keep their side of the queue's contract: whatever locks    *)
(* they race for, each link is queued once and after its predecessors.     *)
THEOREM ImplementsMerkleQueue == Spec => MQSpec
<1>1. Init => MQInit
  BY Zenon DEF Init
<1>2. QueueInv /\ [Next]_vars => [MQNext]_mqvars
  BY BaseNext, QueueStep, Zenon DEF QueueInv
<1> QED BY <1>1, <1>2, QueueInvariant, PTL DEF Spec, MQSpec

(* A root that contains a link of a user's chain contains all the earlier  *)
(* ones, however the handlers interleave with the batcher and builder.     *)
THEOREM SigChainsInOrder == Spec => []ChainOrder
BY ImplementsMerkleQueue, ChainOrderHolds, PTL
-----------------------------------------------------------------------------
(* Layer 3: a revocation covers everything the key signed. *)

(* The lock row of a revoked key stays in revoke_key_locks for good. *)
RevokedStayLocked == \A v \in revoked : keyLock[<<v.key, v.seqno>>] = Kept

(* What AssertNoRacingSigners found stays true until the revoke commits:   *)
(* whoever wants to sign with the key needs the lock row this handler has. *)
AssertionHolds(t) ==
  (pc[t] \in {"applied", "done"} /\ req[t].op = "revoke") =>
    \A i \in SignedBy(req[t].target, req[t].tseq) : tree[i] \in 1..req[t].root

AssertionsHold == \A t \in Txns : AssertionHolds(t)

RevokeInv ==
  /\ RevokedStayLocked
  /\ AssertionsHold
  /\ RevokeCoversSignatures
  /\ tail[UserChain] = 0 => revoked = {}

(* Steps that only append to the tree, and change no link or revocation. *)
LEMMA CoverStable ==
  ASSUME Base, RevokeInv, NEW k, NEW s, NEW h \in Nat,
         \A i \in SignedBy(k, s) : tree[i] \in 1..h,
         UNCHANGED link, \A i \in Items : tree[i] # 0 => tree'[i] = tree[i]
  PROVE \A i \in SignedBy(k, s)' : tree'[i] \in 1..h
BY DEF SignedBy, Revokes

(* A commit adds no link signed by a key that is revoked, and a revocation *)
(* only of a key all of whose links are in the root.                       *)
LEMMA RevokeCommitTx ==
  ASSUME Base, RevokeInv, NEW t \in Txns, CommitTx(t)
  PROVE RevokeInv'
<1> DEFINE r == req[t]
<1>1. /\ pc[t] = "done" /\ pc' = [pc EXCEPT ![t] = "idle"]
      /\ req' = [req EXCEPT ![t] = NoRequest]
      /\ keyLock' = [p \in KeyPairs |->
                       IF keyLock[p] # t THEN keyLock[p]
                       ELSE IF KeepsKeyLock(r, p) THEN Kept ELSE Free]
      /\ tree' = tree
  BY Zenon DEF CommitTx, Goto, QueueMerkleWork
<1>2. HandlerOK(t) /\ LocksHeldBy(t) /\ AssertionHolds(t) /\ r \in Request
  BY RequestTypes, Zenon DEF Base, HandlersOK, LocksHeld, RevokeInv, AssertionsHold
<1>3. SignerPair(r) \in KeyPairs /\ TargetPair(r) \in KeyPairs
  BY RequestTypes, Zenon DEF Base
<1>4. keyLock[SignerPair(r)] = t /\ (r.op = "revoke" => keyLock[TargetPair(r)] = t)
  BY <1>1, <1>2, Zenon DEF LocksHeldBy
<1>5. ASSUME NEW k \in Keys, NEW s \in KeySeqnos,
             <<k, s>> # SignerPair(r) \/ (r.op = "revoke" /\ r.target = k)
      PROVE  SignedBy(k, s)' \subseteq SignedBy(k, s)
  <2> SUFFICES ASSUME NEW i \in Items, i \in SignedBy(k, s)' PROVE i \in SignedBy(k, s)
    BY Zenon DEF SignedBy
  <2>1. CASE i \in Written(r)
    <3>1. i = Item(r) \/ (i # Item(r) /\ r.ppSeqno # 0 /\ i = PPItem(r))
      BY <2>1, Zenon DEF Written
    <3>2. /\ link'[i].kind = IF i = Item(r) THEN r.op ELSE "post"
          /\ link'[i].signer = r.signer /\ link'[i].sseq = r.sseq
          /\ i = Item(r) => link'[i].target = r.target
      BY <3>1, Zenon DEF CommitTx
    <3>3. r.signer = k /\ r.sseq = s /\ ~(link'[i].kind = "revoke" /\ link'[i].target = k)
      BY <3>2, Zenon DEF SignedBy, Revokes
    <3>4. r.op = "revoke" /\ r.target = k
      BY <3>3, <1>5, Zenon DEF SignerPair
    <3>5. r.ppSeqno = 0
      BY ZenonT(60), <3>3, <3>4, <1>1, <1>2 DEF HandlerOK
    <3> QED BY <3>1, <3>2, <3>3, <3>4, <3>5, Zenon
  <2>2. CASE i \notin Written(r)
    <3>1. link'[i] = link[i]
      BY <2>2, Zenon DEF CommitTx, Written
    <3> QED BY <3>1, Zenon DEF SignedBy, Revokes
  <2> QED BY <2>1, <2>2, Zenon
<1>6. ASSUME NEW v \in revoked'
      PROVE  /\ keyLock'[<<v.key, v.seqno>>] = Kept
             /\ \A i \in SignedBy(v.key, v.seqno)' : tree'[i] \in 1..v.header
  <2>1. CASE v \in revoked
    <3>1. v.key \in Keys /\ v.seqno \in KeySeqnos
      BY <2>1, Zenon DEF Base, TypeOK, Revocation
    <3>2. keyLock[<<v.key, v.seqno>>] = Kept /\ <<v.key, v.seqno>> # SignerPair(r)
      BY <2>1, <1>4, TxnsAssumption, Zenon DEF RevokeInv, RevokedStayLocked
    <3>3. SignedBy(v.key, v.seqno)' \subseteq SignedBy(v.key, v.seqno)
      BY <1>5, <3>1, <3>2, Zenon
    <3>4. \A i \in SignedBy(v.key, v.seqno) : tree[i] \in 1..v.header
      BY <2>1, Zenon DEF RevokeInv, RevokeCoversSignatures
    <3>5. keyLock'[<<v.key, v.seqno>>] = Kept
      BY <1>1, <3>1, <3>2, TxnsAssumption, Zenon DEF KeyPairs
    <3> QED BY <1>1, <3>3, <3>4, <3>5, Zenon
  <2>2. CASE v \notin revoked
    <3>1. r.op = "revoke" /\ v.key = r.target /\ v.seqno = r.tseq /\ v.header = r.root
      BY SMTT(60), <2>2 DEF CommitTx
    <3>2. SignedBy(v.key, v.seqno)' \subseteq SignedBy(v.key, v.seqno)
      BY <1>5, <1>2, <3>1, Zenon DEF Request
    <3>3. keyLock'[TargetPair(r)] = Kept
      BY <1>1, <1>3, <1>4, <3>1, Zenon DEF KeepsKeyLock
    <3> QED BY <1>1, <1>2, <3>1, <3>2, <3>3, Zenon DEF AssertionHolds, TargetPair
  <2> QED BY <2>1, <2>2, Zenon
<1>7. ASSUME NEW u \in Txns PROVE AssertionHolds(u)'
  <2> SUFFICES ASSUME pc'[u] \in {"applied", "done"}, req'[u].op = "revoke"
               PROVE \A i \in SignedBy(req[u].target, req[u].tseq)' :
                        tree[i] \in 1..req[u].root /\ req'[u] = req[u]
    BY <1>1, Zenon DEF AssertionHolds, SignedBy
  <2>1. u # t /\ pc'[u] = pc[u] /\ req'[u] = req[u]
    BY <1>1, Zenon DEF Base, TypeOK
  <2>2. keyLock[TargetPair(req[u])] = u
    BY <2>1, Zenon DEF Base, LocksHeld, LocksHeldBy
  <2>3. TargetPair(req[u]) # SignerPair(r)
    BY <1>4, <2>1, <2>2, Zenon
  <2>4. SignedBy(req[u].target, req[u].tseq)' \subseteq SignedBy(req[u].target, req[u].tseq)
    <3>1. req[u].target \in Keys /\ req[u].tseq \in KeySeqnos
      BY RequestTypes, Zenon DEF Base
    <3>2. \A i : i \in SignedBy(req[u].target, req[u].tseq)' <=>
             /\ i \in Items /\ link'[i].kind # "none" /\ link'[i].signer = req[u].target
             /\ link'[i].sseq = req[u].tseq
             /\ ~(link'[i].kind = "revoke" /\ link'[i].target = req[u].target)
      BY ZenonT(60), <2>1 DEF SignedBy, Revokes
    <3> QED BY SMTT(60), <1>5, <2>3, <3>1, <3>2 DEF TargetPair, SignedBy, Revokes
  <2>5. \A i \in SignedBy(req[u].target, req[u].tseq) : tree[i] \in 1..req[u].root
    BY <2>1, Zenon DEF RevokeInv, AssertionsHold, AssertionHolds
  <2> QED BY <2>1, <2>4, <2>5, Zenon
<1>8. tail'[UserChain] # 0
  <2>1. tail[UserChain] \in Nat \ {0}
    BY <1>1, <1>2, ItemFacts, Zenon DEF HandlerOK, RequestOK, Base, TypeOK
  <2>2. tail'[UserChain] \in {tail[UserChain], tail[UserChain] + 1}
    BY ItemFacts, Zenon DEF CommitTx
  <2> QED BY SMTT(60), <2>1, <2>2
<1> QED
  BY ZenonT(60), <1>6, <1>7, <1>8
  DEF RevokeInv, RevokedStayLocked, AssertionsHold, RevokeCoversSignatures

(* Every other step leaves links alone, only appends to the tree, and      *)
(* takes no kept lock away.                                                *)
LEMMA RevokeQuietStep ==
  ASSUME Base, RevokeInv, UNCHANGED <<link, tail>>,
         \A i \in Items : tree[i] # 0 => tree'[i] = tree[i],
         \A p \in KeyPairs : keyLock[p] = Kept => keyLock'[p] = Kept,
         \A w \in revoked' : \E v \in revoked :
            w.key = v.key /\ w.seqno = v.seqno /\ w.header = v.header,
         \A t \in Txns : \/ AssertionHolds(t)'
                         \/ pc'[t] \notin {"applied", "done"}
                         \/ pc'[t] = pc[t] /\ req'[t] = req[t]
  PROVE RevokeInv'
<1>1. ASSUME NEW w \in revoked'
      PROVE  /\ keyLock'[<<w.key, w.seqno>>] = Kept
             /\ \A i \in SignedBy(w.key, w.seqno)' : tree'[i] \in 1..w.header
  <2>1. PICK v \in revoked : w.key = v.key /\ w.seqno = v.seqno /\ w.header = v.header
    BY Zenon
  <2>2. v.key \in Keys /\ v.seqno \in KeySeqnos /\ v.header \in Nat
    BY ZenonT(60) DEF Base, TypeOK, Revocation
  <2>3. \A i \in SignedBy(v.key, v.seqno)' : tree'[i] \in 1..v.header
    BY ZenonT(60), <2>2, CoverStable DEF RevokeInv, RevokeCoversSignatures
  <2> QED BY ZenonT(60), <2>1, <2>2, <2>3 DEF RevokeInv, RevokedStayLocked, KeyPairs, SignedBy
<1>2. ASSUME NEW t \in Txns PROVE AssertionHolds(t)'
  <2> SUFFICES ASSUME pc'[t] \in {"applied", "done"}, req'[t].op = "revoke",
                      pc'[t] = pc[t], req'[t] = req[t]
               PROVE AssertionHolds(t)'
    BY Zenon DEF AssertionHolds
  <2>1. req[t].root \in Nat
    BY RequestTypes, Zenon DEF Base
  <2>2. \A i \in SignedBy(req[t].target, req[t].tseq) : tree[i] \in 1..req[t].root
    BY Zenon DEF RevokeInv, AssertionsHold, AssertionHolds
  <2>3. \A i \in SignedBy(req[t].target, req[t].tseq)' : tree'[i] \in 1..req[t].root
    BY <2>1, <2>2, CoverStable, Zenon
  <2> QED BY ZenonT(60), <2>3 DEF AssertionHolds, SignedBy
<1> QED
  BY ZenonT(60), <1>1, <1>2 DEF RevokeInv, RevokedStayLocked, AssertionsHold, RevokeCoversSignatures

(* The same for a step that changes none of these tables. *)
LEMMA RevokeSameTables ==
  ASSUME Base, RevokeInv, UNCHANGED <<link, tail, tree, revoked>>,
         \A p \in KeyPairs : keyLock[p] = Kept => keyLock'[p] = Kept,
         \A t \in Txns : \/ AssertionHolds(t)'
                         \/ pc'[t] \notin {"applied", "done"}
                         \/ pc'[t] = pc[t] /\ req'[t] = req[t]
  PROVE RevokeInv'
<1>1. \A w \in revoked' : \E v \in revoked :
         w.key = v.key /\ w.seqno = v.seqno /\ w.header = v.header
  BY Zenon
<1>2. \A i \in Items : tree[i] # 0 => tree'[i] = tree[i]
  BY Zenon
<1> QED BY Zenon, <1>1, <1>2, RevokeQuietStep

(* A rollback gives up no lock that a revocation left behind.              *)
LEMMA RevokeFail ==
  ASSUME Base, RevokeInv, NEW t \in Txns, Fail(t)
  PROVE RevokeInv'
<1>1. \A u \in Txns : pc'[u] = "idle" \/ (pc'[u] = pc[u] /\ req'[u] = req[u])
  BY Zenon DEF Fail, Base, TypeOK
<1>2. \A p \in KeyPairs : keyLock[p] = Kept => keyLock'[p] = Kept
  BY TxnsAssumption, Zenon DEF Fail, Rollback
<1>3. UNCHANGED <<link, tail, tree, revoked>>
  BY Zenon DEF Fail, Rollback, tables
<1>4. \A u \in Txns : \/ AssertionHolds(u)'
                      \/ pc'[u] \notin {"applied", "done"}
                      \/ pc'[u] = pc[u] /\ req'[u] = req[u]
  BY <1>1, Zenon
<1> QED BY <1>2, <1>3, <1>4, RevokeSameTables, Zenon

(* AssertNoRacingSigners holds when it is evaluated, and the locks then    *)
(* held make it last until the commit.                                     *)
LEMMA RevokeInsertLink ==
  ASSUME Base, RowsMatchTree, RevokeInv, NEW t \in Txns, InsertLink(t)
  PROVE RevokeInv'
<1> DEFINE r == req[t]
           p == IF RevokesAnother(r) THEN TargetPair(r) ELSE SignerPair(r)
<1>1. CASE Fail(t)
  BY <1>1, RevokeFail, Zenon
<1>2. ASSUME CanLockKey(p), keyLock' = [keyLock EXCEPT ![p] = t],
             UNCHANGED <<chainLock, req, tables>>,
             r.op = "revoke" => AssertNoRacingSigners(r.target, r.root),
             \A u \in Txns \ {t} : pc'[u] = pc[u]
      PROVE RevokeInv'
  <2>1. UNCHANGED <<link, tail, tree, revoked, wq>>
    BY ZenonT(60), <1>2 DEF tables
  <2>2. \A q \in KeyPairs : keyLock[q] = Kept => keyLock'[q] = Kept
    BY <1>2, Zenon DEF CanLockKey, Free, Kept, Base, TypeOK
  <2>3. ASSUME r.op = "revoke"
        PROVE  \A i \in SignedBy(r.target, r.tseq) : tree[i] \in 1..r.root
    <3> SUFFICES ASSUME NEW i \in Items, link[i].kind # "none", link[i].signer = r.target
                 PROVE tree[i] \in 1..r.root
      BY Zenon DEF SignedBy
    <3>1. wq[i].state = "committed" /\ wq[i].epno <= r.root
      BY ZenonT(60), <1>2, <2>3 DEF AssertNoRacingSigners
    <3>2. tree[i] # 0 /\ wq[i].epno = tree[i]
      BY <3>1, Zenon DEF RowsMatchTree
    <3>3. tree[i] \in Nat
      BY DEF Base, TypeOK, MQTypeOK
    <3>4. r.root \in Nat
      BY ZenonT(60), RequestTypes DEF Base
    <3> QED BY SMTT(60), <3>1, <3>2, <3>3, <3>4
  <2>4. AssertionHolds(t)'
    <3>1. r' = r
      BY <1>2, Zenon
    <3>2. SignedBy(r.target, r.tseq)' = SignedBy(r.target, r.tseq)
      BY <2>1, <3>1, Zenon DEF SignedBy, Revokes
    <3> QED BY <2>1, <2>3, <3>1, <3>2, Zenon DEF AssertionHolds
  <2>5. \A u \in Txns : AssertionHolds(u)' \/ (pc'[u] = pc[u] /\ req'[u] = req[u])
    BY <1>2, <2>4, Zenon
  <2>6. UNCHANGED <<link, tail, tree, revoked>>
    BY <2>1, Zenon
  <2>7. \A u \in Txns : \/ AssertionHolds(u)'
                        \/ pc'[u] \notin {"applied", "done"}
                        \/ pc'[u] = pc[u] /\ req'[u] = req[u]
    BY <2>5, Zenon
  <2> QED BY <2>2, <2>6, <2>7, RevokeSameTables, Zenon
<1>3. (\E from, to : Goto(t, from, to)) => \A u \in Txns \ {t} : pc'[u] = pc[u]
  BY Zenon DEF Goto, Base, TypeOK
<1> QED BY ZenonT(60), <1>1, <1>2, <1>3 DEF InsertLink

(* Every step keeps the revocation invariant.                              *)
LEMMA RevokeNext ==
  ASSUME Base, RowsMatchTree, RevokeInv, [Next]_vars
  PROVE RevokeInv'
<1>1. CASE Signup
  (* Eldest has never signed before, so no revocation is about this link. *)
  <2>1. /\ UNCHANGED <<tree, keyLock, revoked, pc, req>>
        /\ tail[UserChain] = 0
    BY ZenonT(60), <1>1 DEF Signup, QueueMerkleWork
  <2>2. \A t \in Txns : pc[t] = "idle"
    BY <2>1, Zenon DEF Base, HandlersOK, HandlerOK, RequestOK
  <2>3. revoked = {}
    BY <2>1, Zenon DEF RevokeInv
  <2> QED BY ZenonT(60), <2>1, <2>2, <2>3
          DEF RevokeInv, RevokedStayLocked, AssertionsHold, AssertionHolds, RevokeCoversSignatures
<1>2. ASSUME NEW t \in Txns, Fail(t) PROVE RevokeInv'
  BY <1>2, RevokeFail, Zenon
<1>3. ASSUME NEW t \in Txns, Starts(t) PROVE RevokeInv'
  <2>1. /\ UNCHANGED <<link, tail, tree, revoked, keyLock>>
        /\ pc' = [pc EXCEPT ![t] = "authorized"]
        /\ \A u \in Txns \ {t} : req'[u] = req[u]
    BY <1>3 DEF Starts, Start, tables, Goto, Base, TypeOK
  <2>2. \A u \in Txns : pc'[u] = "authorized" \/ (pc'[u] = pc[u] /\ req'[u] = req[u])
    BY <2>1, Zenon DEF Base, TypeOK
  <2>3. UNCHANGED <<link, tail, tree, revoked>>
    BY <2>1, Zenon
  <2>4. \A p \in KeyPairs : keyLock[p] = Kept => keyLock'[p] = Kept
    BY <2>1, Zenon
  <2>5. \A u \in Txns : \/ AssertionHolds(u)'
                        \/ pc'[u] \notin {"applied", "done"}
                        \/ pc'[u] = pc[u] /\ req'[u] = req[u]
    BY <2>2, Zenon
  <2> QED BY <2>3, <2>4, <2>5, RevokeSameTables, Zenon
<1>4. ASSUME NEW t \in Txns, LockSigner(t) PROVE RevokeInv'
  <2>1. CASE Fail(t)
    BY <2>1, RevokeFail, Zenon
  <2>2. CASE ~Fail(t)
    <3>1. /\ UNCHANGED <<link, tail, tree, revoked, req>>
          /\ pc' = [pc EXCEPT ![t] = "signerLocked"]
          /\ keyLock[SignerPair(req[t])] = Free
          /\ keyLock' = [keyLock EXCEPT ![SignerPair(req[t])] = t]
      BY <1>4, <2>2, Zenon DEF LockSigner, tables, Goto, CanLockKey
    <3>2. \A u \in Txns : pc'[u] = "signerLocked" \/ (pc'[u] = pc[u] /\ req'[u] = req[u])
      BY <3>1, Zenon DEF Base, TypeOK
    <3>3. \A p \in KeyPairs : keyLock[p] = Kept => keyLock'[p] = Kept
      BY <3>1, Zenon DEF Base, TypeOK, Free, Kept
    <3>4. UNCHANGED <<link, tail, tree, revoked>>
      BY <3>1, Zenon
    <3>5. \A u \in Txns : \/ AssertionHolds(u)'
                          \/ pc'[u] \notin {"applied", "done"}
                          \/ pc'[u] = pc[u] /\ req'[u] = req[u]
      BY <3>2, Zenon
    <3> QED BY <3>3, <3>4, <3>5, RevokeSameTables, Zenon
  <2> QED BY <2>1, <2>2, Zenon
<1>5. ASSUME NEW t \in Txns, PostSettings(t) PROVE RevokeInv'
  <2>1. CASE Fail(t)
    BY <2>1, RevokeFail, Zenon
  <2>2. CASE ~Fail(t)
    <3>1. /\ UNCHANGED <<link, tail, tree, revoked, req, keyLock>>
          /\ pc[t] = "applied" /\ pc' = [pc EXCEPT ![t] = "done"]
      BY <1>5, <2>2, Zenon DEF PostSettings, tables, Goto
    <3>2. \A u \in Txns \ {t} : pc'[u] = pc[u] /\ req'[u] = req[u]
      BY <3>1, Zenon DEF Base, TypeOK
    <3>3. AssertionHolds(t)
      BY Zenon DEF RevokeInv, AssertionsHold
    <3>4. AssertionHolds(t)'
      BY <3>1, <3>3, Zenon DEF AssertionHolds, SignedBy, Revokes
    <3>5. \A u \in Txns : AssertionHolds(u)' \/ (pc'[u] = pc[u] /\ req'[u] = req[u])
      BY <3>2, <3>4, Zenon
    <3>6. UNCHANGED <<link, tail, tree, revoked>>
      BY <3>1, Zenon
    <3>7. \A p \in KeyPairs : keyLock[p] = Kept => keyLock'[p] = Kept
      BY <3>1, Zenon
    <3>8. \A u \in Txns : \/ AssertionHolds(u)'
                          \/ pc'[u] \notin {"applied", "done"}
                          \/ pc'[u] = pc[u] /\ req'[u] = req[u]
      BY <3>5, Zenon
    <3> QED BY <3>6, <3>7, <3>8, RevokeSameTables, Zenon
  <2> QED BY <2>1, <2>2, Zenon
<1>6. ASSUME NEW t \in Txns, Step(t) PROVE RevokeInv'
  BY <1>4, <1>5, <1>6, RevokeInsertLink, RevokeCommitTx, Zenon DEF Step
<1>7. CASE MQPipeline /\ UNCHANGED scvars
  <2>1. UNCHANGED <<link, tail, revoked, keyLock, pc, req>>
    BY <1>7, Zenon DEF scvars
  <2>2. \A i \in Items : tree[i] # 0 => tree'[i] = tree[i]
    BY <1>7, Zenon DEF MQPipeline, InsertKeyValue, StoreRoot, Base, TypeOK, MQTypeOK
  <2> QED BY <2>1, <2>2, RevokeQuietStep, Zenon
<1>8. ASSUME NEW S \in SUBSET Items, CheckTreeForLeafUpdates(S) PROVE RevokeInv'
  <2>1. UNCHANGED <<link, tail, keyLock, pc, req, tree>>
    BY <1>8, Zenon DEF CheckTreeForLeafUpdates, CheckTree
  <2>2. \A w \in revoked' : \E v \in revoked :
          w.key = v.key /\ w.seqno = v.seqno /\ w.header = v.header
    BY <1>8, Zenon DEF CheckTreeForLeafUpdates, Base, TypeOK, Revocation
  <2> QED BY <2>1, <2>2, RevokeQuietStep, Zenon
<1>9. CASE UNCHANGED vars
  <2>1. UNCHANGED <<link, tail, tree, revoked, keyLock, pc, req>>
    BY <1>9, Zenon DEF vars, scvars
  <2> QED BY <2>1, RevokeSameTables, Zenon
<1> QED
  BY <1>1, <1>2, <1>3, <1>6, <1>7, <1>8, <1>9, NextSteps, Zenon
  DEF AbortTx, DeadlockVictim, Base, TypeOK, MQTypeOK

(* docs/revoke_locks.md, for any number of devices, links and concurrent   *)
(* handlers: the root that a revocation names contains every link the      *)
(* revoked key signed between its provisioning and its revocation.         *)
THEOREM RevocationsCoverSignatures == Spec => []RevokeCoversSignatures
<1>1. Init => RevokeInv
  BY Zenon DEF Init, RevokeInv, RevokedStayLocked, AssertionsHold, AssertionHolds,
         RevokeCoversSignatures
<1>2. MQInv => RowsMatchTree
  BY Zenon DEF MQInv
<1>3. Base /\ RowsMatchTree /\ RevokeInv /\ [Next]_vars => RevokeInv'
  BY RevokeNext, Zenon
<1>4. RevokeInv => RevokeCoversSignatures
  BY Zenon DEF RevokeInv
<1> QED
  BY <1>1, <1>2, <1>3, <1>4, BaseInvariant, ImplementsMerkleQueue, MQInvariant, PTL DEF Spec
=============================================================================

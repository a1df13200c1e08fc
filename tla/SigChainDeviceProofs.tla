------------------------ MODULE SigChainDeviceProofs ------------------------
(* Further proofs about the sigchain handlers: which of them cannot        *)
(* deadlock, the tables the batcher's triggers update, and that a signer   *)
(* stays a device until its link is committed.                             *)
EXTENDS SigChainProofs

USE DEF ChainOf, OnTail, RevokesItself

-----------------------------------------------------------------------------
(* Deadlock. *)

(* A handler that others wait for holds a key lock; one that also waits is *)
(* a revoke between its two key locks, and if it builds on the tail, it    *)
(* holds the lock of the user chain's next seqno, which only one can.      *)
LEMMA BaseNoWaitCycle ==
  ASSUME Base, ~WithPassphrase
  PROVE NoWaitCycleOnTail
<1> SUFFICES ASSUME NEW C \in SUBSET Txns, WaitCycle(C), \A t \in C : OnTail(req[t])
             PROVE FALSE
  BY Zenon DEF NoWaitCycleOnTail
<1>1. ASSUME NEW u \in C
      PROVE  pc[u] \in {"authorized", "signerLocked"}
  <2>1. PICK w \in C : w # u /\ WantedOwner(u) = w
    BY Zenon DEF WaitCycle, WaitsFor
  <2>2. w # Free
    BY TxnsAssumption, Zenon
  <2>3. pc[u] \in {"authorized", "signerLocked", "applied"}
    BY <2>1, <2>2, Zenon DEF WantedOwner
  <2>4. pc[u] # "applied"
    BY Zenon DEF Base, HandlersOK, HandlerOK, RequestOK
  <2> QED BY <2>3, <2>4, Zenon
<1>2. ASSUME NEW u \in C
      PROVE  chainLock[<<UserChain, tail[UserChain] + 1>>] = u
  <2>1. PICK t \in C : WantedOwner(t) = u
    BY Zenon DEF WaitCycle, WaitsFor
  <2>2. \E p \in KeyPairs : keyLock[p] = u
    <3>1. pc[t] \in {"authorized", "signerLocked"}
      BY <1>1, Zenon
    <3>2. SignerPair(req[t]) \in KeyPairs /\ TargetPair(req[t]) \in KeyPairs
      BY RequestTypes, Zenon DEF Base
    <3> QED BY <2>1, <3>1, <3>2, Zenon DEF WantedOwner
  <2>3. pc[u] = "signerLocked"
    BY <1>1, <2>2, Zenon DEF Base, KeyLockHolders
  <2>4. HandlerOK(u) /\ LocksHeldBy(u)
    BY Zenon DEF Base, HandlersOK, LocksHeld
  <2>5. RevokesAnother(req[u]) /\ RequestOK(req[u]) /\ chainLock[Item(req[u])] = u
    BY Zenon, <2>3, <2>4 DEF HandlerOK, LocksHeldBy
  <2>6. req[u].chain = UserChain /\ req[u].seqno = tail[UserChain] + 1
    BY <2>5, Zenon DEF RequestOK, RevokesAnother
  <2> QED BY Zenon, <2>5, <2>6 DEF Item
<1>3. PICK t \in C, u \in C : u # t
  BY DEF WaitCycle, WaitsFor
<1> QED BY <1>2, <1>3, Zenon

(* Handlers of a user without a passphrase wait for one another in a ring  *)
(* only if one of them carries a link that is not on top of the tail, and  *)
(* so would be refused, however many of them run.  (With a passphrase      *)
(* there are rings of links that are all on top of their tails.)           *)
THEOREM NoDeadlockOnTail == ~WithPassphrase => (Spec => []NoWaitCycleOnTail)
<1> SUFFICES ASSUME ~WithPassphrase PROVE Spec => []NoWaitCycleOnTail
  BY Zenon
<1>1. Base => NoWaitCycleOnTail
  BY BaseNoWaitCycle, Zenon
<1> QED BY <1>1, BaseInvariant, PTL
-----------------------------------------------------------------------------
(* The device tables and the links that explain them. *)

DeviceRowOK(k) ==
  /\ dev[k].seqno = 0 => dev[k].epno = 0
  /\ dev[k].epno # 0 => /\ wq[<<UserChain, dev[k].seqno>>].state = "committed"
                        /\ dev[k].epno = tree[<<UserChain, dev[k].seqno>>]

DeviceRowsOK == \A k \in Keys : DeviceRowOK(k)

(* revoked_device_keys has (key, header) as its primary key. *)
RevokedRowsOK ==
  /\ \A v \in revoked : /\ <<UserChain, v.at>> \in Items
                        /\ v.at <= tail[UserChain]
                        /\ v.tree # 0 => v.tree = tree[<<UserChain, v.at>>]
  /\ \A v, w \in revoked : (v.key = w.key /\ v.header = w.header) => v = w

DeviceLinksOnUserChain ==
  \A i \in Items : (Provisions(i) \/ Revokes(i)) => i[1] = UserChain

PostsNameSigners == \A i \in Items : link[i].kind = "post" => link[i].sseq # 0

Tables ==
  /\ PostsNameSigners
  /\ DeviceRowsOK
  /\ RevokedRowsOK
  /\ DeviceLinksOnUserChain
  /\ TriggersResolve
  /\ SignaturesFollowProvisioning
  /\ SomeDeviceRemains

(* What a handler on top of the user chain has read stays true while it    *)
(* holds the lock of the next seqno.                                       *)
UserReads(t) ==
  (pc[t] # "idle" /\ req[t].chain = UserChain /\ OnTail(req[t])) =>
    LET r == req[t] IN
    /\ dev[r.signer].seqno = r.sseq
    /\ r.op = "revoke" => /\ dev[r.target].epno # 0 /\ dev[r.target].seqno = r.tseq
                          /\ \E other \in Keys \ {r.target} : IsCurrent(other)
    /\ pc[t] \in {"applied", "done"} => DeviceRowsFit(r)

(* What VerifyGenericLink found out about the signer. *)
SettingsReads(t) ==
  (pc[t] # "idle" /\ req[t].op = "post" /\ OnTail(req[t]))
  \/ (pc[t] = "done" /\ req[t].ppSeqno # 0) =>
    req[t].sseq # 0 /\ tree[<<UserChain, req[t].sseq>>] \in 1..req[t].root

Reads == \A t \in Txns : UserReads(t) /\ SettingsReads(t)

DeviceInv == Tables /\ Reads

(* A device row names a link that exists. *)
LEMMA DeviceItems ==
  ASSUME Base, NEW k \in Keys, dev[k].seqno # 0
  PROVE <<UserChain, dev[k].seqno>> \in Items
BY ItemFacts DEF Base, TypeOK, KeySeqnos

(* What VerifyGenericLink has checked: the signer's provisioning link is   *)
(* in the tree, within the root.                                           *)
LEMMA VerifiedSigner ==
  ASSUME Base, DeviceInv, NEW k \in Keys, NEW root, VerifyGenericLink(k, root)
  PROVE dev[k].seqno # 0 /\ tree[<<UserChain, dev[k].seqno>>] \in 1..root
BY DEF VerifyGenericLink, IsCurrent, DeviceInv, Tables, DeviceRowsOK, DeviceRowOK

(* Steps that change no table but the lock tables. *)
LEMMA TablesUnchanged ==
  ASSUME Tables, UNCHANGED tables
  PROVE Tables'
BY Zenon DEF Tables, tables, DeviceRowsOK, DeviceRowOK, RevokedRowsOK, DeviceLinksOnUserChain,
       TriggersResolve, Provisions, Revokes, SignaturesFollowProvisioning,
       SomeDeviceRemains, PostsNameSigners, IsCurrent

(* What a handler has read stays true while no table changes.              *)
LEMMA ReadsUnchanged ==
  ASSUME UNCHANGED tables, NEW u \in Txns, UserReads(u), SettingsReads(u),
         pc'[u] = "idle" \/ (pc'[u] = pc[u] /\ req'[u] = req[u])
  PROVE UserReads(u)' /\ SettingsReads(u)'
BY Zenon DEF tables, UserReads, SettingsReads, IsCurrent, DeviceRowsFit

(* A rollback leaves tables and the other handlers' reads alone.           *)
LEMMA DeviceFail ==
  ASSUME Base, DeviceInv, NEW t \in Txns, Fail(t)
  PROVE DeviceInv'
<1>1. UNCHANGED tables /\ \A u \in Txns : pc'[u] = "idle" \/ (pc'[u] = pc[u] /\ req'[u] = req[u])
  BY Zenon DEF Fail, Rollback, Base, TypeOK
<1> QED BY <1>1, TablesUnchanged, ReadsUnchanged, Zenon DEF DeviceInv, Reads

(* A handler that starts reads what the tables hold.                       *)
LEMMA DeviceStart ==
  ASSUME Base, DeviceInv, NEW t \in Txns, Starts(t)
  PROVE DeviceInv'
<1>1. PICK r \in Request, root \in Nat : Fresh(r, root) /\ Start(t, r, root)
  BY Zenon DEF Starts
<1>2. /\ UNCHANGED tables
      /\ pc'[t] = "authorized" /\ req'[t] = r
      /\ \A u \in Txns \ {t} : pc'[u] = pc[u] /\ req'[u] = req[u]
  BY <1>1, Zenon DEF Start, Goto, Base, TypeOK
<1>3. Authorized(r, root) /\ r.sseq = dev[r.signer].seqno /\ r.signer \in Keys
      /\ (OnTail(r) => r.root = root)
      /\ (r.op = "revoke" => r.tseq = dev[r.target].seqno)
  BY <1>1, Zenon DEF Start, Fresh, Request
<1>4. UserReads(t)'
  BY <1>2, <1>3, Zenon DEF UserReads, Authorized, CheckDeviceRevoke, CheckDeviceInTree, IsCurrent,
     tables
<1>5. SettingsReads(t)'
  <2>1. CASE r.op = "post" /\ OnTail(r)
    BY <1>2, <1>3, <2>1, VerifiedSigner, Zenon DEF SettingsReads, Authorized, tables
  <2>2. CASE ~(r.op = "post" /\ OnTail(r))
    BY <1>2, <2>2, Zenon DEF SettingsReads
  <2> QED BY <2>1, <2>2, Zenon
<1>6. \A u \in Txns \ {t} : UserReads(u)' /\ SettingsReads(u)'
  BY <1>2, ReadsUnchanged, Zenon DEF DeviceInv, Reads
<1> QED BY <1>2, <1>4, <1>5, <1>6, TablesUnchanged, Zenon DEF DeviceInv, Reads

(* The statements between the start of a handler and its commit.           *)
LEMMA DeviceStep ==
  ASSUME Base, DeviceInv, NEW t \in Txns, LockSigner(t) \/ InsertLink(t) \/ PostSettings(t)
  PROVE DeviceInv'
<1>1. CASE Fail(t)
  BY <1>1, DeviceFail, Zenon
<1>2. CASE ~Fail(t)
  <2>1. /\ UNCHANGED <<req, tables>>
        /\ \A u \in Txns \ {t} : pc'[u] = pc[u]
        /\ pc[t] # "idle"
    BY <1>2, Zenon DEF LockSigner, InsertLink, PostSettings, Goto, Base, TypeOK
  <2>2. UserReads(t) /\ SettingsReads(t) /\ HandlerOK(t)
    BY Zenon DEF DeviceInv, Reads, Base, HandlersOK
  <2>3. pc'[t] \in {"applied", "done"} => DeviceRowsFit(req[t]) \/ pc[t] = "applied"
    BY <1>2, Zenon DEF LockSigner, InsertLink, PostSettings, Goto, Base, TypeOK
  <2>4. UserReads(t)'
    BY <2>1, <2>2, <2>3, Zenon DEF UserReads, tables, IsCurrent, DeviceRowsFit
  <2>5. SettingsReads(t)'
    <3>1. CASE pc'[t] = "done" /\ req[t].ppSeqno # 0
      <4>1. VerifyGenericLink(req[t].signer, req[t].root) /\ pc[t] = "applied"
        BY <1>2, <3>1, Zenon DEF LockSigner, InsertLink, PostSettings, Goto, Base, TypeOK
      <4>2. req[t].chain = UserChain /\ OnTail(req[t])
        <5>1. RequestOK(req[t]) /\ OnTail(req[t])
          BY Zenon, <2>2, <4>1 DEF HandlerOK
        <5> QED BY <3>1, <5>1, Zenon DEF RequestOK
      <4>3. dev[req[t].signer].seqno = req[t].sseq /\ req[t].signer \in Keys
        BY <2>2, <4>1, <4>2, RequestTypes, Zenon DEF UserReads, Base
      <4> QED BY <2>1, <4>1, <4>3, VerifiedSigner, Zenon DEF SettingsReads, tables
    <3>2. CASE ~(pc'[t] = "done" /\ req[t].ppSeqno # 0)
      BY <2>1, <2>2, <3>2, Zenon DEF SettingsReads, tables
    <3> QED BY <3>1, <3>2, Zenon
  <2>6. \A u \in Txns \ {t} : UserReads(u)' /\ SettingsReads(u)'
    BY <2>1, ReadsUnchanged, Zenon DEF DeviceInv, Reads
  <2> QED BY <2>1, <2>4, <2>5, <2>6, TablesUnchanged, Zenon DEF DeviceInv, Reads
<1> QED BY <1>1, <1>2, Zenon

(* Signup makes the first device row, for the first link.                  *)
LEMMA DeviceSignup ==
  ASSUME QueueInv, DeviceInv, Signup
  PROVE DeviceInv'
<1> DEFINE i1 == <<UserChain, 1>>
<1>1. /\ i1 \in Items /\ tail[UserChain] = 0
      /\ link' = [link EXCEPT ![i1] = [kind |-> "eldest", signer |-> Eldest, sseq |-> 1,
                                       target |-> Eldest, root |-> 0]]
      /\ tail' = [tail EXCEPT ![UserChain] = 1]
      /\ dev' = [dev EXCEPT ![Eldest] = [seqno |-> 1, epno |-> 0]]
      /\ wq' = [i \in Items |-> IF i \in {i1} THEN Queued ELSE wq[i]]
      /\ UNCHANGED <<tree, revoked, pc, req>>
  BY Zenon DEF Signup, QueueMerkleWork
<1>2. \A t \in Txns : pc[t] = "idle"
  BY <1>1, Zenon DEF QueueInv, Base, HandlersOK, HandlerOK, RequestOK
<1>3. \A k \in Keys : dev[k].seqno = 0 /\ dev[k].epno = 0
  <2>1. \A k \in Keys : dev[k].seqno = 0
    BY <1>1, ItemFacts DEF QueueInv, Base, DevicesBelowTail, TypeOK, KeySeqnos
  <2> QED BY ZenonT(60), <2>1 DEF DeviceInv, Tables, DeviceRowsOK, DeviceRowOK
<1>4. revoked = {}
  <2> SUFFICES ASSUME NEW v \in revoked PROVE FALSE
    BY Zenon
  <2>1. <<UserChain, v.at>> \in Items /\ v.at \in Nat /\ v.at <= 0
    BY <1>1, Zenon DEF DeviceInv, Tables, RevokedRowsOK, QueueInv, Base, TypeOK, Revocation
  <2>2. v.at \in 1..MaxSeqno[UserChain]
    BY <2>1, ItemFacts, Zenon
  <2> QED BY <2>1, <2>2, ItemFacts
<1>5. \A i \in Items : i[1] = UserChain => wq[i].state = "none"
  BY <1>1, ItemFacts DEF QueueInv, QueueMatchesTail
<1>6. link \in [Items -> Link] /\ dev \in [Keys -> [seqno : KeySeqnos, epno : Nat]]
      /\ tail \in [Chains -> Nat]
  BY Zenon DEF QueueInv, Base, TypeOK
<1>7. DeviceRowsOK'
  BY <1>1, <1>3, <1>6, EldestAssumption, Zenon DEF DeviceRowsOK, DeviceRowOK
<1>8. RevokedRowsOK'
  BY <1>1, <1>4, Zenon DEF RevokedRowsOK
<1>9. DeviceLinksOnUserChain'
  BY <1>1, <1>6 DEF DeviceLinksOnUserChain, Provisions, Revokes, DeviceInv, Tables
<1>10. TriggersResolve'
  <2> SUFFICES ASSUME NEW i \in Items, wq'[i].state = "queued"
               PROVE /\ Provisions(i)' => dev'[link'[i].target].seqno = i[2]
                     /\ ~Revokes(i)'
    BY Zenon DEF TriggersResolve
  <2>1. CASE i = i1
    BY <1>1, <1>6, <2>1, EldestAssumption, Zenon DEF Provisions, Revokes
  <2>2. CASE i # i1
    BY <1>1, <1>5, <2>2 DEF DeviceInv, Tables, DeviceLinksOnUserChain, Provisions, Revokes
  <2> QED BY <2>1, <2>2, Zenon
<1>11. SignaturesFollowProvisioning' /\ PostsNameSigners'
  BY <1>1, <1>6, Zenon DEF SignaturesFollowProvisioning, PostsNameSigners, DeviceInv, Tables
<1>12. SomeDeviceRemains'
  BY SMTT(60), <1>1, <1>6, EldestAssumption DEF SomeDeviceRemains, IsCurrent
<1>13. Reads'
  BY <1>1, <1>2, Zenon DEF Reads, UserReads, SettingsReads
<1> QED BY <1>7, <1>8, <1>9, <1>10, <1>11, <1>12, <1>13, Zenon DEF DeviceInv, Tables

(* A new root, with or without a leaf of this user.                        *)
LEMMA DeviceInsertKeyValue ==
  ASSUME Base, DeviceInv, MQPipeline, UNCHANGED scvars
  PROVE DeviceInv'
<1>1. UNCHANGED <<wq, dev, revoked, link, tail, pc, req>>
  BY Zenon DEF MQPipeline, InsertKeyValue, StoreRoot, scvars
<1>2. \A i \in Items : tree[i] # 0 => tree'[i] = tree[i]
  BY Zenon DEF MQPipeline, InsertKeyValue, StoreRoot, Base, TypeOK, MQTypeOK
<1>3. \A n \in KeySeqnos : <<UserChain, n>> \in Items \/ n = 0
  BY ItemFacts DEF KeySeqnos
<1>4. DeviceRowsOK'
  <2> SUFFICES ASSUME NEW k \in Keys PROVE DeviceRowOK(k)'
    BY Zenon DEF DeviceRowsOK
  <2>1. DeviceRowOK(k)
    BY Zenon DEF DeviceInv, Tables, DeviceRowsOK
  <2>2. dev[k].seqno = 0 \/ <<UserChain, dev[k].seqno>> \in Items
    BY DeviceItems, Zenon
  <2> QED BY <1>1, <1>2, <2>1, <2>2, Zenon DEF DeviceRowOK
<1>5. RevokedRowsOK'
  BY <1>1, <1>2, Zenon DEF DeviceInv, Tables, RevokedRowsOK
<1>6. DeviceLinksOnUserChain' /\ TriggersResolve' /\ SomeDeviceRemains'
  BY <1>1, Zenon DEF DeviceInv, Tables, DeviceLinksOnUserChain, TriggersResolve, Provisions,
              Revokes, SomeDeviceRemains, IsCurrent
<1>7. ASSUME NEW n \in KeySeqnos, NEW h, n # 0, tree[<<UserChain, n>>] \in 1..h
      PROVE  tree'[<<UserChain, n>>] \in 1..h
  BY SMTT(60), <1>2, <1>3, <1>7
<1>8. SignaturesFollowProvisioning' /\ PostsNameSigners'
  <2>1. \A i \in Items : link[i].sseq \in KeySeqnos
    BY Zenon DEF Base, TypeOK, Link
  <2> QED BY <1>1, <1>7, <2>1, Zenon
          DEF DeviceInv, Tables, SignaturesFollowProvisioning, PostsNameSigners
<1>9. Reads'
  <2> SUFFICES ASSUME NEW t \in Txns PROVE UserReads(t)' /\ SettingsReads(t)'
    BY Zenon DEF Reads
  <2>1. UserReads(t) /\ SettingsReads(t) /\ req[t].sseq \in KeySeqnos
    BY RequestTypes, Zenon DEF DeviceInv, Reads, Base
  <2>2. UserReads(t)'
    BY <1>1, <2>1, Zenon DEF UserReads, IsCurrent, DeviceRowsFit
  <2>3. SettingsReads(t)'
    BY <1>1, <1>7, <2>1, Zenon DEF SettingsReads
  <2> QED BY <2>2, <2>3, Zenon
<1> QED BY <1>4, <1>5, <1>6, <1>8, <1>9, Zenon DEF DeviceInv, Tables

(* The batcher copies epochs beside the keys: to the row of the link at    *)
(* hand, and to no other.                                                  *)
LEMMA DeviceCheckTree ==
  ASSUME Base, RowsMatchTree, DeviceInv, NEW S \in SUBSET Items, CheckTreeForLeafUpdates(S)
  PROVE DeviceInv'
<1>1. /\ \A i \in S : wq[i].state = "queued" /\ tree[i] # 0
      /\ \A i \in Items : wq'[i] = IF i \in S THEN [state |-> "committed", epno |-> tree[i]]
                                   ELSE wq[i]
      /\ UNCHANGED <<tree, link, tail, pc, req>>
  BY Zenon DEF CheckTreeForLeafUpdates, CheckTree
<1>2. /\ TriggersResolve /\ DeviceRowsOK /\ RevokedRowsOK /\ DeviceLinksOnUserChain
      /\ SignaturesFollowProvisioning /\ PostsNameSigners /\ SomeDeviceRemains
  BY Zenon DEF DeviceInv, Tables
<1>3. dev' = [k \in Keys |->
               IF \E i \in S : Provisions(i) /\ link[i].target = k
               THEN [dev[k] EXCEPT !.epno =
                       tree[CHOOSE i \in S : Provisions(i) /\ link[i].target = k]]
               ELSE dev[k]]
  BY Zenon DEF CheckTreeForLeafUpdates
<1>4. ASSUME NEW k \in Keys
      PROVE  /\ dev'[k].seqno = dev[k].seqno
             /\ dev'[k].epno # dev[k].epno =>
                  /\ dev[k].seqno # 0
                  /\ <<UserChain, dev[k].seqno>> \in S
                  /\ dev'[k].epno = tree[<<UserChain, dev[k].seqno>>]
  <2>1. dev[k] \in [seqno : KeySeqnos, epno : Nat]
    BY Zenon DEF Base, TypeOK
  <2>2. CASE \E i \in S : Provisions(i) /\ link[i].target = k
    <3> DEFINE j == CHOOSE i \in S : Provisions(i) /\ link[i].target = k
    <3>1. j \in S /\ Provisions(j) /\ link[j].target = k
      BY <2>2, Zenon
    <3>2. dev'[k] = [dev[k] EXCEPT !.epno = tree[j]]
      BY <1>3, <2>2, Zenon
    <3> HIDE DEF j
    <3>3. dev[k].seqno = j[2] /\ j[1] = UserChain
      BY <1>1, <1>2, <3>1, Zenon DEF TriggersResolve, DeviceLinksOnUserChain
    <3>4. j = <<UserChain, dev[k].seqno>> /\ dev[k].seqno # 0
      BY <3>1, <3>3, ItemFacts, Zenon
    <3> QED BY <2>1, <3>1, <3>2, <3>4, Zenon
  <2>3. CASE ~\E i \in S : Provisions(i) /\ link[i].target = k
    BY <1>3, <2>3, Zenon
  <2> QED BY <2>2, <2>3, Zenon
<1>5. DeviceRowsOK'
  <2> SUFFICES ASSUME NEW k \in Keys PROVE DeviceRowOK(k)'
    BY Zenon DEF DeviceRowsOK
  <2>1. DeviceRowOK(k) /\ (dev[k].seqno # 0 => <<UserChain, dev[k].seqno>> \in Items)
    BY <1>2, DeviceItems, Zenon DEF DeviceRowsOK
  <2>2. CASE dev'[k].epno # dev[k].epno
    <3>1. PICK n \in S : /\ n = <<UserChain, dev[k].seqno>>
                         /\ dev'[k].seqno = dev[k].seqno /\ dev[k].seqno # 0
                         /\ dev'[k].epno = tree[n]
      BY ZenonT(60), <1>4, <2>2
    <3>2. wq'[n] = [state |-> "committed", epno |-> tree[n]]
      BY <1>1, Zenon
    <3>3. wq'[n].state = "committed"
      BY <3>2
    <3>4. tree'[n] = tree[n]
      BY <1>1, Zenon
    <3> QED BY <3>1, <3>3, <3>4, Zenon DEF DeviceRowOK
  <2>3. CASE dev'[k].epno = dev[k].epno
    BY ZenonT(60), <1>1, <1>4, <2>1, <2>3 DEF DeviceRowOK
  <2> QED BY <2>2, <2>3, Zenon
<1>6. \A k \in Keys : dev[k].epno # 0 => dev'[k].epno # 0
  BY ZenonT(60), <1>1, <1>4
<1> DEFINE hits(v) == {i \in S : /\ Revokes(i)
                                 /\ link[i].target = v.key
                                 /\ link[i].root = v.header}
           upd(v) == IF hits(v) = {} THEN v
                     ELSE [v EXCEPT !.tree = tree[CHOOSE i \in hits(v) : TRUE]]
<1>7. revoked' = {upd(v) : v \in revoked}
  BY Zenon DEF CheckTreeForLeafUpdates
<1>8. ASSUME NEW v \in revoked
      PROVE  /\ upd(v).key = v.key /\ upd(v).header = v.header /\ upd(v).at = v.at
             /\ upd(v).tree # 0 => upd(v).tree = tree[<<UserChain, v.at>>]
  <2>1. v \in Revocation
    BY Zenon DEF Base, TypeOK
  <2>2. CASE hits(v) = {}
    BY <1>2, <2>2, Zenon DEF RevokedRowsOK
  <2>3. CASE hits(v) # {}
    <3> DEFINE j == CHOOSE i \in hits(v) : TRUE
    <3>1. j \in S /\ Revokes(j) /\ link[j].target = v.key /\ link[j].root = v.header
      BY <2>3, Zenon
    <3>2. upd(v) = [v EXCEPT !.tree = tree[j]]
      BY <2>3, Zenon
    <3> HIDE DEF j, upd
    <3>3. PICK w \in revoked : w.key = link[j].target /\ w.header = link[j].root /\ w.at = j[2]
      BY <1>1, <1>2, <3>1, Zenon DEF TriggersResolve
    <3>4. w = v
      BY <1>2, <3>1, <3>3, Zenon DEF RevokedRowsOK
    <3>5. j = <<UserChain, v.at>>
      BY <1>2, <3>1, <3>3, <3>4, ItemFacts, Zenon DEF DeviceLinksOnUserChain
    <3> QED BY <2>1, <3>2, <3>5, Zenon DEF Revocation
  <2> QED BY <2>2, <2>3, Zenon
<1> HIDE DEF upd
<1>9. RevokedRowsOK'
  <2>1. ASSUME NEW x \in revoked'
        PROVE  /\ <<UserChain, x.at>> \in Items /\ x.at <= tail'[UserChain]
               /\ x.tree # 0 => x.tree = tree'[<<UserChain, x.at>>]
    <3>1. PICK v \in revoked : x = upd(v)
      BY <1>7, Zenon
    <3> QED BY ZenonT(60), <1>1, <1>2, <1>8, <3>1 DEF RevokedRowsOK
  <2>2. ASSUME NEW x \in revoked', NEW y \in revoked', x.key = y.key, x.header = y.header
        PROVE x = y
    <3>1. PICK v \in revoked : x = upd(v)
      BY <1>7, Zenon
    <3>2. PICK w \in revoked : y = upd(w)
      BY <1>7, Zenon
    <3>3. v.key = w.key /\ v.header = w.header
      BY ZenonT(60), <1>8, <2>2, <3>1, <3>2
    <3>4. v = w
      BY <1>2, <3>3, Zenon DEF RevokedRowsOK
    <3> QED BY <3>1, <3>2, <3>4, Zenon
  <2> QED BY <2>1, <2>2, Zenon DEF RevokedRowsOK
<1>10. TriggersResolve'
  <2> SUFFICES ASSUME NEW i \in Items, wq'[i].state = "queued"
               PROVE /\ Provisions(i) => dev'[link[i].target].seqno = i[2]
                     /\ Revokes(i) => \E x \in revoked' : /\ x.key = link[i].target
                                                          /\ x.header = link[i].root
                                                          /\ x.at = i[2]
    BY <1>1, Zenon DEF TriggersResolve, Provisions, Revokes
  <2>1. wq[i].state = "queued" /\ link[i].target \in Keys
    BY ZenonT(60), <1>1 DEF Base, TypeOK, Link
  <2>2. Provisions(i) => dev'[link[i].target].seqno = i[2]
    BY ZenonT(60), <1>2, <1>4, <2>1 DEF TriggersResolve
  <2>3. ASSUME Revokes(i)
        PROVE \E x \in revoked' : x.key = link[i].target /\ x.header = link[i].root /\ x.at = i[2]
    <3>1. PICK v \in revoked : v.key = link[i].target /\ v.header = link[i].root /\ v.at = i[2]
      BY <1>2, <2>1, <2>3, Zenon DEF TriggersResolve
    <3> QED BY ZenonT(60), <1>7, <1>8, <3>1
  <2> QED BY <2>2, <2>3, Zenon
<1>11. DeviceLinksOnUserChain' /\ SignaturesFollowProvisioning' /\ PostsNameSigners'
  BY <1>1, <1>2, Zenon DEF DeviceLinksOnUserChain, Provisions, Revokes,
                    SignaturesFollowProvisioning, PostsNameSigners
<1>12. SomeDeviceRemains'
  BY ZenonT(60), <1>1, <1>2, <1>4 DEF SomeDeviceRemains, IsCurrent
<1>13. Reads'
  <2> SUFFICES ASSUME NEW t \in Txns PROVE UserReads(t)' /\ SettingsReads(t)'
    BY Zenon DEF Reads
  <2>1. UserReads(t) /\ SettingsReads(t) /\ req[t].signer \in Keys /\ req[t].target \in Keys
    BY RequestTypes, Zenon DEF DeviceInv, Reads, Base
  <2>2. \A x \in revoked' : \E v \in revoked : x.key = v.key /\ x.header = v.header
    BY ZenonT(60), <1>7, <1>8
  <2>3. \A k \in Keys : dev'[k].seqno = dev[k].seqno
    BY ZenonT(60), <1>4
  <2>4. DeviceRowsFit(req[t]) => DeviceRowsFit(req[t])'
    BY SMTT(60), <1>1, <2>1, <2>2, <2>3 DEF DeviceRowsFit, IsCurrent
  <2>5. UserReads(t)'
    <3> SUFFICES ASSUME UserReads(t)!1 PROVE UserReads(t)!2'
      BY <1>1, Zenon DEF UserReads
    <3> QED BY Zenon, <1>1, <1>6, <2>1, <2>3, <2>4 DEF UserReads, IsCurrent
  <2>6. SettingsReads(t)'
    BY <1>1, <2>1, Zenon DEF SettingsReads
  <2> QED BY <2>5, <2>6, Zenon
<1> QED BY <1>5, <1>9, <1>10, <1>11, <1>12, <1>13, Zenon DEF DeviceInv, Tables

(* A commit adds a device row, moves one to revoked_device_keys, or        *)
(* changes neither.                                                        *)
LEMMA DeviceCommitTx ==
  ASSUME QueueInv, DeviceInv, NEW t \in Txns, CommitTx(t)
  PROVE DeviceInv'
<1> DEFINE r == req[t]
           W == Written(req[t])
<1>1. pc[t] = "done" /\ Base
  BY Zenon DEF CommitTx, Goto, QueueInv
<1>2. /\ W \subseteq Items
      /\ \A i \in W : i[2] = tail[i[1]] + 1 /\ chainLock[i] = t
      /\ r.op # "post" => r.chain = UserChain
  BY <1>1, WrittenFacts, Zenon
<1>3. /\ UserReads(t) /\ SettingsReads(t) /\ HandlerOK(t)
      /\ r \in Request /\ r.target \in Keys /\ r.signer \in Keys
      /\ OnTail(r)
  BY <1>1, RequestTypes, Zenon DEF DeviceInv, Reads, Base, HandlersOK, HandlerOK
<1>4. /\ TriggersResolve /\ DeviceRowsOK /\ RevokedRowsOK /\ DeviceLinksOnUserChain
      /\ SignaturesFollowProvisioning /\ PostsNameSigners /\ SomeDeviceRemains
  BY Zenon DEF DeviceInv, Tables
<1>5. /\ tree' = tree
      /\ \A i \in Items : wq'[i] = IF i \in W THEN Queued ELSE wq[i]
      /\ tail' = [c \in Chains |-> IF \E i \in W : i[1] = c THEN tail[c] + 1 ELSE tail[c]]
  BY Zenon DEF CommitTx, QueueMerkleWork, Written
<1>6. /\ \A i \in Items \ W : link'[i] = link[i]
      /\ link'[Item(r)] = [kind |-> r.op, signer |-> r.signer, sseq |-> r.sseq,
                           target |-> r.target, root |-> r.root]
      /\ \A i \in W \ {Item(r)} : /\ link'[i].kind = "post" /\ link'[i].sseq = r.sseq
                                  /\ link'[i].root = r.root
  <2>1. Item(r) \in Items
    BY <1>2, Zenon DEF Written
  <2>2. \A i \in Items \ W : link'[i] = link[i]
    BY Zenon DEF CommitTx, Written
  <2>3. link'[Item(r)] = [kind |-> r.op, signer |-> r.signer, sseq |-> r.sseq,
                          target |-> r.target, root |-> r.root]
    BY <2>1, Zenon DEF CommitTx
  <2>4. \A i \in W \ {Item(r)} : /\ link'[i].kind = "post" /\ link'[i].sseq = r.sseq
                                 /\ link'[i].root = r.root
    BY <1>2, Zenon DEF CommitTx, Written
  <2> QED BY <2>2, <2>3, <2>4, Zenon
<1>7. tail \in [Chains -> Nat] /\ dev \in [Keys -> [seqno : KeySeqnos, epno : Nat]]
  BY <1>1, Zenon DEF Base, TypeOK
<1>8. tail[UserChain] <= tail'[UserChain]
  BY SMTT(60), <1>5, <1>7, ItemFacts
<1>9. r.op \in {"provision", "revoke"} =>
        /\ dev[r.signer].seqno = r.sseq
        /\ r.op = "revoke" => /\ dev[r.target].epno # 0 /\ dev[r.target].seqno = r.tseq
                              /\ \E other \in Keys \ {r.target} : IsCurrent(other)
        /\ DeviceRowsFit(r)
  BY <1>1, <1>2, <1>3, Zenon DEF UserReads
<1>10. \A k \in Keys : dev'[k] =
         IF k = r.target /\ r.op = "provision" THEN [seqno |-> r.seqno, epno |-> 0]
         ELSE IF k = r.target /\ r.op = "revoke" THEN NoDevice
         ELSE dev[k]
  <2>1. CASE r.op = "provision"
    BY <2>1, <1>7, Zenon DEF CommitTx, InsertDevice
  <2>2. CASE r.op = "revoke"
    BY <2>2, <1>7, Zenon DEF CommitTx, RemoveDevice
  <2>3. CASE r.op \notin {"provision", "revoke"}
    BY <2>3, Zenon DEF CommitTx
  <2> QED BY <2>1, <2>2, <2>3
(* Rows of links below the tail are not touched. *), Zenon
<1>11. \A k \in Keys : dev[k].seqno # 0 =>
         <<UserChain, dev[k].seqno>> \in Items /\ <<UserChain, dev[k].seqno>> \notin W
  <2> SUFFICES ASSUME NEW k \in Keys, dev[k].seqno # 0
               PROVE <<UserChain, dev[k].seqno>> \in Items /\ <<UserChain, dev[k].seqno>> \notin W
    BY Zenon
  <2>1. dev[k].seqno <= tail[UserChain] /\ dev[k].seqno \in Nat /\ tail[UserChain] \in Nat
    BY <1>1, <1>7, ItemFacts DEF Base, DevicesBelowTail, KeySeqnos
  <2> QED BY <1>1, <1>2, <2>1, DeviceItems
<1>12. DeviceRowsOK'
  <2> SUFFICES ASSUME NEW k \in Keys PROVE DeviceRowOK(k)'
    BY Zenon DEF DeviceRowsOK
  <2>1. DeviceRowOK(k)
    BY <1>4, Zenon DEF DeviceRowsOK
  <2>2. CASE dev'[k] = dev[k]
    <3>1. dev[k].seqno # 0 => wq'[<<UserChain, dev[k].seqno>>] = wq[<<UserChain, dev[k].seqno>>]
      BY <1>5, <1>11, Zenon
    <3> QED BY <1>5, <2>1, <2>2, <3>1, Zenon DEF DeviceRowOK
  <2>3. CASE dev'[k] # dev[k]
    <3>1. dev'[k].epno = 0
      BY <1>10, <2>3 DEF NoDevice
    <3> QED BY <3>1, Zenon DEF DeviceRowOK
  <2> QED BY <2>2, <2>3, Zenon
<1>13. RevokedRowsOK'
  <2>1. CASE r.op = "revoke"
    <3> DEFINE new == [key |-> r.target, seqno |-> r.tseq, header |-> r.root, tree |-> 0,
                       at |-> r.seqno]
    <3>1. revoked' = revoked \cup {new}
      BY <2>1, Zenon DEF CommitTx
    <3>2. <<UserChain, r.seqno>> \in W /\ r.seqno = tail[UserChain] + 1
          /\ tail'[UserChain] = tail[UserChain] + 1
      <4>1. <<UserChain, r.seqno>> \in W
        BY <1>2, <2>1, Zenon DEF Written, Item
      <4>2. \E i \in W : i[1] = UserChain
        BY <4>1, Zenon
      <4> QED BY <1>2, <1>5, <4>1, <4>2, ItemFacts, Zenon
    <3>3. \A v \in revoked : v.key = r.target => v.header # r.root
      BY <1>9, <2>1, Zenon DEF DeviceRowsFit
    <3>4. \A v \in revoked' : /\ <<UserChain, v.at>> \in Items /\ v.at <= tail'[UserChain]
                              /\ v.tree # 0 => v.tree = tree'[<<UserChain, v.at>>]
      <4> SUFFICES ASSUME NEW v \in revoked'
                   PROVE  /\ <<UserChain, v.at>> \in Items /\ v.at <= tail'[UserChain]
                          /\ v.tree # 0 => v.tree = tree'[<<UserChain, v.at>>]
        BY Zenon
      <4>1. CASE v \in revoked
        <5>1. v.at \in Nat
          BY <1>1, <4>1, Zenon DEF Base, TypeOK, Revocation
        <5> QED BY <1>4, <1>5, <1>7, <3>2, <4>1, <5>1, ItemFacts DEF RevokedRowsOK
      <4>2. CASE v = new
        <5>1. v.at = r.seqno /\ v.tree = 0
          BY <4>2, Zenon
        <5> QED BY <1>2, <1>7, <3>2, <5>1, ItemFacts
      <4> QED BY <3>1, <4>1, <4>2, Zenon
    <3>5. \A v, w \in revoked' : (v.key = w.key /\ v.header = w.header) => v = w
      BY SMTT(60), <1>4, <3>1, <3>3 DEF RevokedRowsOK
    <3> QED BY <3>4, <3>5, Zenon DEF RevokedRowsOK
  <2>2. CASE r.op # "revoke"
    <3>1. revoked' = revoked
      BY <2>2, Zenon DEF CommitTx
    <3>2. \A v \in revoked : v.at \in Nat
      BY <1>1, Zenon DEF Base, TypeOK, Revocation
    <3>3. tail[UserChain] \in Nat /\ tail'[UserChain] \in Nat
      BY SMTT(60), <1>5, <1>7, ItemFacts
    <3> QED BY <1>4, <1>5, <1>8, <3>1, <3>2, <3>3 DEF RevokedRowsOK
  <2> QED BY <2>1, <2>2, Zenon
<1>14. DeviceLinksOnUserChain'
  BY SMTT(60), <1>2, <1>4, <1>6 DEF DeviceLinksOnUserChain, Provisions, Revokes, Item, Written
<1>15. TriggersResolve'
  <2> SUFFICES ASSUME NEW i \in Items, wq'[i].state = "queued"
               PROVE /\ Provisions(i)' => dev'[link'[i].target].seqno = i[2]
                     /\ Revokes(i)' => \E v \in revoked' : /\ v.key = link'[i].target
                                                           /\ v.header = link'[i].root
                                                           /\ v.at = i[2]
    BY Zenon DEF TriggersResolve
  <2>1. CASE i \notin W
    <3>1. /\ link'[i] = link[i] /\ wq[i].state = "queued" /\ link[i].target \in Keys
          /\ revoked \subseteq revoked'
      BY <1>1, <1>5, <1>6, <2>1, Zenon DEF Base, TypeOK, Link, CommitTx
    <3>2. ASSUME Provisions(i), link[i].target = r.target, r.op \in {"provision", "revoke"}
          PROVE FALSE
      <4>1. dev[r.target].seqno = i[2] /\ i = <<UserChain, i[2]>> /\ i[2] # 0
        BY <1>4, <3>1, <3>2, ItemFacts, Zenon DEF TriggersResolve, DeviceLinksOnUserChain
      <4>2. r.op = "provision" => dev[r.target].seqno = 0
        BY <1>9, Zenon DEF DeviceRowsFit, IsCurrent
      <4>3. r.op = "revoke" => wq[<<UserChain, dev[r.target].seqno>>].state = "committed"
        BY <1>3, <1>4, <1>9, Zenon DEF DeviceRowsOK, DeviceRowOK
      <4> QED BY <3>1, <3>2, <4>1, <4>2, <4>3, Zenon
    <3>3. Provisions(i) => dev'[link[i].target] = dev[link[i].target]
      BY <1>10, <3>1, <3>2, Zenon
    <3> QED BY <1>4, <3>1, <3>3, Zenon DEF TriggersResolve, Provisions, Revokes
  <2>2. CASE i = Item(r)
    <3>1. link'[i].kind = r.op /\ link'[i].target = r.target /\ link'[i].root = r.root
          /\ i[2] = r.seqno
      BY SMTT(60), <1>6, <2>2 DEF Item
    <3>2. r.op = "provision" => dev'[r.target].seqno = r.seqno
      BY <1>3, <1>10
    <3>3. r.op = "revoke" => [key |-> r.target, seqno |-> r.tseq, header |-> r.root,
                              tree |-> 0, at |-> r.seqno] \in revoked'
      BY Zenon DEF CommitTx
    <3>4. r.op # "eldest"
      BY <1>3, Zenon DEF Request, Ops
    <3> QED BY <3>1, <3>2, <3>3, <3>4, Zenon DEF Provisions, Revokes
  <2>3. CASE i \in W \ {Item(r)}
    BY <1>6, <2>3, Zenon DEF Provisions, Revokes
  <2> QED BY <2>1, <2>2, <2>3, Zenon
<1>16. SignaturesFollowProvisioning' /\ PostsNameSigners'
  <2> SUFFICES ASSUME NEW i \in Items, link'[i].kind = "post"
               PROVE  /\ link'[i].sseq # 0
                      /\ tree'[<<UserChain, link'[i].sseq>>] \in 1..link'[i].root
    BY ZenonT(60) DEF SignaturesFollowProvisioning, PostsNameSigners
  <2>1. CASE i \notin W
    <3>1. link'[i] = link[i] /\ tree' = tree
      BY <1>5, <1>6, <2>1, Zenon
    <3>2. link[i].sseq # 0 /\ tree[<<UserChain, link[i].sseq>>] \in 1..link[i].root
      BY <1>4, <3>1, Zenon DEF SignaturesFollowProvisioning, PostsNameSigners
    <3> QED BY <3>1, <3>2, Zenon
  <2>2. CASE i \in W
    <3>1. link'[i].sseq = r.sseq /\ link'[i].root = r.root
      BY SMTT(60), <1>6, <2>2
    <3>2. r.op = "post" \/ r.ppSeqno # 0
      <4>1. CASE i = Item(r)
        BY <1>6, <4>1
      <4>2. CASE i # Item(r)
        BY <2>2, <4>2, Zenon DEF Written
      <4> QED BY <4>1, <4>2, Zenon
    <3>3. r.sseq # 0 /\ tree[<<UserChain, r.sseq>>] \in 1..r.root
      BY <1>1, <1>3, <3>2, Zenon DEF SettingsReads
    <3> QED BY <1>5, <3>1, <3>3, Zenon
  <2> QED BY <2>1, <2>2, Zenon
<1>17. SomeDeviceRemains'
  <2>1. tail[UserChain] > 0
    BY SMTT(60), <1>1, <1>3, <1>7, ItemFacts DEF HandlerOK, RequestOK
  <2>2. PICK k \in Keys : IsCurrent(k) /\ (r.op = "revoke" => k # r.target)
    BY <1>4, <1>9, <2>1, Zenon DEF SomeDeviceRemains
  <2>3. dev'[k].seqno # 0
    <3>1. r.op = "provision" => r.seqno # 0
      BY ZenonT(60), <1>2, ItemFacts DEF Written, Item
    <3> QED BY SMTT(60), <1>10, <2>2, <3>1 DEF IsCurrent
  <2> QED BY <2>3, Zenon DEF SomeDeviceRemains, IsCurrent
<1>18. Reads'
  <2> SUFFICES ASSUME NEW u \in Txns PROVE UserReads(u)' /\ SettingsReads(u)'
    BY Zenon DEF Reads
  <2>1. CASE u = t
    <3>1. pc'[u] = "idle"
      BY <1>1, <2>1, Zenon DEF CommitTx, Goto, Base, TypeOK
    <3> QED BY <3>1, Zenon DEF UserReads, SettingsReads
  <2>2. CASE u # t
    <3>1. pc'[u] = pc[u] /\ req'[u] = req[u]
      BY <1>1, <2>2, Zenon DEF CommitTx, Goto, Base, TypeOK
    <3>2. UserReads(u) /\ SettingsReads(u) /\ HandlerOK(u) /\ LocksHeldBy(u)
      BY <1>1, Zenon DEF DeviceInv, Reads, Base, HandlersOK, LocksHeld
    <3>3. SettingsReads(u)'
      BY <1>5, <3>1, <3>2, Zenon DEF SettingsReads
    <3>4. ASSUME pc[u] # "idle", req[u].chain = UserChain, OnTail(req[u])
          PROVE  dev' = dev /\ revoked' = revoked
      <4>1. chainLock[<<UserChain, tail[UserChain] + 1>>] = u
        <5>1. RequestOK(req[u]) /\ chainLock[Item(req[u])] = u
          BY Zenon, <3>2, <3>4 DEF HandlerOK, LocksHeldBy
        <5> QED BY Zenon, <3>4, <5>1 DEF RequestOK, Item
      <4>2. r.chain # UserChain
        <5>1. Item(r) \in W
          BY Zenon DEF Written
        <5>2. Item(r)[1] = r.chain /\ Item(r) = <<r.chain, Item(r)[2]>>
          BY Zenon DEF Item
        <5> QED BY <1>2, <2>2, <4>1, <5>1, <5>2, Zenon
      <4>3. r.op = "post"
        BY <1>2, <4>2, Zenon
      <4> QED BY <4>3, Zenon DEF CommitTx
    <3>5. UserReads(u)'
      BY <3>1, <3>2, <3>4, Zenon DEF UserReads, IsCurrent, DeviceRowsFit
    <3> QED BY <3>3, <3>5, Zenon
  <2> QED BY <2>1, <2>2, Zenon
<1> QED BY <1>12, <1>13, <1>14, <1>15, <1>16, <1>17, <1>18, Zenon DEF DeviceInv, Tables

(* Every step keeps the device invariant.                                  *)
LEMMA DeviceNext ==
  ASSUME QueueInv, RowsMatchTree, DeviceInv, [Next]_vars
  PROVE DeviceInv'
<1>1. Base
  BY Zenon DEF QueueInv
<1>2. ASSUME NEW t \in Txns, AbortTx(t) \/ DeadlockVictim(t) PROVE DeviceInv'
  BY <1>1, <1>2, DeviceFail, Zenon DEF AbortTx, DeadlockVictim
<1>3. ASSUME NEW t \in Txns, Step(t) PROVE DeviceInv'
  BY <1>1, <1>3, DeviceStep, DeviceCommitTx, Zenon DEF Step
<1>4. CASE UNCHANGED vars
  <2>1. UNCHANGED <<tables, pc, req>>
    BY <1>4, Zenon DEF vars, scvars, tables
  <2> QED BY <2>1, TablesUnchanged, ReadsUnchanged, Zenon DEF DeviceInv, Reads
<1> QED
  BY <1>1, <1>2, <1>3, <1>4, NextSteps, DeviceSignup, DeviceStart, DeviceInsertKeyValue,
     DeviceCheckTree, Zenon
  DEF Base, TypeOK, MQTypeOK

(* The device rows, the revocations and what the handlers have read of     *)
(* them agree with the chain and the tree in every behaviour.              *)
LEMMA DeviceInvariant == Spec => []DeviceInv
<1>1. Init => DeviceInv
  <2> SUFFICES ASSUME Init PROVE DeviceInv
    BY Zenon
  <2>1. Reads
    <3>1. \A t \in Txns : pc[t] = "idle"
      BY Zenon DEF Init
    <3> QED BY <3>1, Zenon DEF Reads, UserReads, SettingsReads
  <2>2. DeviceRowsOK /\ RevokedRowsOK
    <3>1. \A k \in Keys : dev[k].seqno = 0 /\ dev[k].epno = 0
      BY Zenon DEF Init, NoDevice
    <3>2. revoked = {}
      BY Zenon DEF Init
    <3> QED BY Zenon, <3>1, <3>2 DEF DeviceRowsOK, DeviceRowOK, RevokedRowsOK
  <2>3. /\ DeviceLinksOnUserChain /\ SignaturesFollowProvisioning /\ PostsNameSigners
        /\ TriggersResolve
    BY Zenon DEF Init, DeviceLinksOnUserChain, Provisions, Revokes, NoLink,
           SignaturesFollowProvisioning, PostsNameSigners, TriggersResolve, MQInit, Absent
  <2>4. SomeDeviceRemains
    BY ItemFacts DEF Init, SomeDeviceRemains
  <2> QED BY <2>1, <2>2, <2>3, <2>4, Zenon DEF DeviceInv, Tables
<1>2. QueueInv /\ RowsMatchTree /\ DeviceInv /\ [Next]_vars => DeviceInv'
  BY DeviceNext, Zenon
<1>3. MQInv => RowsMatchTree
  BY Zenon DEF MQInv
<1> QED
  BY <1>1, <1>2, <1>3, QueueInvariant, ImplementsMerkleQueue, MQInvariant, PTL DEF Spec

(* The batcher is never stuck on an update trigger, whatever sequence of   *)
(* provisioning, revocation and reuse of keys the handlers commit.         *)
THEOREM TriggersAlwaysResolve == Spec => []TriggersResolve
<1>1. DeviceInv => TriggersResolve
  BY Zenon DEF DeviceInv, Tables
<1> QED BY <1>1, DeviceInvariant, PTL

(* provision_epno and the revocation epoch of a key are the epochs of the  *)
(* links behind them.                                                      *)
THEOREM EpnosAlwaysAgree == Spec => []EpnosAgree
<1>1. DeviceInv => EpnosAgree
  BY Zenon DEF DeviceInv, Tables, DeviceRowsOK, DeviceRowOK, RevokedRowsOK, EpnosAgree
<1> QED BY <1>1, DeviceInvariant, PTL

(* Every settings link names a root that contains its signer's provisioning. *)
THEOREM SignersWereProvisioned == Spec => []SignaturesFollowProvisioning
<1>1. DeviceInv => SignaturesFollowProvisioning
  BY Zenon DEF DeviceInv, Tables
<1> QED BY <1>1, DeviceInvariant, PTL

(* Concurrent revocations never leave a user without a device. *)
THEOREM UserKeepsDevice == Spec => []SomeDeviceRemains
<1>1. DeviceInv => SomeDeviceRemains
  BY Zenon DEF DeviceInv, Tables
<1> QED BY <1>1, DeviceInvariant, PTL
-----------------------------------------------------------------------------
(* The signer between the start of a handler and its commit. *)

(* The device row that was read is there, or the key was revoked since and *)
(* its lock row will never be free again.                                  *)
SignerReads(t) ==
  pc[t] # "idle" =>
    /\ req[t].sseq # 0
    /\ dev[req[t].signer].seqno = req[t].sseq \/ keyLock[SignerPair(req[t])] = Kept

SignersInv == \A t \in Txns : SignerReads(t)

(* Steps that leave the device rows' seqnos and the kept lock rows alone.  *)
LEMMA SignersUnchanged ==
  ASSUME Base, SignersInv, \A k \in Keys : dev'[k].seqno = dev[k].seqno,
         \A p \in KeyPairs : keyLock[p] = Kept => keyLock'[p] = Kept,
         NEW u \in Txns, pc'[u] = "idle" \/ (pc[u] # "idle" /\ req'[u] = req[u])
  PROVE SignerReads(u)'
<1>1. req[u].signer \in Keys /\ SignerPair(req[u]) \in KeyPairs /\ SignerReads(u)
  BY RequestTypes, Zenon DEF Base, SignersInv
<1> QED BY <1>1, Zenon DEF SignerReads, SignerPair

(* A commit that takes a device row away keeps the lock of its key.        *)
LEMMA SignersCommitTx ==
  ASSUME Base, DeviceInv, SignersInv, NEW t \in Txns, CommitTx(t)
  PROVE SignersInv'
<1> SUFFICES ASSUME NEW u \in Txns PROVE SignerReads(u)'
  BY Zenon DEF SignersInv
<1> DEFINE r == req[t]
<1>1. pc[t] = "done" /\ pc'[t] = "idle" /\ \A w \in Txns \ {t} : pc'[w] = pc[w] /\ req'[w] = req[w]
  BY Zenon DEF CommitTx, Goto, Base, TypeOK
<1>2. /\ HandlerOK(t) /\ LocksHeldBy(t) /\ UserReads(t) /\ r \in Request /\ r.target \in Keys
      /\ TargetPair(r) \in KeyPairs
  BY RequestTypes, Zenon DEF Base, HandlersOK, LocksHeld, DeviceInv, Reads
<1>3. r.op \in {"provision", "revoke"} =>
        /\ r.op = "provision" => dev[r.target].seqno = 0
        /\ r.op = "revoke" => dev[r.target].seqno = r.tseq /\ keyLock[TargetPair(r)] = t
  <2>1. RequestOK(r) /\ OnTail(r) /\ (r.op = "revoke" => keyLock[TargetPair(r)] = t)
    BY Zenon, <1>1, <1>2 DEF HandlerOK, LocksHeldBy
  <2>2. r.op \in {"provision", "revoke"} => r.chain = UserChain
    BY <2>1, Zenon DEF RequestOK
  <2> QED BY <1>1, <1>2, <2>1, <2>2, Zenon DEF UserReads, DeviceRowsFit, IsCurrent
<1>4. \A p \in KeyPairs : keyLock'[p] = IF keyLock[p] # t THEN keyLock[p]
                                       ELSE IF KeepsKeyLock(r, p) THEN Kept ELSE Free
  BY Zenon DEF CommitTx
<1>5. \A p \in KeyPairs : keyLock[p] = Kept => keyLock'[p] = Kept
  BY <1>4, TxnsAssumption, Zenon
<1>6. r.op = "revoke" => keyLock'[TargetPair(r)] = Kept
  BY <1>2, <1>3, <1>4, Zenon DEF KeepsKeyLock
<1>7. \A k \in Keys : \/ dev'[k].seqno = dev[k].seqno
                      \/ k = r.target /\ r.op \in {"provision", "revoke"}
  <2>1. CASE r.op = "provision"
    BY <2>1, Zenon DEF CommitTx, InsertDevice, Base, TypeOK
  <2>2. CASE r.op = "revoke"
    BY <2>2, Zenon DEF CommitTx, RemoveDevice, Base, TypeOK
  <2>3. CASE r.op \notin {"provision", "revoke"}
    BY <2>3, Zenon DEF CommitTx
  <2> QED BY <2>1, <2>2, <2>3, Zenon
<1>8. CASE u = t
  BY <1>1, <1>8, Zenon DEF SignerReads
<1>9. CASE u # t
  <2>1. SignerReads(u) /\ req[u].signer \in Keys /\ SignerPair(req[u]) \in KeyPairs
    BY RequestTypes, Zenon DEF SignersInv, Base
  <2>2. SUFFICES ASSUME pc[u] # "idle", dev[req[u].signer].seqno = req[u].sseq
                 PROVE  \/ dev'[req[u].signer].seqno = req[u].sseq
                        \/ keyLock'[SignerPair(req[u])] = Kept
    BY <1>1, <1>5, <1>9, <2>1, Zenon DEF SignerReads
  <2>3. CASE req[u].signer = r.target /\ r.op \in {"provision", "revoke"}
    BY <1>3, <1>6, <2>1, <2>2, <2>3, Zenon DEF SignerReads, SignerPair, TargetPair
  <2>4. CASE ~(req[u].signer = r.target /\ r.op \in {"provision", "revoke"})
    BY <1>7, <2>1, <2>2, <2>4, Zenon
  <2> QED BY <2>3, <2>4, Zenon
<1> QED BY <1>8, <1>9, Zenon

(* Every step keeps the invariant: a row that was read goes only with a    *)
(* revocation, and no lock row of a revoked key is ever deleted.           *)
LEMMA SignersNext ==
  ASSUME QueueInv, DeviceInv, SignersInv, [Next]_vars
  PROVE SignersInv'
<1>1. Base
  BY Zenon DEF QueueInv
<1>2. ASSUME NEW t \in Txns, Fail(t) PROVE SignersInv'
  <2>1. \A u \in Txns : pc'[u] = "idle" \/ (pc'[u] = pc[u] /\ req'[u] = req[u])
    BY <1>1, <1>2, Zenon DEF Fail, Base, TypeOK
  <2>2. /\ \A p \in KeyPairs : keyLock[p] = Kept => keyLock'[p] = Kept
        /\ \A k \in Keys : dev'[k].seqno = dev[k].seqno
    BY <1>2, TxnsAssumption, Zenon DEF Fail, Rollback, tables
  <2> SUFFICES ASSUME NEW u \in Txns PROVE SignerReads(u)'
    BY Zenon DEF SignersInv
  <2>3. pc'[u] = "idle" \/ (pc[u] # "idle" /\ req'[u] = req[u])
    BY Zenon, <2>1
  <2> QED BY Zenon, <1>1, <2>2, <2>3, SignersUnchanged
<1>3. ASSUME NEW t \in Txns, LockSigner(t) \/ InsertLink(t) \/ PostSettings(t), ~Fail(t)
      PROVE SignersInv'
  <2>1. /\ pc[t] # "idle" /\ \A u \in Txns \ {t} : pc'[u] = pc[u]
        /\ UNCHANGED <<req, tables>>
    BY <1>1, <1>3, Zenon DEF LockSigner, InsertLink, PostSettings, Goto, Base, TypeOK
  <2>2. \/ keyLock' = keyLock
        \/ \E p : keyLock[p] = Free /\ keyLock' = [keyLock EXCEPT ![p] = t]
    BY Zenon, <1>3 DEF LockSigner, InsertLink, PostSettings, CanLockKey
  <2>3. \A p \in KeyPairs : keyLock[p] = Kept => keyLock'[p] = Kept
    BY <1>1, <2>2, Zenon DEF Base, TypeOK, Free, Kept
  <2>4. \A k \in Keys : dev'[k].seqno = dev[k].seqno
    BY <2>1, Zenon DEF tables
  <2> SUFFICES ASSUME NEW u \in Txns PROVE SignerReads(u)'
    BY Zenon DEF SignersInv
  <2>5. pc'[u] = "idle" \/ (pc[u] # "idle" /\ req'[u] = req[u])
    BY Zenon, <2>1
  <2> QED BY Zenon, <1>1, <2>3, <2>4, <2>5, SignersUnchanged
<1>4. ASSUME NEW t \in Txns, Step(t) PROVE SignersInv'
  BY Zenon, <1>1, <1>2, <1>3, <1>4, SignersCommitTx DEF Step
<1>5. ASSUME NEW t \in Txns, Starts(t) PROVE SignersInv'
  <2>1. PICK r \in Request, root \in Nat : Fresh(r, root) /\ Start(t, r, root)
    BY Zenon, <1>5 DEF Starts
  <2>2. /\ UNCHANGED <<tables, keyLock>> /\ req'[t] = r
        /\ \A u \in Txns \ {t} : pc'[u] = pc[u] /\ req'[u] = req[u]
    BY <1>1, <2>1, Zenon DEF Start, Goto, Base, TypeOK
  <2>3. r.sseq # 0 /\ dev[r.signer].seqno = r.sseq
    BY Zenon, <2>1 DEF Start, Fresh, Authorized, IsCurrent
  <2>4. SignerReads(t)'
    BY <2>2, <2>3, Zenon DEF SignerReads, tables
  <2>5. ASSUME NEW u \in Txns \ {t} PROVE SignerReads(u)'
    BY <1>1, <2>2, <2>5, SignersUnchanged, Zenon DEF tables
  <2> QED BY Zenon, <2>4, <2>5 DEF SignersInv
<1>6. CASE Signup
  <2>1. \A t \in Txns : pc[t] = "idle"
    BY <1>1, <1>6, Zenon DEF Signup, Base, HandlersOK, HandlerOK, RequestOK
  <2>2. pc' = pc
    BY Zenon, <1>6 DEF Signup
  <2> QED BY Zenon, <2>1, <2>2 DEF SignersInv, SignerReads
<1>7. ASSUME UNCHANGED <<keyLock, pc, req>>, \A k \in Keys : dev'[k].seqno = dev[k].seqno
      PROVE SignersInv'
  <2> SUFFICES ASSUME NEW u \in Txns PROVE SignerReads(u)'
    BY Zenon DEF SignersInv
  <2>1. keyLock' = keyLock /\ pc' = pc /\ req' = req
    BY <1>7, Zenon
  <2> QED BY Zenon, <1>1, <1>7, <2>1, SignersUnchanged
<1>8. ASSUME NEW S \in SUBSET Items, CheckTreeForLeafUpdates(S) PROVE SignersInv'
  <2>1. \A k \in Keys : dev'[k].seqno = dev[k].seqno
    BY <1>1, <1>8, Zenon DEF CheckTreeForLeafUpdates, Base, TypeOK
  <2>2. UNCHANGED <<keyLock, pc, req>>
    BY <1>8, Zenon DEF CheckTreeForLeafUpdates
  <2> QED BY Zenon, <1>7, <2>1, <2>2
<1>9. CASE (MQPipeline /\ UNCHANGED scvars) \/ UNCHANGED vars
  <2>1. UNCHANGED <<keyLock, pc, req, dev>>
    BY <1>9, Zenon DEF vars, scvars
  <2> QED BY <1>7, <2>1, Zenon
<1>10. epno \in Nat \ {0}
  BY <1>1, Zenon DEF Base, TypeOK, MQTypeOK
<1> QED BY Zenon, <1>1, <1>2, <1>4, <1>5, <1>6, <1>8, <1>9, <1>10, NextSteps
        DEF AbortTx, DeadlockVictim

(* When a link of any handler is committed, the device row that its        *)
(* authorization read before the key lock is still the one in the table.   *)
THEOREM SignersStayCurrent == Spec => SignersStillCurrent
<1> DEFINE A == \A i \in Items : (link[i].kind = "none" /\ link'[i].kind \in Ops) =>
                  dev[link'[i].signer].seqno = link'[i].sseq
<1>1. Init => SignersInv
  BY Zenon DEF Init, SignersInv, SignerReads
<1>2. QueueInv /\ DeviceInv /\ SignersInv /\ [Next]_vars => SignersInv'
  BY SignersNext, Zenon
<1>3. ASSUME QueueInv, DeviceInv, SignersInv, [Next]_vars PROVE A
  <2>1. Base
    BY Zenon, <1>3 DEF QueueInv
  <2>2. CASE link' = link
    BY <2>2, Zenon DEF Ops
  <2>3. CASE Signup
    BY <2>1, <2>3, Zenon DEF Signup, Ops, Base, TypeOK
  <2>4. ASSUME NEW t \in Txns, CommitTx(t) PROVE A
    <3> SUFFICES ASSUME NEW i \in Items, link[i].kind = "none", link'[i].kind \in Ops
                 PROVE dev[link'[i].signer].seqno = link'[i].sseq
      BY Zenon
    <3>1. link'[i].signer = req[t].signer /\ link'[i].sseq = req[t].sseq
      BY <2>4, Zenon DEF CommitTx, Ops
    <3>2. SignerReads(t) /\ LocksHeldBy(t) /\ pc[t] = "done"
      BY Zenon, <1>3, <2>1, <2>4 DEF SignersInv, Base, LocksHeld, CommitTx, Goto
    <3>3. keyLock[SignerPair(req[t])] # Kept
      BY <3>2, TxnsAssumption, Zenon DEF LocksHeldBy
    <3> QED BY <3>1, <3>2, <3>3, Zenon DEF SignerReads
  <2>5. ASSUME NEW t \in Txns, Step(t) \/ Starts(t) \/ AbortTx(t) \/ DeadlockVictim(t)
        PROVE  CommitTx(t) \/ link' = link
    BY <2>5, Zenon DEF Step, LockSigner, InsertLink, PostSettings, Starts, Start, AbortTx,
                DeadlockVictim, Fail, Rollback, tables
  <2>6. CASE (MQPipeline /\ UNCHANGED scvars) \/ UNCHANGED vars
             \/ \E S \in SUBSET Items : CheckTreeForLeafUpdates(S)
    <3>1. link' = link
      BY <2>6, Zenon DEF vars, scvars, CheckTreeForLeafUpdates
    <3> QED BY Zenon, <2>2, <3>1
  <2>7. epno \in Nat \ {0}
    BY <2>1, Zenon DEF Base, TypeOK, MQTypeOK
  <2> HIDE DEF A
  <2> QED BY Zenon, <1>3, <2>1, <2>2, <2>3, <2>4, <2>5, <2>6, <2>7, NextSteps
<1>4. QueueInv /\ DeviceInv /\ SignersInv /\ [Next]_vars => [A]_vars
  BY <1>3, Zenon
<1> QED BY <1>1, <1>2, <1>4, QueueInvariant, DeviceInvariant, PTL DEF Spec, SignersStillCurrent
=============================================================================

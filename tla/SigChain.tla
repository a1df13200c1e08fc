------------------------------ MODULE SigChain ------------------------------
(***************************************************************************)
(* The writers of one user's sigchains: provisioning, revoking, rotating   *)
(* and posting to the settings chain, as Postgres transactions that run    *)
(* concurrently at Read Committed and meet on three unique indexes:        *)
(* chain_locks, revoke_key_locks and device_keys (server/shared/chain.go,  *)
(* generic_link.go, device.go, server/engine/user.go).                     *)
(*                                                                         *)
(* An INSERT into a unique index blocks while another open transaction     *)
(* holds the same row, and fails if the row is committed.  A row inserted  *)
(* and deleted by one transaction blocks others until that one ends.  All  *)
(* other writes of a transaction become visible at its commit, so they are *)
(* applied there; reads are separate steps.                                *)
(***************************************************************************)
EXTENDS MerkleQueue

CONSTANTS
  Keys,       \* verify keys of the user's devices (a yubikey may come back)
  Eldest,     \* the key the user signs up with
  Txns,       \* handlers in flight at once
  WithPassphrase, \* the user has a passphrase, which a revoke may re-encrypt
  OffSeqnos   \* bound: seqnos other than the next one that clients try,
              \* [Chains -> SUBSET Nat]

UserChain == "user"
SettingsChain == "settings"
Free == "free"
Kept == "kept"

ASSUME ChainsAssumption == Chains = {UserChain, SettingsChain}
ASSUME EldestAssumption == Eldest \in Keys
ASSUME TxnsAssumption == Free \notin Txns /\ Kept \notin Txns
ASSUME WithPassphraseAssumption == WithPassphrase \in BOOLEAN
ASSUME OffSeqnosAssumption == OffSeqnos \in [Chains -> SUBSET Nat]

VARIABLES
  chainLock, \* chain_locks: holder of the row of each (chain, seqno)
  keyLock,   \* revoke_key_locks: holder of each (verify_key, seqno)
  dev,       \* device_keys: seqno that introduced the key (0: no row) and
             \* provision_epno (0: NULL)
  revoked,   \* revoked_device_keys; seqno and at (the revoke link) are history
  link,      \* links, by item
  tail,      \* highest seqno in links, by chain
  pc,        \* where each handler is
  req        \* its request, and what it has read

scvars == <<chainLock, keyLock, dev, revoked, link, tail, pc, req>>
vars == <<wq, tree, epno, scvars>>
tables == <<wq, tree, epno, dev, revoked, link, tail>>

KeySeqnos == 0..MaxSeqno[UserChain]
KeyPairs == Keys \X KeySeqnos
Owner == Txns \cup {Free, Kept}
Ops == {"post", "provision", "revoke", "rotate"}
PCs == {"idle", "authorized", "signerLocked", "applied", "done"}

Link == [kind : Ops \cup {"eldest", "none"}, signer : Keys, sseq : KeySeqnos,
         target : Keys, root : Nat]
Request == [op : Ops, chain : Chains, seqno : Nat, place : {"next", "off"},
            signer : Keys, sseq : KeySeqnos, target : Keys, tseq : KeySeqnos,
            root : Nat, ppSeqno : Nat]
Revocation == [key : Keys, seqno : KeySeqnos, header : Nat, tree : Nat, at : Nat]

NoLink == [kind |-> "none", signer |-> Eldest, sseq |-> 0, target |-> Eldest, root |-> 0]
NoRequest == [op |-> "rotate", chain |-> UserChain, seqno |-> 0, place |-> "next",
              signer |-> Eldest, sseq |-> 0, target |-> Eldest, tseq |-> 0, root |-> 0,
              ppSeqno |-> 0]
NoDevice == [seqno |-> 0, epno |-> 0]

(* The tables, and what a handler remembers of its request and reads. *)
TypeOK ==
  /\ MQTypeOK
  /\ chainLock \in [Items -> Owner]
  /\ keyLock \in [KeyPairs -> Owner]
  /\ dev \in [Keys -> [seqno : KeySeqnos, epno : Nat]]
  /\ revoked \in SUBSET Revocation
  /\ link \in [Items -> Link]
  /\ tail \in [Chains -> Nat]
  /\ pc \in [Txns -> PCs]
  /\ req \in [Txns -> Request]

Init ==
  /\ MQInit
  /\ chainLock = [i \in Items |-> Free]
  /\ keyLock = [p \in KeyPairs |-> Free]
  /\ dev = [k \in Keys |-> NoDevice]
  /\ revoked = {}
  /\ link = [i \in Items |-> NoLink]
  /\ tail = [c \in Chains |-> 0]
  /\ pc = [t \in Txns |-> "idle"]
  /\ req = [t \in Txns |-> NoRequest]

-----------------------------------------------------------------------------
(* Pieces of a request. *)

Item(r) == <<r.chain, r.seqno>>
PPItem(r) == <<SettingsChain, r.ppSeqno>>
SignerPair(r) == <<r.signer, r.sseq>>
TargetPair(r) == <<r.target, r.tseq>>

RevokesAnother(r) == r.op = "revoke" /\ r.target # r.signer
RevokesItself(r) == r.op = "revoke" /\ r.target = r.signer

(* The link goes on top of the tail that the handler has read. *)
OnTail(r) == r.place = "next"

IsCurrent(k) == dev[k].seqno # 0

Goto(t, from, to) == pc[t] = from /\ pc' = [pc EXCEPT ![t] = to]

(* A transaction that rolls back gives up every row it inserted. *)
Rollback(t) ==
  /\ chainLock' = [i \in Items |-> IF chainLock[i] = t THEN Free ELSE chainLock[i]]
  /\ keyLock' = [p \in KeyPairs |-> IF keyLock[p] = t THEN Free ELSE keyLock[p]]
  /\ UNCHANGED tables

(* The handler returns an error to its client. *)
Fail(t) ==
  /\ Rollback(t)
  /\ pc' = [pc EXCEPT ![t] = "idle"]
  /\ req' = [req EXCEPT ![t] = NoRequest]

-----------------------------------------------------------------------------
(* Signup: one transaction, before any other handler knows the user. *)
Signup ==
  LET i == <<UserChain, 1>> IN
  /\ tail[UserChain] = 0
  /\ i \in Items
  /\ QueueMerkleWork({i})
  /\ link' = [link EXCEPT ![i] = [kind |-> "eldest", signer |-> Eldest, sseq |-> 1,
                                  target |-> Eldest, root |-> 0]]
  /\ tail' = [tail EXCEPT ![UserChain] = 1]
  /\ dev' = [dev EXCEPT ![Eldest] = [seqno |-> 1, epno |-> 0]]
  /\ UNCHANGED <<chainLock, keyLock, revoked, pc, req>>

(* Mutant: the signer is in the tree, at whatever epoch. *)
VerifyGenericLinkAnyEpno(k, root) == IsCurrent(k) /\ dev[k].epno # 0

(* A generic link needs a signer whose own provisioning is in the tree, no *)
(* later than the root the link names (VerifyGenericLink).                 *)
VerifyGenericLink(k, root) == IsCurrent(k) /\ dev[k].epno \in 1..root

(* Mutant: the last device may go. *)
CheckDeviceRevokeLast(k) == IsCurrent(k)

(* An owner must remain; every device of the model is one. *)
CheckDeviceRevoke(k) == IsCurrent(k) /\ \E other \in Keys \ {k} : IsCurrent(other)

(* Mutant: a device may be revoked while its provisioning is on its way.   *)
CheckDeviceInTreeNever(k) == TRUE

CheckDeviceInTree(k) == dev[k].epno # 0

(* The checks of a request that names this root, before its links. *)
Authorized(r, root) ==
  /\ IsCurrent(r.signer)
  /\ r.op = "post" => VerifyGenericLink(r.signer, root)
  /\ r.op = "revoke" => CheckDeviceRevoke(r.target) /\ CheckDeviceInTree(r.target)

(* Mutant: LockEntity does nothing for the user chain. *)
CanLockEntityNoUser(i) == i[1] = UserChain \/ chainLock[i] = Free

(* LockEntity: INSERT INTO chain_locks goes through. *)
CanLockEntity(i) == chainLock[i] = Free

(* A handler starts: prepareDeviceChange, or the first half of             *)
(* PostGenericLinkTryTx.  INSERT INTO chain_locks (LockEntity) for the     *)
(* seqno of the client's link blocks while another handler works on that   *)
(* seqno, and refuses one that a committed link has locked.  (The eldest   *)
(* link has not: signup locks no row.)  Then the reads: the tail, and the  *)
(* seqnos that introduced the keys, for the locks to come.  A request that *)
(* is refused here leaves no trace.                                        *)
Start(t, r, root) ==
  /\ Goto(t, "idle", "authorized")
  /\ Item(r) \in Items
  /\ CanLockEntity(Item(r))
  /\ Authorized(r, root)
  /\ chainLock' = [chainLock EXCEPT ![Item(r)] = t]
  /\ req' = [req EXCEPT ![t] = r]
  /\ UNCHANGED <<keyLock, tables>>

ChainOf(op) == IF op = "post" THEN SettingsChain ELSE UserChain

(* The client built the link on top of the chain's tail and names a root   *)
(* it had seen.  The row that is locked now keeps the tail, and for the    *)
(* user chain the devices, as they are, so lock and reads are one step.    *)
(* (A post reads its signer before the tail of the settings chain; if the  *)
(* signer is revoked in between, its key lock fails.)                      *)
Prepare(t, op, k, target, root, ppSeqno) ==
  LET c == ChainOf(op)
      r == [op |-> op, chain |-> c, seqno |-> tail[c] + 1, place |-> "next", signer |-> k,
            sseq |-> dev[k].seqno, target |-> target,
            tseq |-> IF op = "revoke" THEN dev[target].seqno ELSE 0, root |-> root,
            ppSeqno |-> ppSeqno]
  IN
  /\ Start(t, r, root)
  /\ root \in 1..epno
  /\ ppSeqno # 0 => WithPassphrase /\ op \in {"revoke", "rotate"} /\ PPItem(r) \in Items

(* The client's link has another seqno.  It is bound to be refused, but    *)
(* InsertLink compares seqno and tail only after it has locked the keys,   *)
(* so the handler holds a chain row and waits for keys like any other.     *)
(* Which root it names makes no difference then, and a link that revokes   *)
(* no other key is as good as a rotation.                                  *)
PrepareOffTail(t, op, k, target, seqno) ==
  LET c == ChainOf(op)
      r == [op |-> op, chain |-> c, seqno |-> seqno, place |-> "off", signer |-> k,
            sseq |-> dev[k].seqno, target |-> target,
            tseq |-> IF op = "revoke" THEN dev[target].seqno ELSE 0, root |-> 0,
            ppSeqno |-> 0]
  IN
  /\ Start(t, r, epno)
  /\ seqno # tail[c] + 1
  /\ op # "provision" /\ (op = "revoke" <=> target # k)

(* The four handlers.  Where no check reads the root, it is the latest.  A *)
(* rotation is a RevokeDevice without a device to revoke; ChangeUsername   *)
(* writes its link like a rotation without a passphrase.                   *)
PostGenericLink(t, k, root) == Prepare(t, "post", k, k, root, 0)

ProvisionDevice(t, k, new) == Prepare(t, "provision", k, new, epno, 0)

RevokeDevice(t, k, target, root, ppSeqno) == Prepare(t, "revoke", k, target, root, ppSeqno)

RotateKeys(t, k, root, ppSeqno) ==
  /\ ppSeqno = 0 => root = epno
  /\ Prepare(t, "rotate", k, k, root, ppSeqno)

(* No link the key signed is still on its way into the tree, or entered it *)
(* after the root that the revoke link names.                              *)
AssertNoRacingSigners(k, root) ==
  \A i \in Items :
    (link[i].kind # "none" /\ link[i].signer = k) =>
      wq[i].state = "committed" /\ wq[i].epno <= root

(* The primary keys of device_keys and revoked_device_keys allow the row   *)
(* that InsertDevice or RemoveDevice inserts.                              *)
DeviceRowsFit(r) ==
  /\ r.op = "provision" => ~IsCurrent(r.target)
  /\ r.op = "revoke" => \A v \in revoked : v.key = r.target => v.header # r.root

InsertDevice(k, seqno) == [dev EXCEPT ![k] = [seqno |-> seqno, epno |-> 0]]

RemoveDevice(k) == [dev EXCEPT ![k] = NoDevice]

(* Mutant: an INSERT that waits on a committed row instead of failing. *)
KeyLockedWaits(pair) == FALSE

(* InsertDeviceLock: the row of a (verify_key, seqno) pair can be inserted,*)
(* or is there for good ("key locked").  Otherwise the INSERT blocks.      *)
CanLockKey(pair) == keyLock[pair] = Free
KeyLocked(pair) == keyLock[pair] = Kept

(* InsertLink, when another key is to be revoked, locks the signer first. *)
LockSigner(t) ==
  LET p == SignerPair(req[t]) IN
  /\ RevokesAnother(req[t])
  /\ \/ /\ Goto(t, "authorized", "signerLocked")
        /\ CanLockKey(p)
        /\ keyLock' = [keyLock EXCEPT ![p] = t]
        /\ UNCHANGED <<chainLock, req, tables>>
     \/ /\ pc[t] = "authorized"
        /\ KeyLocked(p)
        /\ Fail(t)

(* InsertLink from its last lock on (the revoked key's, or the signer's    *)
(* when there is none): the checks against the tail as it was read, which  *)
(* come only now, INSERT INTO links, QueueMerkleWork, and the assertion    *)
(* about the revoked key: before the link is queued when the key revokes   *)
(* itself, after it otherwise, so that this transaction's own row is never *)
(* among those it looks at.  Then the device rows.                         *)
InsertLink(t) ==
  LET r == req[t]
      from == IF RevokesAnother(r) THEN "signerLocked" ELSE "authorized"
      p == IF RevokesAnother(r) THEN TargetPair(r) ELSE SignerPair(r)
      ok == /\ OnTail(r)
            /\ r.op = "revoke" => AssertNoRacingSigners(r.target, r.root)
            /\ DeviceRowsFit(r)
  IN
  \/ /\ Goto(t, from, IF r.ppSeqno # 0 THEN "applied" ELSE "done")
     /\ CanLockKey(p)
     /\ ok
     /\ keyLock' = [keyLock EXCEPT ![p] = t]
     /\ UNCHANGED <<chainLock, req, tables>>
  \/ /\ pc[t] = from
     /\ KeyLocked(p) \/ (CanLockKey(p) /\ ~ok)
     /\ Fail(t)

(* UpdatePassphrase, inside the revoke: PostGenericLinkTryTx on the        *)
(* settings chain while the locks of the outer link are still held.  The   *)
(* signer's lock row was deleted by this transaction, which may insert it  *)
(* again.  A key that has just revoked itself has no device row left in    *)
(* this transaction, and VerifyGenericLink refuses it.                     *)
PostSettings(t) ==
  LET r == req[t]
      i == PPItem(r)
      ok == /\ VerifyGenericLink(r.signer, r.root) /\ ~RevokesItself(r)
            /\ r.ppSeqno = tail[SettingsChain] + 1
  IN
  \/ /\ Goto(t, "applied", "done")
     /\ CanLockEntity(i)
     /\ ok
     /\ chainLock' = [chainLock EXCEPT ![i] = t]
     /\ UNCHANGED <<keyLock, req, tables>>
  \/ /\ pc[t] = "applied"
     /\ \/ chainLock[i] = Kept
        \/ CanLockEntity(i) /\ ~ok
     /\ Fail(t)

(* Mutant: the revoked key's lock row is released like the signer's. *)
KeepsKeyLockNever(r, pair) == FALSE

(* Rows in revoke_key_locks that survive the commit: a revoked key's.  The *)
(* signer's row is deleted (ReleaseDeviceLock) unless it revokes itself.   *)
KeepsKeyLock(r, pair) == r.op = "revoke" /\ pair = TargetPair(r)

(* COMMIT makes every write of the transaction visible. *)
CommitTx(t) ==
  LET r == req[t]
      items == {Item(r)} \cup (IF r.ppSeqno # 0 THEN {PPItem(r)} ELSE {})
      l == [kind |-> r.op, signer |-> r.signer, sseq |-> r.sseq,
            target |-> r.target, root |-> r.root]
  IN
  /\ Goto(t, "done", "idle")
  /\ QueueMerkleWork(items)
  /\ link' = [i \in Items |-> IF i = Item(r) THEN l
                              ELSE IF i \in items THEN [l EXCEPT !.kind = "post",
                                                                 !.target = r.signer]
                              ELSE link[i]]
  /\ tail' = [c \in Chains |-> IF \E i \in items : i[1] = c THEN tail[c] + 1 ELSE tail[c]]
  /\ dev' = CASE r.op = "provision" -> InsertDevice(r.target, r.seqno)
              [] r.op = "revoke" -> RemoveDevice(r.target)
              [] OTHER -> dev
  /\ revoked' = IF r.op = "revoke"
                THEN revoked \cup {[key |-> r.target, seqno |-> r.tseq,
                                    header |-> r.root, tree |-> 0, at |-> r.seqno]}
                ELSE revoked
  /\ chainLock' = [i \in Items |-> IF chainLock[i] = t THEN Kept ELSE chainLock[i]]
  /\ keyLock' = [p \in KeyPairs |->
                   IF keyLock[p] # t THEN keyLock[p]
                   ELSE IF KeepsKeyLock(r, p) THEN Kept ELSE Free]
  /\ req' = [req EXCEPT ![t] = NoRequest]

(* Any statement may fail, the client may go away, the server may crash;   *)
(* or COMMIT fails before it is sent, and RetryTx2 calls the handler again *)
(* with the same arguments, which is another Prepare.                      *)
AbortTx(t) == pc[t] # "idle" /\ Fail(t)

-----------------------------------------------------------------------------
(* Who a blocked INSERT waits for.  A handler blocked on its first row (in *)
(* Prepare) holds nothing yet, and nobody waits for it.                    *)
WantedOwner(t) ==
  CASE pc[t] = "authorized" -> keyLock[SignerPair(req[t])]
    [] pc[t] = "signerLocked" -> keyLock[TargetPair(req[t])]
    [] pc[t] = "applied" -> chainLock[PPItem(req[t])]
    [] OTHER -> Free

WaitsFor(t, u) == u # t /\ WantedOwner(t) = u

(* Transactions that wait for one another in a ring. *)
WaitCycle(C) ==
  /\ C # {}
  /\ \A t \in C : \E u \in C : WaitsFor(t, u)
  /\ \A u \in C : \E t \in C : WaitsFor(t, u)

(* Postgres aborts a member of the ring (deadlock_detected). *)
DeadlockVictim(t) ==
  /\ \E C \in SUBSET Txns : t \in C /\ WaitCycle(C)
  /\ Fail(t)

-----------------------------------------------------------------------------
(* checkTreeForLeafUpdates: the queue rows and the tables their update     *)
(* triggers name change in one transaction, which fails as a whole when a  *)
(* trigger finds no row.                                                   *)
Provisions(i) == link[i].kind \in {"eldest", "provision"}
Revokes(i) == link[i].kind = "revoke"

TriggerFindsRow(i) ==
  /\ Provisions(i) => IsCurrent(link[i].target)
  /\ Revokes(i) => \E v \in revoked : v.key = link[i].target /\ v.header = link[i].root

CheckTreeForLeafUpdates(S) ==
  /\ CheckTree(S)
  /\ \A i \in S : TriggerFindsRow(i)
  /\ dev' = [k \in Keys |->
               IF \E i \in S : Provisions(i) /\ link[i].target = k
               THEN [dev[k] EXCEPT !.epno =
                       tree[CHOOSE i \in S : Provisions(i) /\ link[i].target = k]]
               ELSE dev[k]]
  /\ revoked' = {LET hits == {i \in S : /\ Revokes(i)
                                        /\ link[i].target = v.key
                                        /\ link[i].root = v.header}
                 IN IF hits = {} THEN v
                    ELSE [v EXCEPT !.tree = tree[CHOOSE i \in hits : TRUE]] : v \in revoked}
  /\ UNCHANGED <<chainLock, keyLock, link, tail, pc, req>>

Pipeline ==
  \/ MQPipeline /\ UNCHANGED scvars
  \/ \E S \in SUBSET FoundRows : CheckTreeForLeafUpdates(S)

(* The next statement of a handler that is not blocked. *)
Step(t) ==
  \/ LockSigner(t)
  \/ InsertLink(t)
  \/ PostSettings(t)
  \/ CommitTx(t)

(* Seqnos a client may name for a passphrase link (0: there is none). *)
PPSeqnos == IF WithPassphrase THEN 0..MaxSeqno[SettingsChain] ELSE {0}

Next ==
  \/ Signup
  \/ \E t \in Txns :
       \/ \E k \in Keys, new \in Keys : ProvisionDevice(t, k, new)
       \/ \E k \in Keys, root \in 1..epno :
            \/ PostGenericLink(t, k, root)
            \/ \E pp \in PPSeqnos :
                 \/ RotateKeys(t, k, root, pp)
                 \/ \E target \in Keys : RevokeDevice(t, k, target, root, pp)
       \/ \E op \in Ops, k \in Keys, target \in Keys :
            \E n \in OffSeqnos[ChainOf(op)] : PrepareOffTail(t, op, k, target, n)
       \/ Step(t)
       \/ AbortTx(t)
       \/ DeadlockVictim(t)
  \/ Pipeline

Spec == Init /\ [][Next]_vars

(* Postgres wakes a blocked INSERT whenever the row it waits for is given  *)
(* up and does not pass it over forever (strong fairness: the row may be   *)
(* taken and given up by others any number of times), and breaks deadlocks;*)
(* the three pipeline servers poll forever.  Nothing obliges clients to    *)
(* send requests.                                                          *)
Fairness ==
  /\ \A t \in Txns : SF_vars(Step(t)) /\ WF_vars(DeadlockVictim(t))
  /\ \A i \in Items : WF_vars(InsertKeyValue(i) /\ UNCHANGED scvars)
  /\ WF_vars(CheckTreeForLeafUpdates(FoundRows))

FairSpec == Spec /\ Fairness

-----------------------------------------------------------------------------
(* Properties. *)

(* Links a key pair signed as their author, as merkle_work_queue records   *)
(* it, other than the link by which it revoked itself.  That a new device  *)
(* also countersigns the link that provisions it is not counted.           *)
SignedBy(k, s) ==
  {i \in Items : /\ link[i].kind # "none" /\ link[i].signer = k /\ link[i].sseq = s
                 /\ ~(Revokes(i) /\ link[i].target = k)}

(* docs/revoke_locks.md: "when k is revoked, it contains a hash containing *)
(* all links it ever signed in its lifetime".  Whatever the interleaving   *)
(* of InsertLink with the links the key is signing on other chains, each   *)
(* of them is in the tree no later than the root the revoke link names.    *)
RevokeCoversSignatures ==
  \A v \in revoked : \A i \in SignedBy(v.key, v.seqno) : tree[i] \in 1..v.header

(* The batcher never gets stuck on an update trigger: as long as a link is *)
(* not committed, the device_keys or revoked_device_keys row its trigger   *)
(* updates is there, and is the row of this link, not of a reuse of the    *)
(* key (checkTreeForLeafUpdates returns UpdateError otherwise, and every   *)
(* later poll fails the same way).                                         *)
TriggersResolve ==
  \A i \in Items : wq[i].state = "queued" =>
    /\ Provisions(i) => dev[link[i].target].seqno = i[2]
    /\ Revokes(i) => \E v \in revoked : /\ v.key = link[i].target
                                        /\ v.header = link[i].root
                                        /\ v.at = i[2]

(* The epochs copied next to device keys are the epochs of the links that  *)
(* introduced or revoked them, also when a key is revoked and used again.  *)
EpnosAgree ==
  /\ \A k \in Keys : dev[k].epno # 0 => dev[k].epno = tree[<<UserChain, dev[k].seqno>>]
  /\ \A v \in revoked : v.tree # 0 => v.tree = tree[<<UserChain, v.at>>]

(* A settings link names a root that contains the provisioning of the key  *)
(* and seqno it was checked against, also when VerifyGenericLink runs in   *)
(* the middle of a revoke and the batcher fills in epochs meanwhile.       *)
SignaturesFollowProvisioning ==
  \A i \in Items : link[i].kind = "post" =>
    tree[<<UserChain, link[i].sseq>>] \in 1..link[i].root

(* The signer's device row is read when a handler starts, before its key   *)
(* is locked (generic_link.go, prepareDeviceChange).  When the link is     *)
(* committed the very same row is still there: the key was not revoked, or *)
(* revoked and provisioned anew, in the meantime.                          *)
SignersStillCurrent ==
  [][\A i \in Items :
       (link[i].kind = "none" /\ link'[i].kind \in Ops) =>
         dev[link'[i].signer].seqno = link'[i].sseq]_vars

(* The user always keeps a device: two devices cannot revoke each other. *)
SomeDeviceRemains == tail[UserChain] > 0 => \E k \in Keys : IsCurrent(k)

(* "Try to insert the locks in the same order" (chain.go): no set of       *)
(* handlers ever waits in a ring.                                          *)
NoWaitCycle == \A C \in SUBSET Txns : ~WaitCycle(C)

(* Without a passphrase a ring has a member whose link is not on top of    *)
(* the tail and would have been refused (InsertLink checks that only after *)
(* the key locks).  Handlers that build on the tail, on one chain or the   *)
(* other, with keys that sign and revoke one another, never form a ring.   *)
NoWaitCycleOnTail ==
  \A C \in SUBSET Txns : WaitCycle(C) => \E t \in C : ~OnTail(req[t])

(* Every handler that has locked its chain's row ends: key locks and the   *)
(* settings row are always handed over or given up.  (One that still waits *)
(* for its first row has not started here.)                                *)
HandlersEnd == \A t \in Txns : pc[t] # "idle" ~> pc[t] = "idle"

(* Every queued link is committed to the tree in the end. *)
LinksGetCommitted ==
  \A i \in Items : wq[i].state = "queued" ~> wq[i].state = "committed"
=============================================================================

# TLA+ models of the FOKS server

FOKS keeps users' and teams' keys in *sigchains*: signed, numbered links whose
hashes go into a Merkle tree that the server publishes root by root (epoch by
epoch). This directory models the core of the server: the handlers that append
links, and what the Merkle pipeline promises them. TLC checks small instances;
TLAPS proves the safety properties for all of them.

## The system

| Part | State | Operations | Code |
|---|---|---|---|
| Sigchain writers | `links`, `device_keys`, `revoked_device_keys`, `chain_locks`, `revoke_key_locks` | signup, provision, revoke, rotate, change the username, post a generic link | `server/shared/chain.go`, `generic_link.go`, `device.go`, `server/engine/user.go`, `reg.go` |
| Merkle pipeline | `merkle_work_queue`, batches in `raft_kv_store`, bookkeeping, roots, signatures | batcher, builder and signer polls | `server/engine/merkle_*.go`, `lib/merkle` |
| Loops and leases | `locks` of the pipeline servers | acquire, heartbeat, take over, poke | `server/shared/looper.go`, `lock.go` |
| Teams | team chains, membership, invites, bearer tokens | edit, accept, load | `lib/team`, `server/shared/team*.go`, `server/engine/team*.go` |
| Key-value store | directories, versioned entries with reference counts, files in chunks, advisory locks, usage | put, get, upload, lock, quota poll | `server/kv-store` |
| Realtime | channels, messages, inbox versions, push outbox, holds, read markers | send, poll, fan-in, hold, release | `server/realtime`, `server/shared/rt_inbox_hub.go` |
| Key exchange, queue service | mailboxes | enqueue, long poll | `server/engine/queue.go`, `server/shared/queue.go` |
| Hosts, certificates, plans, web, tools, client | | | see `components` in `PROJECT.json` |

Handlers are Postgres transactions at Read Committed, on any number of server
processes. They meet only in the database. A handler locks the seqno that its
client's link names by an INSERT into `chain_locks`, and then the key that signs,
as well as a key it revokes, by an INSERT into `revoke_key_locks`. Only after that
does it compare the seqno with the chain's tail. The batcher picks up queued
links, the builder puts each into the tree under a new root, and the batcher
later notices, marks the row committed and copies the epoch to the tables that
the link's *update trigger* names.

What makes this hard: handlers of one user race on two chains (the user chain
and the settings chain) and share keys; a revocation must cover what the key is
signing elsewhere at the same time; the handlers read epochs that the batcher
writes later; a key may be revoked and come back (a hardware key); any handler
may fail at any statement. `hazards` in `PROJECT.json` lists these places, with
those of the parts still to be modelled.

## Modules

| Module | What it is |
|---|---|
| `MerkleQueue` | The abstract pipeline: queue rows, the epoch of each leaf, the latest root. |
| `SigChain` | The handlers as transactions over the lock tables, extending `MerkleQueue`. |
| `MCSigChain` | Small constants for TLC. |
| `MerkleQueueProofs`, `SigChainProofs`, `SigChainDeviceProofs` | Theorems. |

**MerkleQueue.** `wq` is `merkle_work_queue` (a row is "queued" while the code
calls it staged or processing), `tree` the epoch of each link's leaf, `epno` the
latest root. `QueueMerkleWork` is the insert at a handler's commit;
`InsertKeyValue` one leaf by the builder, whose candidates are the lowest
uncommitted links of each chain (`pollLeaves`); `StoreRoot` a root for somebody
else; `CheckTree` the batcher's `checkTreeForLeafUpdates`. `MQSpec` is the
contract between handlers and pipeline.

**SigChain.** One user, with the lock tables as functions from rows to owners:
`Free`, a transaction, or `Kept` (committed). An INSERT goes through on a free
row, blocks on another transaction's row and fails on a kept one. A row that a
transaction inserted and deleted (the signer's lock) still blocks others until it
ends. The other writes of a transaction are invisible to others until COMMIT, so
`CommitTx` applies them; each read that can go stale is a step before it.

| Action | Code |
|---|---|
| `Signup` | `signupTryTx` |
| `PostGenericLink`, `ProvisionDevice`, `RevokeDevice`, `RotateKeys` | start of the handler (`Start`): `LockEntity` for the next seqno, and the checks (`VerifyGenericLink`, `CheckDeviceRevokeOrRotate`, `checkDeviceInTree`). `ChangeUsername` appends its link like a rotation without a passphrase |
| `PrepareOffTail` | the same for a link with any other seqno, which `InsertLink` will refuse, but only after its key locks |
| `LockSigner` | first lock in `InsertLink` when another key is revoked |
| `InsertLink` | the rest of `InsertLink`: the check against the tail, `AssertNoRacingSigners`, and the device rows |
| `PostSettings` | the `PostGenericLinkTryTx` of `UpdatePassphrase` inside a revoke or rotation, when the client sent a passphrase part (`arg.Ppa`); it is refused after a self-revocation, whose device row is gone |
| `CommitTx`, `AbortTx` | `RetryTx2` |
| `DeadlockVictim` | Postgres' deadlock detector (external) |
| `CheckTreeForLeafUpdates` | the batcher's update with its triggers |

### Abstractions

- Every device is an owner. Lower roles only restrict who may sign.
- Shared keys, boxes, tree locations, names and subkeys are data no guard that
  is modelled depends on.
- The settings link inside a revoke has the signer and root of the revoke.
- Passphrase generations, and the rows of `passphrase_boxes` and `user_salts`, are
  left out. A stale generation is one more way to fail. The `passphrase_boxes`
  row, taken right before the lock of the settings chain by the same handlers,
  adds nothing to the order of locks. Setting or changing a passphrase outside
  of a revoke is a settings post.
- Of a link off the tail only the locks matter. So it has no root, no passphrase
  part, and counts as a rotation unless it revokes another key or is a post.
- A new device countersigns the link that provisions it. `SignedBy` counts the
  author of a link only, as `merkle_work_queue` does, and `checkDeviceInTree` does
  not compare the provisioning epoch with the root a revoke names. So
  `RevokeCoversSignatures` is about links signed as their author.
- A handler starts when it has its first chain row. The wait for that row is not
  a state of the model: such a handler holds nothing, but whether it gets the row
  is not covered by `HandlersEnd`.
- A client names a root it has seen, so one no later than the current one.
- A request that is refused at its first checks changes nothing and is left out;
  later failures roll back (`Fail`).
- A COMMIT whose acknowledgement is lost is not modelled.
- `MerkleQueue` takes it for granted that a leaf enters the tree once and that
  the servers poll. Showing that of batcher, builder and leases is the next step
  of the plan. Team-change triggers are left to the team model.

## Runs

All bounds are constants: `MaxSeqno` (links per chain), `MaxEpno` (roots),
`Keys`, `Txns`, and `OffSeqnos` (the seqnos other than the next one that clients
try on each chain). The runs try seqnos ahead of the tail: one that a handler has
used is refused at once by its lock row, and seqno 1, for which signup leaves no
lock row, is like one ahead. Handlers are interchangeable (`SYMMETRY`) where no
liveness is checked. Deadlock checking is off because a behaviour ends when the
bounds on links and roots are used up.

| Run | Instance | Shows |
|---|---|---|
| `races` | 2 keys, 2 handlers, 4+1 links, 6 epochs, off the tail: user seqnos 3 and 4 | types; a revocation covers all signatures; triggers find their rows; chain order; the signer's device row is the one that was read; a device remains; a ring of waiting handlers has a member off the tail |
| `passphrase` | the same with a passphrase, 3+2 links, off the tail: user 3, settings 2 | revocations again, when one transaction writes two chains; settings links name a root with their signer's provisioning; the handlers implement `MQSpec` |
| `reuse` | 1 handler, 5 links, 7 epochs | copied epochs are right when a key comes back |
| `liveness` | 2 handlers, 3+1 links, passphrase, off the tail: user 3 | handlers end; queued links are committed |
| `deadlock` | 1 key, 2 handlers, 2+1 links, passphrase | *violation*: a rotation and a post wait for each other |
| `mutual_revoke` | 2 keys, 2 handlers, 4 links, off the tail: user 4 | *violation*: two revokes wait for each other |

Two handlers are enough for each race that concerns two transactions, and two
keys for mutual and self-revocation. Four user links allow signup, provision,
revoke and one more; the reuse of a key takes five, which is why `reuse` has one
handler. The proofs below do not depend on these bounds.

**Fairness** (`liveness`). The pipeline servers poll forever: weak fairness of
each leaf and of the batcher's update. A handler that is not blocked goes on, and
Postgres does not pass over a waiting INSERT forever. As the row may be taken and
given up many times, this is strong fairness of `Step`. Postgres breaks a ring.
No fairness is assumed of clients, of `StoreRoot` or of failures.

**Findings** (`deadlock`, `mutual_revoke`). `InsertLink` orders the key locks ("Try
to insert the locks in the same order", `server/shared/chain.go:76`), and yet
handlers can wait for each other:

- A revoke or rotation with a passphrase part takes the settings chain's lock
  after its key locks, and a settings post takes it before.
- The signer's lock comes first and is not among those that are sorted. Two
  devices that revoke each other take the two locks in opposite orders. What
  would keep them apart is the chain's lock, but it is taken for the seqno that
  each link names: with seqnos n+1 and n+2 both go on to the key locks. The second
  link would be refused by the tail check that comes after them.

Postgres aborts one of the two, and `RetryTx2` does not retry it: the client sees
an error. No data is damaged: the passing runs include these cases.

## Theorems

All are of the form `Spec => []P` (or `Spec => P` for `MQSpec` and an action
property) for any number of keys, handlers, links and epochs. The assumptions are those named in `MerkleQueue` and
`SigChain`: types of the constants, the two chains, and that `Free` and `Kept`
are not transactions.

| Theorem | Property | Argument |
|---|---|---|
| `ChainOrderHolds` | `ChainOrder` | `MQInv`: rows agree with the tree, no gaps; the builder only sees heads |
| `TypeCorrect` | `TypeOK` | part of `Base` |
| `ImplementsMerkleQueue` | `MQSpec` | `QueueInv`: rows exist exactly up to each tail, and who commits holds the chain locks of what it writes |
| `SigChainsInOrder` | `ChainOrder` | the two above |
| `RevocationsCoverSignatures` | `RevokeCoversSignatures` | `RevokeInv`, below |
| `NoDeadlockOnTail` | `NoWaitCycleOnTail`, without a passphrase | only a revoke between its two key locks is waited for while waiting; if its link is on top of the tail, it holds the lock of the next seqno, so there is one at most |
| `TriggersAlwaysResolve`, `EpnosAlwaysAgree`, `SignersWereProvisioned`, `UserKeepsDevice` | `TriggersResolve`, `EpnosAgree`, `SignaturesFollowProvisioning`, `SomeDeviceRemains` | `DeviceInv`, below |
| `SignersStayCurrent` | `SignersStillCurrent` | `SignersInv`, below |

`Base` says which locks a handler holds at each point, that a request on top of
its chain stays there, and that a handler past `InsertLink` has such a request.
`RevokeInv` adds that a revoked pair of key and seqno stays locked for good, and
that what `AssertNoRacingSigners` found remains true until the commit: a link
signed with that key needs the lock this handler holds.
Neither the assertion nor the lock would do alone. `DeviceInv` adds that what a
handler read of the device tables is still so when it commits, because it holds
the user chain; that an epoch beside a key belongs to a committed link; and that
a key and root identify a revocation. `SignersInv` adds for every handler, on
whichever chain, that the signer's device row is as it was read or the signer's
lock row is there for good: a row goes only with a revocation, which leaves the
lock of the same key and seqno behind. Who commits holds that lock itself.

Only model-checked: the two liveness properties (temporal reasoning with fairness
is out of the prover's reach), and the failures of `NoWaitCycle`.

## Plan

1. `MerklePipeline`: batcher, builder, signer, bookkeeping, hostchain tails,
   leases with takeover, crashes between transactions; shown to implement
   `MerkleQueue`. Lost commits in `SigChain`.
2. Realtime: inbox hub with long polls (nothing slept over), idempotent sends,
   push holds against concurrent sends, late-join fan-in.
3. Key-value store: entries and reference counts, uploads, advisory locks, quota.
4. Teams: several revoked keys in a link, membership triggers; social invites; the
   key-exchange mailbox.
5. Pure algorithms of `lib/merkle` (prefixes, back pointers) against a reference.
6. Theorems: the refinement by `MerklePipeline`; at most one lease holder that
   may write; conservation of reference counts; sequence numbers without gaps in
   a channel.

Not planned: cryptography (taken as perfect), generated protocol code, TLS, DNS
and ACME, the web front end and the command line.

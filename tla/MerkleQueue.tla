---------------------------- MODULE MerkleQueue ----------------------------
(***************************************************************************)
(* What the merkle pipeline promises the handlers that queue sigchain      *)
(* links: a queued link is picked up in chain order, enters the tree once, *)
(* at an epoch of its own, and its queue row is later marked committed     *)
(* with that epoch.  SigChain extends this module with the handlers.       *)
(*                                                                         *)
(* A row of merkle_work_queue is indexed by chain and seqno.  The database *)
(* transactions behind each action are those of server/engine/             *)
(* merkle_batcher.go and lib/merkle/server.go.                             *)
(***************************************************************************)
EXTENDS Integers, FiniteSets

CONSTANTS
  Chains,     \* the (id, chain_type) pairs that appear in merkle_work_queue
  MaxSeqno,   \* bound: links on each chain, [Chains -> Nat]
  MaxEpno     \* bound: roots in the tree

ASSUME MaxSeqnoAssumption == MaxSeqno \in [Chains -> Nat]
ASSUME MaxEpnoAssumption == MaxEpno \in Nat

Items == UNION {{c} \X (1..MaxSeqno[c]) : c \in Chains}

VARIABLES
  wq,    \* merkle_work_queue: state and epno of the row of each link
  tree,  \* epoch at which the link's leaf entered the tree, 0 when absent
  epno   \* epoch of the latest root

mqvars == <<wq, tree, epno>>

(* A row counts as queued while the code has it "staged" or "processing". *)
Row == [state : {"none", "queued", "committed"}, epno : Nat]

Absent == [state |-> "none", epno |-> 0]
Queued == [state |-> "queued", epno |-> 0]

MQTypeOK ==
  /\ wq \in [Items -> Row]
  /\ epno \in Nat \ {0}
  /\ tree \in [Items -> 0..epno]

(* InitTree stores the root of epoch 1 (MerkleEpnoFirst). *)
MQInit ==
  /\ wq = [i \in Items |-> Absent]
  /\ tree = [i \in Items |-> 0]
  /\ epno = 1

-----------------------------------------------------------------------------
(* QueueMerkleWork, for every link of one committed transaction. *)
QueueMerkleWork(S) ==
  /\ wq' = [i \in Items |-> IF i \in S THEN Queued ELSE wq[i]]
  /\ UNCHANGED <<tree, epno>>

(* Mutant: any uncommitted link may go to the builder. *)
IsHeadAnySeqno(i) == wq[i].state = "queued"

(* The lowest uncommitted seqno of each chain, the only one the batcher    *)
(* considers (pollLeaves).                                                 *)
IsHead(i) ==
  /\ wq[i].state = "queued"
  /\ \A j \in Items : (j[1] = i[1] /\ j[2] < i[2]) => wq[j].state # "queued"

(* Mutant: the leaf is stored, but no root. *)
InsertKeyValueNoRoot(i) ==
  /\ IsHead(i)
  /\ tree[i] = 0
  /\ tree' = [tree EXCEPT ![i] = epno + 1]
  /\ UNCHANGED <<wq, epno>>

(* The builder stores one leaf and the root of the next epoch with it. *)
InsertKeyValue(i) ==
  /\ IsHead(i)
  /\ tree[i] = 0
  /\ tree' = [tree EXCEPT ![i] = epno + 1]
  /\ epno' = epno + 1
  /\ UNCHANGED wq

(* A root for somebody else's leaf, or for a hostchain tail alone.  The    *)
(* bound leaves an epoch for every leaf still to come.                     *)
StoreRoot ==
  /\ epno + Cardinality({i \in Items : tree[i] = 0}) < MaxEpno
  /\ epno' = epno + 1
  /\ UNCHANGED <<wq, tree>>

(* checkTreeForLeafUpdates: rows found in the tree become committed.  A    *)
(* failed CheckKeyExists counts as "not there yet", so S may be any subset.*)
CheckTree(S) ==
  /\ S # {}
  /\ \A i \in S : wq[i].state = "queued" /\ tree[i] # 0
  /\ wq' = [i \in Items |-> IF i \in S THEN [state |-> "committed", epno |-> tree[i]]
                                       ELSE wq[i]]
  /\ UNCHANGED <<tree, epno>>

FoundRows == {i \in Items : wq[i].state = "queued" /\ tree[i] # 0}

MQPipeline ==
  \/ \E i \in Items : InsertKeyValue(i)
  \/ StoreRoot

(* What the pipeline asks of the handlers in turn: a link is queued once,  *)
(* after its predecessors.                                                 *)
InSeqnoOrder(S) ==
  \A i \in S :
    /\ wq[i].state = "none"
    /\ \A j \in Items : (j[1] = i[1] /\ j[2] < i[2]) => wq[j].state # "none"

MQNext ==
  \/ \E S \in SUBSET Items : InSeqnoOrder(S) /\ QueueMerkleWork(S)
  \/ MQPipeline
  \/ \E S \in SUBSET FoundRows : CheckTree(S)

(* The promise of this module, which the sigchain handlers (SigChain) and  *)
(* the servers of the pipeline must keep between them: each link is queued *)
(* once and in order, gets one leaf at one epoch that never changes, and   *)
(* is reported committed only at that epoch.                               *)
MQSpec == MQInit /\ [][MQNext]_mqvars

(* A chain's links enter the tree in the order of their seqnos, so a root  *)
(* that contains a link contains all links before it (pollLeaves offers a  *)
(* link to the builder only once its predecessors are committed).          *)
ChainOrder ==
  \A i, j \in Items :
    (i[1] = j[1] /\ i[2] < j[2] /\ tree[j] # 0) => tree[i] \in 1..(tree[j] - 1)
=============================================================================

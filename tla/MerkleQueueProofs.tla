------------------------- MODULE MerkleQueueProofs -------------------------
(* Proofs about the abstract merkle queue. *)
EXTENDS MerkleQueue, TLAPS

(* Queue rows and the tree agree: a committed row carries the epoch of its *)
(* leaf, and only queued links have leaves.                                *)
RowsMatchTree ==
  \A i \in Items :
    /\ wq[i].state = "committed" => tree[i] # 0 /\ wq[i].epno = tree[i]
    /\ tree[i] # 0 => wq[i].state # "none"

(* A chain is queued without gaps. *)
NoGaps ==
  \A i, j \in Items :
    (i[1] = j[1] /\ i[2] < j[2] /\ wq[j].state # "none") => wq[i].state # "none"

MQInv == MQTypeOK /\ RowsMatchTree /\ NoGaps /\ ChainOrder

(* Items are pairs; this is all the proofs need of them. *)
LEMMA ItemsArePairs ==
  \A i \in Items : i = <<i[1], i[2]>> /\ i[1] \in Chains /\ i[2] \in Nat \ {0}
BY MaxSeqnoAssumption DEF Items

(* The freshly initialised tree and the empty queue satisfy the invariant. *)
LEMMA MQInitInv == MQInit => MQInv
BY DEF MQInit, MQInv, MQTypeOK, RowsMatchTree, NoGaps, ChainOrder, Row, Absent

(* Queueing, building and committing keep it, one step per action.         *)
LEMMA MQNextInv == MQInv /\ [MQNext]_mqvars => MQInv'
<1> SUFFICES ASSUME MQInv, [MQNext]_mqvars PROVE MQInv'
  OBVIOUS
<1> USE DEF MQInv, MQTypeOK
<1>1. ASSUME NEW S \in SUBSET Items, InSeqnoOrder(S), QueueMerkleWork(S)
      PROVE MQInv'
  <2>1. MQTypeOK'
    BY <1>1 DEF QueueMerkleWork, Row, Queued
  <2>2. RowsMatchTree'
    BY <1>1 DEF QueueMerkleWork, InSeqnoOrder, RowsMatchTree, Queued
  <2>3. NoGaps'
    BY <1>1, ItemsArePairs DEF QueueMerkleWork, InSeqnoOrder, NoGaps, Queued
  <2>4. ChainOrder'
    BY <1>1 DEF QueueMerkleWork, ChainOrder
  <2> QED BY <2>1, <2>2, <2>3, <2>4
<1>2. ASSUME NEW i \in Items, InsertKeyValue(i) PROVE MQInv'
  <2>1. MQTypeOK'
    BY <1>2 DEF InsertKeyValue
  <2>2. RowsMatchTree'
    BY <1>2 DEF InsertKeyValue, IsHead, RowsMatchTree
  <2>3. NoGaps'
    BY <1>2 DEF InsertKeyValue, NoGaps
  <2>4. \A j \in Items : (j[1] = i[1] /\ j[2] < i[2]) => tree[j] \in 1..epno
    BY <1>2 DEF InsertKeyValue, IsHead, RowsMatchTree, NoGaps, Row
  <2>5. \A j \in Items : (j[1] = i[1] /\ i[2] < j[2]) => tree[j] = 0
    BY <1>2 DEF InsertKeyValue, ChainOrder
  <2>6. ChainOrder'
    <3> SUFFICES ASSUME NEW a \in Items, NEW b \in Items, a[1] = b[1], a[2] < b[2],
                        tree'[b] # 0
                 PROVE tree'[a] \in 1..(tree'[b] - 1)
      BY DEF ChainOrder
    <3>1. CASE b = i
      BY <3>1, <1>2, <2>4, ItemsArePairs DEF InsertKeyValue
    <3>2. CASE b # i
      BY <3>2, <1>2, <2>5, ItemsArePairs DEF InsertKeyValue, ChainOrder
    <3> QED BY <3>1, <3>2
  <2> QED BY <2>1, <2>2, <2>3, <2>6
<1>3. CASE StoreRoot
  BY <1>3 DEF StoreRoot, RowsMatchTree, NoGaps, ChainOrder
<1>4. ASSUME NEW S \in SUBSET Items, CheckTree(S) PROVE MQInv'
  <2>1. MQTypeOK'
    BY <1>4 DEF CheckTree, Row
  <2>2. RowsMatchTree' /\ NoGaps'
    BY <1>4 DEF CheckTree, RowsMatchTree, NoGaps
  <2>3. ChainOrder'
    BY <1>4 DEF CheckTree, ChainOrder
  <2> QED BY <2>1, <2>2, <2>3
<1>5. CASE UNCHANGED mqvars
  BY <1>5 DEF mqvars, RowsMatchTree, NoGaps, ChainOrder
<1>6. FoundRows \subseteq Items
  BY DEF FoundRows
<1> QED BY <1>1, <1>2, <1>3, <1>4, <1>5, <1>6 DEF MQNext, MQPipeline

(* Queue rows agree with the tree, no chain has a gap and its leaves are   *)
(* in order, in every behaviour of the queue.                              *)
THEOREM MQInvariant == MQSpec => []MQInv
BY MQInitInv, MQNextInv, PTL DEF MQSpec

(* For any number of chains and links, whatever the batcher and builder    *)
(* do, a chain's links are in the tree in the order of their seqnos.       *)
THEOREM ChainOrderHolds == MQSpec => []ChainOrder
<1>1. MQInv => ChainOrder
  BY DEF MQInv
<1> QED BY <1>1, MQInvariant, PTL
=============================================================================

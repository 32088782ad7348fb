-------------------------- MODULE BlockCacheProofs --------------------------
(***************************************************************************)
(* Proofs about BlockCache, for every number of blocks, cache size and     *)
(* bound. The inductive invariant is the conjunction of the invariants the *)
(* runs check: each needs the others. A clean buffer stays equal to its    *)
(* block when it is evicted only because ref_blocks and the flags are in   *)
(* order; the dirty list stays exact only because a referenced buffer is   *)
(* never on it.                                                            *)
(***************************************************************************)
EXTENDS BlockCache, FiniteSetTheorems, TLAPS

IInv ==
    /\ TypeOK
    /\ CleanBuffersMatchDisk
    /\ DirtyListExact
    /\ RefBlocksExact

USE SizeAssumption, ValueAssumption, JournalAssumption

-----------------------------------------------------------------------------
(***************************************************************************)
(* Counting buffers.                                                       *)
(***************************************************************************)

\* Every set of blocks is finite.
LEMMA BlocksFinite ==
    ASSUME NEW S \in SUBSET Block
    PROVE  IsFiniteSet(S) /\ Cardinality(S) \in Nat
  <1>1. IsFiniteSet(Block)
    BY FS_Interval DEF Block
  <1>2. IsFiniteSet(S)
    BY <1>1, FS_Subset
  <1> QED
    BY <1>2, FS_CardinalityType

\* Dropping the buffers of D lowers the count by as many.
LEMMA CountDrop ==
    ASSUME NEW C \in SUBSET Block, NEW D \in SUBSET C
    PROVE  /\ Cardinality(C \ D) = Cardinality(C) - Cardinality(D)
           /\ Cardinality(C \ D) \in Nat
  <1>1. IsFiniteSet(C)
    BY BlocksFinite
  <1>2. C \cap D = D
    OBVIOUS
  <1>3. C \ D \in SUBSET Block
    OBVIOUS
  <1> QED
    BY <1>1, <1>2, <1>3, FS_Difference, BlocksFinite

\* Adding a buffer for b raises the count by one, unless it has one.
LEMMA CountAdd ==
    ASSUME NEW C \in SUBSET Block, NEW b \in Block
    PROVE  /\ Cardinality(C \cup {b}) = Cardinality(C) + (IF b \in C THEN 0 ELSE 1)
           /\ Cardinality(C \cup {b}) \in Nat
  <1>1. IsFiniteSet(C) /\ Cardinality(C) \in Nat
    BY BlocksFinite
  <1>2. C \cup {b} \in SUBSET Block
    OBVIOUS
  <1>3. Cardinality(C \cup {b}) \in Nat
    BY <1>2, BlocksFinite
  <1>4. Cardinality(C \cup {b}) = IF b \in C THEN Cardinality(C) ELSE Cardinality(C) + 1
    BY <1>1, FS_AddElement
  <1> QED
    BY <1>1, <1>3, <1>4

-----------------------------------------------------------------------------
(***************************************************************************)
(* The building blocks of the actions keep the invariant.                  *)
(***************************************************************************)

\* The order operators return orders.
LEMMA WithoutType ==
    ASSUME NEW ord \in [Block -> SUBSET Block], NEW S
    PROVE  Without(ord, S) \in [Block -> SUBSET Block]
  BY DEF Without

LEMMA OnTopType ==
    ASSUME NEW ord \in [Block -> SUBSET Block], NEW S \in SUBSET Block, NEW b
    PROVE  OnTop(ord, S, b) \in [Block -> SUBSET Block]
  BY DEF OnTop

\* Writing buffers that are ready leaves well-formed blocks on the device.
LEMMA WrittenType ==
    ASSUME TypeOK, NEW W \in SUBSET Ready
    PROVE  /\ Written(W) \in [Block -> Value]
           /\ \A b \in Block : Written(W)[b] = IF b \in W THEN data[b] ELSE disk[b]
  BY DEF TypeOK, Written, Ready

\* Dropping any buffers after writing any that are ready keeps the invariant.
LEMMA DropKeeps ==
    ASSUME IInv, NEW D \in SUBSET cached, Drop(D),
           NEW W \in SUBSET Ready, disk' = Written(W),
           freed' \in SUBSET Block, writeBack' \in 0 .. MaxWriteBack,
           faults' \in {"none", "write"},
           (writeBack' = 0) => (writeBack = 0 \/ D = cached),
           faults' = "none" => (faults = "none" \/ D = cached)
    PROVE  IInv'
  <1> USE DEF IInv
  <1>1. TypeOK'
    <2>1. cached' \in SUBSET Block /\ refctr' \in [Block -> 0 .. MaxRef]
      BY DEF TypeOK, Drop
    <2>2. \A b \in Block \ cached' : refctr'[b] = 0
      BY DEF TypeOK, Drop
    <2>3. /\ uptodate' \in SUBSET cached' /\ dirty' \in SUBSET cached'
          /\ flush' \in SUBSET cached' /\ tmp' \in SUBSET (cached' \cap JournalBlock)
          /\ dirtyList' \in SUBSET cached'
      BY DEF TypeOK, Drop
    <2>4. /\ data' \in [Block -> Value \cup {Junk}]
          /\ \A b \in uptodate' : data'[b] \in Value
      BY DEF TypeOK, Drop
    <2>5. older' \in [Block -> SUBSET Block] /\ below' \in [Block -> SUBSET Block]
      BY WithoutType DEF TypeOK, Drop
    <2>6. refBlocks' \in Nat
      BY CountDrop DEF TypeOK, Drop, RefBlocksExact
    <2>7. disk' \in [Block -> Value]
      BY WrittenType
    <2> QED
      BY <2>1, <2>2, <2>3, <2>4, <2>5, <2>6, <2>7 DEF TypeOK
  <1>2. CleanBuffersMatchDisk'
    BY WrittenType DEF CleanBuffersMatchDisk, Drop, TypeOK, Ready
  <1>3. DirtyListExact'
    <2>1. Unref' = Unref \ D
      BY DEF Drop, TypeOK, Unref
    <2>2. dirty' = dirty \ D /\ dirtyList' = dirtyList \ D
      BY DEF Drop
    <2>3. dirtyList' \subseteq Unref' \cap dirty'
      BY <2>1, <2>2 DEF DirtyListExact
    <2>4. CASE D = cached
      <3>1. Unref' = {} /\ dirtyList' = {}
        BY <2>1, <2>2, <2>4 DEF Unref, TypeOK
      <3> QED
        BY <3>1 DEF DirtyListExact
    <2>5. CASE D # cached
      <3>1. ASSUME faults' = "none"
            PROVE  /\ Unref' \cap dirty' \subseteq dirtyList'
                   /\ writeBack' = 0 => dirtyList' = {}
        <4>1. faults = "none" /\ (writeBack' = 0 => writeBack = 0)
          BY <2>5, <3>1
        <4> QED
          BY <2>1, <2>2, <4>1 DEF DirtyListExact
      <3> QED
        BY <2>3, <3>1 DEF DirtyListExact
    <2> QED
      BY <2>4, <2>5
  <1>4. RefBlocksExact'
    BY CountDrop DEF RefBlocksExact, Drop, TypeOK
  <1> QED
    BY <1>1, <1>2, <1>3, <1>4

\* Taking a reference, after a shake that dropped V, keeps the invariant. The
\* flags fl and tm are those the caller sets on the buffer it gets.
LEMMA ReferenceKeeps ==
    ASSUME IInv, NEW b \in Block, NEW V \in SUBSET Unref, NEW up \in BOOLEAN,
           NEW fl \in SUBSET {b}, NEW tm \in SUBSET ({b} \cap JournalBlock),
           Reference(b, V, up, fl, tm)
    PROVE  IInv'
  <1> USE DEF IInv
  <1> DEFINE kept == cached \ V
             onDisk == Written(V \cap Ready)
  <1>0. V \in SUBSET cached /\ kept \in SUBSET Block
    BY DEF Unref, TypeOK
  <1>1. onDisk \in [Block -> Value]
        /\ \A x \in Block : onDisk[x] = IF x \in V \cap Ready THEN data[x] ELSE disk[x]
    BY WrittenType
  <1>2. /\ cached' = kept \cup {b}
        /\ refctr[b] < MaxRef
        /\ refctr' = [refctr EXCEPT ![b] = @ + 1]
        /\ uptodate' = (uptodate \ V) \cup (IF up THEN {b} ELSE {})
        /\ dirty' = dirty \ V
        /\ flush' = (flush \ V) \cup fl
        /\ tmp' = (tmp \ V) \cup tm
        /\ data' = [x \in Block |-> IF x = b /\ up /\ b \notin uptodate \ V
                                    THEN onDisk[b]
                                    ELSE IF x \in V THEN Junk ELSE data[x]]
        /\ disk' = onDisk
        /\ writeBack' = writeBack /\ freed' = freed /\ faults' = faults
    BY DEF Reference
  <1>3. dirtyList' = IF refctr[b] = 0 THEN dirtyList \ (V \cup {b}) ELSE dirtyList \ V
    BY DEF Reference
  <1>4. RefBlocksExact' /\ refBlocks' \in Nat
    <2>1. refBlocks' = (refBlocks - Cardinality(V)) + (IF b \in kept THEN 0 ELSE 1)
      BY DEF Reference
    <2>2. Cardinality(kept) = Cardinality(cached) - Cardinality(V)
      BY <1>0, CountDrop DEF TypeOK
    <2>3. Cardinality(kept \cup {b}) = Cardinality(kept) + (IF b \in kept THEN 0 ELSE 1)
          /\ Cardinality(kept \cup {b}) \in Nat
      BY <1>0, CountAdd
    <2> QED
      BY <1>2, <2>1, <2>2, <2>3 DEF RefBlocksExact
  <1>5. TypeOK'
    <2>1. cached' \in SUBSET Block /\ refctr' \in [Block -> 0 .. MaxRef]
      BY <1>0, <1>2 DEF TypeOK
    <2>2. \A x \in Block \ cached' : refctr'[x] = 0
      BY <1>0, <1>2 DEF TypeOK, Unref
    <2>3. /\ uptodate' \in SUBSET cached' /\ dirty' \in SUBSET cached'
          /\ flush' \in SUBSET cached' /\ tmp' \in SUBSET (cached' \cap JournalBlock)
          /\ dirtyList' \in SUBSET cached'
      BY <1>2, <1>3 DEF TypeOK
    <2>4. /\ data' \in [Block -> Value \cup {Junk}]
          /\ \A x \in uptodate' : data'[x] \in Value
      BY <1>1, <1>2 DEF TypeOK
    <2>5. older' \in [Block -> SUBSET Block] /\ below' \in [Block -> SUBSET Block]
      BY <1>0, WithoutType, OnTopType DEF TypeOK, Reference
    <2>6. disk' \in [Block -> Value]
      BY <1>1, <1>2
    <2> QED
      BY <1>2, <1>4, <2>1, <2>2, <2>3, <2>4, <2>5, <2>6 DEF TypeOK
  <1>6. CleanBuffersMatchDisk'
    <2>1. dirty' \subseteq uptodate'
      BY <1>2 DEF CleanBuffersMatchDisk
    <2>2. ASSUME NEW x \in uptodate' \ dirty'
          PROVE  data'[x] = disk'[x]
      <3>1. x \in Block
        BY <1>2 DEF TypeOK
      <3>2. CASE x = b /\ b \notin uptodate \ V
        BY <1>2, <2>2, <3>1, <3>2
      <3>3. CASE x \in uptodate \ V
        <4>1. x \notin V /\ x \notin dirty
          BY <1>2, <2>2, <3>3
        <4>2. data'[x] = data[x] /\ disk'[x] = disk[x]
          BY <1>1, <1>2, <3>1, <3>3, <4>1
        <4> QED
          BY <3>3, <4>1, <4>2 DEF CleanBuffersMatchDisk
      <3> QED
        BY <1>2, <2>2, <3>2, <3>3
    <2> QED
      BY <2>1, <2>2 DEF CleanBuffersMatchDisk
  <1>7. DirtyListExact'
    <2>1. Unref' = Unref \ (V \cup {b})
      BY <1>0, <1>2 DEF Unref, TypeOK
    <2>2. dirtyList' = dirtyList \ (V \cup {b})
      <3>1. refctr[b] # 0 => b \notin dirtyList
        BY DEF DirtyListExact, Unref
      <3> QED
        BY <1>3, <3>1
    <2>3. dirty' = dirty \ V /\ writeBack' = writeBack /\ faults' = faults
      BY <1>2
    <2> QED
      BY <2>1, <2>2, <2>3 DEF DirtyListExact
  <1> QED
    BY <1>4, <1>5, <1>6, <1>7

-----------------------------------------------------------------------------
(***************************************************************************)
(* One lemma per call.                                                     *)
(***************************************************************************)

\* Dropping victims after a shake.
LEMMA EvictKeeps ==
    ASSUME IInv, NEW D \in SUBSET cached, Evict(D),
           faults' = faults \/ faults' = "write"
    PROVE  IInv'
  <1>1. D \cap Ready \in SUBSET Ready /\ Drop(D) /\ disk' = Written(D \cap Ready)
        /\ freed' \in SUBSET Block /\ writeBack' = writeBack
        /\ writeBack' \in 0 .. MaxWriteBack /\ faults' \in {"none", "write"}
    BY DEF Evict, IInv, TypeOK
  <1> QED
    BY <1>1, DropKeeps

LEMMA GetKeeps ==
    ASSUME IInv, NEW b \in Block,
           \/ BlockGet(b) \/ BlockGetNoread(b) \/ JbdBlockGet(b) \/ JbdBlockGetNoread(b)
    PROVE  IInv'
  <1>1. CASE BlockGet(b)
    BY <1>1, ReferenceKeeps DEF BlockGet
  <1>2. CASE BlockGetNoread(b)
    BY <1>2, ReferenceKeeps DEF BlockGetNoread
  <1>3. CASE JbdBlockGet(b)
    BY <1>3, ReferenceKeeps DEF JbdBlockGet
  <1>4. CASE JbdBlockGetNoread(b)
    BY <1>4, ReferenceKeeps DEF JbdBlockGetNoread
  <1> QED
    BY <1>1, <1>2, <1>3, <1>4

LEMMA FailedGetKeeps ==
    ASSUME IInv, NEW b \in Block,
           BlockGetShakeFailed \/ BlockGetNoMemory(b) \/ BlockGetReadFailed(b)
    PROVE  IInv'
  <1>1. PICK D \in SUBSET cached :
               Evict(D) /\ (faults' = faults \/ faults' = "write")
    <2>1. CASE BlockGetShakeFailed
      BY <2>1 DEF BlockGetShakeFailed, Unref
    <2>2. CASE BlockGetNoMemory(b)
      BY <2>2 DEF BlockGetNoMemory, Unref
    <2>3. CASE BlockGetReadFailed(b)
      BY <2>3 DEF BlockGetReadFailed, Unref
    <2> QED
      BY <2>1, <2>2, <2>3
  <1> QED
    BY <1>1, EvictKeeps

LEMMA ModifyKeeps ==
    ASSUME IInv, NEW b \in Block, NEW v \in Value, Modify(b, v)
    PROVE  IInv'
  <1> USE DEF IInv
  <1>1. b \in cached
    BY DEF TypeOK, Modify
  <1>2. TypeOK'
    BY <1>1 DEF TypeOK, Modify
  <1>3. CleanBuffersMatchDisk'
    BY <1>1 DEF TypeOK, CleanBuffersMatchDisk, Modify
  <1>4. DirtyListExact'
    BY <1>1 DEF TypeOK, DirtyListExact, Unref, Modify
  <1>5. RefBlocksExact'
    BY DEF RefBlocksExact, Modify
  <1> QED
    BY <1>2, <1>3, <1>4, <1>5

LEMMA SetKeeps ==
    ASSUME IInv, NEW b \in Block, BlockSet(b)
    PROVE  IInv'
  <1> USE DEF IInv
  <1>1. CASE SetShared(b)
    <2>1. TypeOK'
      BY <1>1 DEF TypeOK, SetShared
    <2>2. CleanBuffersMatchDisk' /\ RefBlocksExact'
      BY <1>1 DEF CleanBuffersMatchDisk, RefBlocksExact, SetShared
    <2>3. DirtyListExact'
      BY <1>1 DEF DirtyListExact, Unref, TypeOK, SetShared
    <2> QED
      BY <2>1, <2>2, <2>3
  <1>2. CASE SetDelayed(b)
    <2>1. TypeOK'
      BY <1>2, OnTopType DEF TypeOK, SetDelayed, Ready
    <2>2. CleanBuffersMatchDisk' /\ RefBlocksExact'
      BY <1>2 DEF CleanBuffersMatchDisk, RefBlocksExact, SetDelayed
    <2>3. DirtyListExact'
      BY <1>2 DEF DirtyListExact, Unref, TypeOK, SetDelayed, Delayed, Ready
    <2> QED
      BY <2>1, <2>2, <2>3
  <1>3. CASE SetWritten(b)
    <2>1. {b} \in SUBSET Ready /\ {b} \in SUBSET cached /\ disk' = Written({b})
          /\ writeBack' = writeBack /\ freed' = freed /\ faults' = faults
      BY <1>3 DEF SetWritten, Ready, TypeOK
    <2>2. CASE b \in tmp
      BY <1>3, <2>1, <2>2, DropKeeps DEF SetWritten, TypeOK
    <2>3. CASE b \notin tmp
      <3>1. KeepIdle(b, {b}, {b})
        BY <1>3, <2>3 DEF SetWritten
      <3>2. TypeOK'
        BY <2>1, <3>1, WrittenType DEF TypeOK, KeepIdle
      <3>3. CleanBuffersMatchDisk'
        BY <2>1, <3>1, WrittenType DEF CleanBuffersMatchDisk, TypeOK, KeepIdle, Ready
      <3>4. DirtyListExact'
        BY <1>3, <2>1, <3>1 DEF DirtyListExact, Unref, TypeOK, SetWritten, KeepIdle
      <3>5. RefBlocksExact'
        BY <3>1 DEF RefBlocksExact, KeepIdle
      <3> QED
        BY <3>2, <3>3, <3>4, <3>5
    <2> QED
      BY <2>2, <2>3
  <1>4. CASE SetWriteFailed(b)
    <2>1. {} \in SUBSET Ready /\ {b} \in SUBSET cached /\ disk' = Written({})
          /\ writeBack' = writeBack /\ freed' = freed /\ faults' = "write"
      BY <1>4 DEF SetWriteFailed, Ready, TypeOK, Written
    <2>2. CASE b \in tmp
      BY <1>4, <2>1, <2>2, DropKeeps DEF SetWriteFailed, TypeOK
    <2>3. CASE b \notin tmp
      <3>1. KeepIdle(b, {}, {b}) /\ disk' = disk
        BY <1>4, <2>3 DEF SetWriteFailed
      <3>2. TypeOK'
        BY <2>1, <3>1 DEF TypeOK, KeepIdle
      <3>3. CleanBuffersMatchDisk' /\ RefBlocksExact'
        BY <3>1 DEF CleanBuffersMatchDisk, RefBlocksExact, KeepIdle
      <3>4. DirtyListExact'
        <4>1. Unref \subseteq Unref'
          BY <3>1 DEF Unref, TypeOK, KeepIdle
        <4>2. dirtyList' = dirtyList /\ dirty' = dirty
          BY <3>1 DEF KeepIdle
        <4> QED
          BY <2>1, <4>1, <4>2 DEF DirtyListExact
      <3> QED
        BY <3>2, <3>3, <3>4
    <2> QED
      BY <2>2, <2>3
  <1>5. CASE SetClean(b)
    <2>1. {} \in SUBSET Ready /\ {b} \in SUBSET cached /\ disk' = Written({})
          /\ writeBack' = writeBack /\ freed' = freed /\ faults' = faults
      BY <1>5 DEF SetClean, Ready, TypeOK, Written
    <2>2. CASE b \notin uptodate \/ b \in tmp
      BY <1>5, <2>1, <2>2, DropKeeps DEF SetClean, TypeOK
    <2>3. CASE ~(b \notin uptodate \/ b \in tmp)
      <3>1. KeepIdle(b, {}, {}) /\ disk' = disk /\ b \notin dirty
        BY <1>5, <2>3 DEF SetClean, Ready
      <3>2. TypeOK'
        BY <2>1, <3>1 DEF TypeOK, KeepIdle
      <3>3. CleanBuffersMatchDisk' /\ RefBlocksExact'
        BY <3>1 DEF CleanBuffersMatchDisk, RefBlocksExact, KeepIdle
      <3>4. DirtyListExact'
        BY <2>1, <3>1 DEF DirtyListExact, Unref, TypeOK, KeepIdle
      <3> QED
        BY <3>2, <3>3, <3>4
    <2> QED
      BY <2>2, <2>3
  <1> QED
    BY <1>1, <1>2, <1>3, <1>4, <1>5 DEF BlockSet

LEMMA FlushLbaKeeps ==
    ASSUME IInv, NEW b \in Block, FlushLba(b)
    PROVE  IInv'
  <1> USE DEF IInv
  <1>1. CASE FlushLbaWritten(b)
    <2>1. {b} \in SUBSET Ready
      BY <1>1 DEF FlushLbaWritten
    <2>2. TypeOK'
      BY <1>1, <2>1, WrittenType, WithoutType, OnTopType DEF TypeOK, FlushLbaWritten
    <2>3. CleanBuffersMatchDisk' /\ RefBlocksExact'
      BY <1>1, <2>1, WrittenType
      DEF CleanBuffersMatchDisk, RefBlocksExact, TypeOK, FlushLbaWritten, Ready
    <2>4. DirtyListExact'
      <3>1. Unref' = Unref /\ writeBack' = writeBack /\ faults' = faults
        BY <1>1 DEF Unref, FlushLbaWritten
      <3>2. dirty' = dirty \ {b} /\ dirtyList' = dirtyList \ {b}
        BY <1>1 DEF FlushLbaWritten
      <3> QED
        BY <3>1, <3>2 DEF DirtyListExact
    <2> QED
      BY <2>2, <2>3, <2>4
  <1>2. ASSUME NEW again \in BOOLEAN, FlushLbaFailed(b, again)
        PROVE  IInv'
    <2>1. {b} \in SUBSET Ready /\ faults' = "write" /\ refctr' = refctr /\ cached' = cached
          /\ b \in Unref
      BY <1>2 DEF FlushLbaFailed
    <2>2. CASE Delayed(b)
      <3>1. TypeOK'
        <4>1. older' = OnTop(older, cached, b) /\ below' = OnTop(below, dirtyList, b)
              /\ dirtyList' = dirtyList \cup {b}
              /\ UNCHANGED <<disk, dirty, flush, uptodate, tmp, data, refBlocks,
                             writeBack, freed>>
          BY <1>2, <2>2 DEF FlushLbaFailed
        <4>2. older' \in [Block -> SUBSET Block] /\ below' \in [Block -> SUBSET Block]
          <5>1. dirtyList \in SUBSET Block /\ cached \in SUBSET Block
            BY DEF TypeOK
          <5> QED
            BY <4>1, <5>1, OnTopType DEF TypeOK
        <4> QED
          BY <2>1, <4>1, <4>2 DEF TypeOK, Unref
      <3>2. CleanBuffersMatchDisk' /\ RefBlocksExact'
        BY <1>2, <2>2 DEF CleanBuffersMatchDisk, RefBlocksExact, FlushLbaFailed
      <3>3. DirtyListExact'
        BY <1>2, <2>1, <2>2 DEF DirtyListExact, Unref, FlushLbaFailed, Ready
      <3> QED
        BY <3>1, <3>2, <3>3
    <2>3. CASE ~Delayed(b)
      <3>1. TypeOK'
        <4>1. older' = OnTop(older, cached, b) /\ below' = Without(below, {b})
              /\ dirtyList' = dirtyList \ {b} /\ flush' = flush \ {b}
              /\ (dirty' = dirty \/ dirty' = dirty \ {b})
              /\ (disk' = disk \/ disk' = Written({b}))
              /\ UNCHANGED <<uptodate, tmp, data, refBlocks, writeBack, freed>>
          BY <1>2, <2>3 DEF FlushLbaFailed
        <4>2. older' \in [Block -> SUBSET Block] /\ below' \in [Block -> SUBSET Block]
          BY <4>1, WithoutType, OnTopType DEF TypeOK
        <4>3. disk' \in [Block -> Value]
          BY <2>1, <4>1, WrittenType DEF TypeOK
        <4> QED
          BY <2>1, <4>1, <4>2, <4>3 DEF TypeOK
      <3>2. CleanBuffersMatchDisk' /\ RefBlocksExact'
        BY <1>2, <2>1, <2>3, WrittenType
        DEF CleanBuffersMatchDisk, RefBlocksExact, TypeOK, FlushLbaFailed, Ready
      <3>3. DirtyListExact'
        BY <1>2, <2>1, <2>3 DEF DirtyListExact, Unref, FlushLbaFailed
      <3> QED
        BY <3>1, <3>2, <3>3
    <2> QED
      BY <2>2, <2>3
  <1>3. CASE FlushLbaClean(b)
    <2>1. {} \in SUBSET Ready /\ {b} \in SUBSET cached /\ disk' = Written({})
          /\ writeBack' = writeBack /\ freed' = freed /\ faults' = faults
      BY <1>3 DEF FlushLbaClean, Ready, TypeOK, Written, Unref
    <2>2. CASE b \notin uptodate
      BY <1>3, <2>1, <2>2, DropKeeps DEF FlushLbaClean, TypeOK
    <2>3. CASE b \in uptodate
      <3>1. older' = OnTop(older, cached, b)
            /\ UNCHANGED <<cached, refctr, uptodate, dirty, flush, tmp, data,
                           dirtyList, below, refBlocks, disk, writeBack, freed,
                           faults>>
        BY <1>3, <2>3 DEF FlushLbaClean
      <3>2. older' \in [Block -> SUBSET Block]
        BY <3>1, OnTopType DEF TypeOK
      <3>3. TypeOK'
        BY <3>1, <3>2 DEF TypeOK
      <3>4. CleanBuffersMatchDisk' /\ RefBlocksExact' /\ DirtyListExact'
        BY <3>1 DEF CleanBuffersMatchDisk, RefBlocksExact, DirtyListExact, Unref
      <3> QED
        BY <3>3, <3>4
    <2> QED
      BY <2>2, <2>3
  <1> QED
    BY <1>1, <1>2, <1>3 DEF FlushLba

\* Writing buffers of the dirty list, whatever write-back mode becomes, keeps
\* the invariant: as long as no write fails the whole list is written.
LEMMA FlushListedKeeps ==
    ASSUME IInv, NEW S \in SUBSET dirtyList, FlushListed(S),
           writeBack' \in 0 .. MaxWriteBack,
           faults' \in {"none", "write"},
           faults' = "none" => faults = "none" /\ S = dirtyList
    PROVE  IInv'
  <1> USE DEF IInv
  <1>1. S \in SUBSET Ready /\ S \in SUBSET Block
    BY DEF DirtyListExact, CleanBuffersMatchDisk, Ready, TypeOK
  <1>2. /\ disk' = Written(S) /\ dirty' = dirty \ S /\ dirtyList' = dirtyList \ S
        /\ below' = Without(below, S)
        /\ UNCHANGED <<cached, refctr, uptodate, flush, tmp, data, older, refBlocks, freed>>
    BY DEF FlushListed
  <1>3. disk' \in [Block -> Value]
        /\ \A b \in Block : disk'[b] = IF b \in S THEN data[b] ELSE disk[b]
    BY <1>1, <1>2, WrittenType
  <1>4. TypeOK'
    <2>1. below' \in [Block -> SUBSET Block]
      BY <1>2, WithoutType DEF TypeOK
    <2> QED
      BY <1>2, <1>3, <2>1 DEF TypeOK
  <1>5. CleanBuffersMatchDisk'
    <2>1. dirty' \subseteq uptodate'
      BY <1>2 DEF CleanBuffersMatchDisk
    <2>2. \A b \in uptodate' \ dirty' : data'[b] = disk'[b]
      BY <1>2, <1>3 DEF CleanBuffersMatchDisk, TypeOK
    <2> QED
      BY <2>1, <2>2 DEF CleanBuffersMatchDisk
  <1>6. DirtyListExact'
    BY <1>2 DEF DirtyListExact, Unref
  <1>7. RefBlocksExact'
    BY <1>2 DEF RefBlocksExact
  <1> QED
    BY <1>4, <1>5, <1>6, <1>7

LEMMA FlushKeeps ==
    ASSUME IInv, FlushDone \/ FlushFailed, writeBack' \in 0 .. MaxWriteBack
    PROVE  IInv'
  <1>1. CASE FlushDone
    BY <1>1, FlushListedKeeps DEF FlushDone, IInv, TypeOK
  <1>2. CASE FlushFailed
    BY <1>2, FlushListedKeeps DEF FlushFailed
  <1> QED
    BY <1>1, <1>2

\* A step that changes nothing of the cache, and only raises the write-back
\* counter or lowers it to one or more, keeps the invariant.
LEMMA CounterKeeps ==
    ASSUME IInv, UNCHANGED <<bufVars, disk, freed, faults>>,
           writeBack' \in 0 .. MaxWriteBack, writeBack' = 0 => writeBack = 0
    PROVE  IInv'
  BY DEF IInv, TypeOK, CleanBuffersMatchDisk, DirtyListExact, Unref, RefBlocksExact, bufVars

LEMMA WriteBackKeeps ==
    ASSUME IInv, CacheFlush \/ CacheWriteBackOn \/ CacheWriteBackOff
    PROVE  IInv'
  <1>0. writeBack \in 0 .. MaxWriteBack
    BY DEF IInv, TypeOK
  <1>1. CASE CacheFlush
    BY <1>0, <1>1, FlushKeeps DEF CacheFlush
  <1>2. CASE CacheWriteBackOn
    BY <1>0, <1>2, CounterKeeps DEF CacheWriteBackOn
  <1>3. CASE CacheWriteBackOff
    <2>1. CASE writeBack > 1
      BY <1>0, <1>3, <2>1, CounterKeeps DEF CacheWriteBackOff
    <2>2. CASE ~(writeBack > 1)
      BY <1>0, <1>3, <2>2, FlushKeeps DEF CacheWriteBackOff
    <2> QED
      BY <2>1, <2>2
  <1> QED
    BY <1>1, <1>2, <1>3

LEMMA DetachKeeps ==
    ASSUME IInv, BcacheCleanup \/ Crash
    PROVE  IInv'
  <1>1. CASE BcacheCleanup
    BY <1>1, DropKeeps DEF BcacheCleanup, IInv, TypeOK
  <1>2. CASE Crash
    <2>1. disk' = Written({}) /\ {} \in SUBSET Ready
      BY <1>2 DEF Crash, Written, IInv, TypeOK
    <2> QED
      BY <1>2, <2>1, DropKeeps DEF Crash, IInv, TypeOK
  <1> QED
    BY <1>1, <1>2

LEMMA InvalidateKeeps ==
    ASSUME IInv, NEW b \in Block, NEW cnt \in 1 .. (NBlocks - b) + 1, Invalidate(b, cnt)
    PROVE  IInv'
  <1> USE DEF IInv
  <1> DEFINE hit == Reached(b, cnt)
  <1>1. hit \in SUBSET cached
    BY DEF Reached
  <1>2. /\ uptodate' = uptodate \ hit /\ dirty' = dirty \ hit
        /\ data' = [x \in Block |-> IF x \in hit THEN Junk ELSE data[x]]
        /\ dirtyList' = dirtyList \ hit /\ below' = Without(below, hit)
        /\ UNCHANGED <<cached, refctr, flush, tmp, older, refBlocks, writeBack, disk,
                       faults>>
    BY DEF Invalidate
  <1>3. TypeOK'
    <2>1. freed' \in SUBSET Block
      BY DEF Invalidate, TypeOK, Block
    <2>2. below' \in [Block -> SUBSET Block]
      BY <1>2, WithoutType DEF TypeOK
    <2> HIDE DEF hit
    <2> QED
      BY <1>1, <1>2, <2>1, <2>2 DEF TypeOK
  <1>4. CleanBuffersMatchDisk' /\ DirtyListExact' /\ RefBlocksExact'
    <2> HIDE DEF hit
    <2>1. CleanBuffersMatchDisk' /\ RefBlocksExact'
      BY <1>1, <1>2 DEF CleanBuffersMatchDisk, RefBlocksExact, TypeOK
    <2>2. Unref' = Unref
      BY <1>2 DEF Unref
    <2>3. DirtyListExact'
      BY <1>2, <2>2 DEF DirtyListExact
    <2> QED
      BY <2>1, <2>3
  <1> QED
    BY <1>3, <1>4

LEMMA DirectWriteKeeps ==
    ASSUME IInv, NEW b \in Block, NEW v \in Value, DirectWrite(b, v)
    PROVE  IInv'
  BY DEF IInv, TypeOK, CleanBuffersMatchDisk, DirtyListExact, Unref, RefBlocksExact,
         DirectWrite, bufVars

-----------------------------------------------------------------------------
(***************************************************************************)
(* Theorems.                                                               *)
(***************************************************************************)

LEMMA InitIInv == Init => IInv
  <1>1. Cardinality({}) = 0
    BY FS_EmptySet
  <1> QED
    BY <1>1 DEF Init, IInv, TypeOK, CleanBuffersMatchDisk, DirtyListExact, Unref,
                RefBlocksExact

LEMMA NextIInv == IInv /\ [Next]_vars => IInv'
  <1> SUFFICES ASSUME IInv, [Next]_vars
               PROVE  IInv'
    OBVIOUS
  <1>1. CASE UNCHANGED vars
    BY <1>1 DEF vars, bufVars, IInv, TypeOK, CleanBuffersMatchDisk, DirtyListExact,
                Unref, RefBlocksExact
  <1>2. ASSUME NEW b \in Block,
               \/ BlockGet(b) \/ BlockGetNoread(b) \/ JbdBlockGet(b)
               \/ JbdBlockGetNoread(b)
        PROVE  IInv'
    BY <1>2, GetKeeps
  <1>3. ASSUME NEW b \in Block, BlockGetNoMemory(b) \/ BlockGetReadFailed(b)
        PROVE  IInv'
    BY <1>3, FailedGetKeeps
  <1>4. CASE BlockGetShakeFailed
    <2>1. PICK D \in SUBSET cached : Evict(D) /\ faults' = "write"
      BY <1>4 DEF BlockGetShakeFailed, Unref
    <2> QED
      BY <2>1, EvictKeeps
  <1>5. ASSUME NEW b \in Block, BlockSet(b) \/ FlushLba(b)
        PROVE  IInv'
    BY <1>5, SetKeeps, FlushLbaKeeps
  <1>6. ASSUME NEW b \in Block, NEW v \in Value, Modify(b, v) \/ DirectWrite(b, v)
        PROVE  IInv'
    BY <1>6, ModifyKeeps, DirectWriteKeeps
  <1>7. ASSUME NEW b \in Block, NEW cnt \in 1 .. (NBlocks - b) + 1, Invalidate(b, cnt)
        PROVE  IInv'
    BY <1>7, InvalidateKeeps
  <1>8. CASE CacheFlush \/ CacheWriteBackOn \/ CacheWriteBackOff
    BY <1>8, WriteBackKeeps
  <1>9. CASE BcacheCleanup \/ Crash
    BY <1>9, DetachKeeps
  <1> QED
    BY <1>1, <1>2, <1>3, <1>4, <1>5, <1>6, <1>7, <1>8, <1>9 DEF Next

\* The state of the cache keeps its type in every execution.
THEOREM TypeCorrect == Spec => []TypeOK
  <1>1. IInv => TypeOK
    BY DEF IInv
  <1> QED
    BY <1>1, InitIInv, NextIInv, PTL DEF Spec

\* ext4_block_get never serves a stale block: a clean buffer equals its block
\* on the device in every reachable state, for every device and every size.
THEOREM CacheCoherent == Spec => []CleanBuffersMatchDisk
  <1>1. IInv => CleanBuffersMatchDisk
    BY DEF IInv
  <1> QED
    BY <1>1, InitIInv, NextIInv, PTL DEF Spec

\* The dirty list holds idle dirty buffers only, and all of them as long as
\* the device does not fail a write.
THEOREM DirtyListCorrect == Spec => []DirtyListExact
  <1>1. IInv => DirtyListExact
    BY DEF IInv
  <1> QED
    BY <1>1, InitIInv, NextIInv, PTL DEF Spec

\* ref_blocks always is the number of buffers.
THEOREM RefBlocksCorrect == Spec => []RefBlocksExact
  <1>1. IInv => RefBlocksExact
    BY DEF IInv
  <1> QED
    BY <1>1, InitIInv, NextIInv, PTL DEF Spec

\* Outside write-back mode the device is never behind an idle buffer, if it
\* does not fail writes: the promise of write-through caching.
THEOREM WriteThrough == Spec => []WriteThroughDurable
  <1>1. ASSUME IInv PROVE WriteThroughDurable
    <2> SUFFICES ASSUME faults = "none", writeBack = 0,
                        NEW b \in Block, refctr[b] = 0
                 PROVE  disk[b] = Current[b]
      BY DEF WriteThroughDurable
    <2>1. Unref \cap dirty = {}
      BY <1>1 DEF IInv, DirtyListExact
    <2>2. dirty \subseteq cached /\ uptodate \subseteq cached
      BY <1>1 DEF IInv, TypeOK
    <2>3. b \notin dirty
      BY <2>1, <2>2 DEF Unref
    <2>4. b \in uptodate => data[b] = disk[b]
      BY <1>1, <2>3 DEF IInv, CleanBuffersMatchDisk
    <2> QED
      BY <2>4 DEF Current
  <1> QED
    BY <1>1, InitIInv, NextIInv, PTL DEF Spec

-----------------------------------------------------------------------------
(***************************************************************************)
(* Who joins the cache and who leaves it.                                  *)
(***************************************************************************)

\* A call takes a reference after a shake, drops buffers nobody references, gives
\* the last reference to one back, loses all, or leaves the tree as it is.
LEMMA StepKinds ==
    ASSUME IInv, [Next]_vars
    PROVE  \/ cached' = cached
           \/ \E b \in Block, V \in SUBSET Unref, up \in BOOLEAN, fl, tm \in SUBSET Block :
                ShakeDone(V) /\ Reference(b, V, up, fl, tm)
           \/ \E D \in SUBSET Unref : Drop(D)
           \/ \E b \in Block : cached' = cached \ {b} /\ (SetWritten(b) \/ SetWriteFailed(b) \/ SetClean(b))
           \/ Crash /\ cached' = {}
  <1>1. CASE UNCHANGED vars
    BY <1>1 DEF vars, bufVars
  <1>2. ASSUME NEW b \in Block,
               \/ BlockGet(b) \/ BlockGetNoread(b) \/ JbdBlockGet(b)
               \/ JbdBlockGetNoread(b)
        PROVE  \E V \in SUBSET Unref, up \in BOOLEAN, fl, tm \in SUBSET Block :
                  ShakeDone(V) /\ Reference(b, V, up, fl, tm)
    <2>1. {} \in SUBSET Block /\ {b} \in SUBSET Block
      OBVIOUS
    <2> QED
      BY <1>2, <2>1 DEF BlockGet, BlockGetNoread, JbdBlockGet, JbdBlockGetNoread
  <1>3. ASSUME NEW b \in Block, BlockGetNoMemory(b) \/ BlockGetReadFailed(b)
        PROVE  \E D \in SUBSET Unref : Drop(D)
    <2>1. CASE BlockGetNoMemory(b)
      BY <2>1 DEF BlockGetNoMemory, Evict
    <2>2. CASE BlockGetReadFailed(b)
      <3>1. PICK V \in SUBSET Unref : Evict(V \cup ({b} \cap Unref))
        BY <2>2 DEF BlockGetReadFailed
      <3>2. V \cup ({b} \cap Unref) \in SUBSET Unref
        OBVIOUS
      <3> QED
        BY <3>1, <3>2 DEF Evict
    <2> QED
      BY <1>3, <2>1, <2>2
  <1>4. CASE BlockGetShakeFailed
    BY <1>4 DEF BlockGetShakeFailed, Evict
  <1>5. ASSUME NEW b \in Block, BlockSet(b)
        PROVE  \/ cached' = cached
               \/ cached' = cached \ {b} /\ (SetWritten(b) \/ SetWriteFailed(b) \/ SetClean(b))
    <2>1. CASE SetShared(b) \/ SetDelayed(b)
      BY <2>1 DEF SetShared, SetDelayed
    <2>2. CASE SetWritten(b)
      BY <2>2 DEF SetWritten, Drop, KeepIdle
    <2>3. CASE SetWriteFailed(b)
      BY <2>3 DEF SetWriteFailed, Drop, KeepIdle
    <2>4. CASE SetClean(b)
      BY <2>4 DEF SetClean, Drop, KeepIdle
    <2> QED
      BY <1>5, <2>1, <2>2, <2>3, <2>4 DEF BlockSet
  <1>6. ASSUME NEW b \in Block, FlushLba(b)
        PROVE  cached' = cached \/ \E D \in SUBSET Unref : Drop(D)
    <2>1. CASE FlushLbaWritten(b)
      BY <2>1 DEF FlushLbaWritten
    <2>2. ASSUME NEW again \in BOOLEAN, FlushLbaFailed(b, again)
          PROVE  cached' = cached
      BY <2>2 DEF FlushLbaFailed
    <2>3. CASE FlushLbaClean(b)
      <3>1. {b} \in SUBSET Unref
        BY <2>3 DEF FlushLbaClean
      <3> QED
        BY <2>3, <3>1 DEF FlushLbaClean
    <2> QED
      BY <1>6, <2>1, <2>2, <2>3 DEF FlushLba
  <1>7. ASSUME NEW b \in Block, NEW v \in Value, Modify(b, v) \/ DirectWrite(b, v)
        PROVE  cached' = cached
    BY <1>7 DEF Modify, DirectWrite, bufVars
  <1>8. ASSUME NEW b \in Block, NEW cnt \in 1 .. (NBlocks - b) + 1, Invalidate(b, cnt)
        PROVE  cached' = cached
    BY <1>8 DEF Invalidate
  <1>9. CASE CacheFlush \/ CacheWriteBackOn \/ CacheWriteBackOff
    BY <1>9 DEF CacheFlush, CacheWriteBackOn, CacheWriteBackOff, FlushDone, FlushFailed,
                FlushListed, bufVars
  <1>10. CASE BcacheCleanup
    <2>1. cached \in SUBSET Unref /\ Drop(cached)
      BY <1>10 DEF BcacheCleanup, Unref, IInv, TypeOK
    <2> QED
      BY <2>1
  <1>11. CASE Crash
    BY <1>11 DEF Crash, Drop
  <1> QED
    BY <1>1, <1>2, <1>3, <1>4, <1>5, <1>6, <1>7, <1>8, <1>9, <1>10, <1>11 DEF Next

\* No call takes away a buffer that somebody else references: only the release of
\* its last reference and the power cut do, for every interleaving of any number of
\* holders with shakes, failed reads and flushes.
THEOREM PinnedBuffersAreKept == Spec => PinnedBuffersStay
  <1>1. ASSUME IInv, [Next]_vars
        PROVE  \A b \in cached \ cached' : refctr[b] = 0 \/ SetWritten(b) \/ SetWriteFailed(b)
                                             \/ SetClean(b) \/ Crash
    <2> SUFFICES ASSUME NEW b \in cached, b \notin cached'
                 PROVE  refctr[b] = 0 \/ SetWritten(b) \/ SetWriteFailed(b) \/ SetClean(b) \/ Crash
      OBVIOUS
    <2>1. ASSUME NEW c \in Block, NEW V \in SUBSET Unref, NEW up, NEW fl, NEW tm,
                 Reference(c, V, up, fl, tm)
          PROVE  refctr[b] = 0
      <3>1. cached' = (cached \ V) \cup {c}
        BY <2>1 DEF Reference
      <3> QED
        BY <3>1 DEF Unref
    <2>2. ASSUME NEW D \in SUBSET Unref, Drop(D)
          PROVE  refctr[b] = 0
      BY <2>2 DEF Drop, Unref
    <2> QED
      BY <1>1, <2>1, <2>2, StepKinds
  <1>2. IInv /\ [Next]_vars => [\A b \in cached \ cached' :
                                  refctr[b] = 0 \/ SetWritten(b) \/ SetWriteFailed(b)
                                    \/ SetClean(b) \/ Crash]_vars
    BY <1>1
  <1> QED
    BY <1>2, InitIInv, NextIInv, PTL DEF Spec, PinnedBuffersStay

\* The cache has more buffers than its size only while every one of them is
\* referenced: the shake of ext4_block_get makes room whenever it can.
THEOREM GrowsWhenPinned == Spec => GrowsOnlyWhenPinned
  <1>1. ASSUME IInv, [Next]_vars
        PROVE  \A b \in cached' \ cached :
                  refBlocks' > CacheSize => \A x \in cached' : refctr'[x] > 0
    <2> SUFFICES ASSUME NEW b \in cached', b \notin cached, refBlocks' > CacheSize,
                        NEW x \in cached'
                 PROVE  refctr'[x] > 0
      OBVIOUS
    <2>1. PICK c \in Block, V \in SUBSET Unref, up \in BOOLEAN, fl \in SUBSET Block,
               tm \in SUBSET Block : ShakeDone(V) /\ Reference(c, V, up, fl, tm)
      <3>1. ASSUME NEW D \in SUBSET Unref, Drop(D)
            PROVE  cached' \subseteq cached
        BY <3>1 DEF Drop
      <3> QED
        BY <1>1, <3>1, StepKinds
    <2>2. /\ cached' = (cached \ V) \cup {c}
          /\ refctr' = [refctr EXCEPT ![c] = @ + 1]
          /\ refBlocks' = (refBlocks - Cardinality(V)) + (IF c \in cached \ V THEN 0 ELSE 1)
      BY <2>1 DEF Reference
    <2>3. /\ refctr \in [Block -> 0 .. MaxRef] /\ cached \subseteq Block /\ refBlocks \in Nat
          /\ CacheSize \in Nat
      BY <1>1 DEF IInv, TypeOK
    <2>4. V \in SUBSET Block
      BY <2>3 DEF Unref
    <2>5. Cardinality(V) \in Nat
      BY <2>4, BlocksFinite
    <2>6. FullWithout(V)
      BY <2>2, <2>3, <2>5 DEF FullWithout
    <2>7. V = Unref
      BY <2>1, <2>6 DEF ShakeDone
    <2>8. CASE x = c
      BY <2>2, <2>3, <2>8
    <2>9. CASE x # c
      <3>1. x \in cached /\ x \notin Unref /\ refctr'[x] = refctr[x]
        BY <2>2, <2>3, <2>7, <2>9
      <3> QED
        BY <2>3, <3>1 DEF Unref
    <2> QED
      BY <2>8, <2>9
  <1>2. IInv /\ [Next]_vars => [\A b \in cached' \ cached :
                                  refBlocks' > CacheSize => \A x \in cached' : refctr'[x] > 0]_vars
    BY <1>1
  <1> QED
    BY <1>2, InitIInv, NextIInv, PTL DEF Spec, GrowsOnlyWhenPinned

-----------------------------------------------------------------------------
(***************************************************************************)
(* BlockCache implements BlockStore. The mapping takes a block's content   *)
(* from its buffer when the buffer is up to date, else from the device. A  *)
(* step of the cache is a write, a discard or a halt of the store when its *)
(* caller asked for one; any other step commits the buffers it wrote, and  *)
(* must leave Current alone.                                               *)
(***************************************************************************)

LEMMA CurrentType ==
    ASSUME TypeOK
    PROVE  /\ Current \in [Block -> Value]
           /\ \A b \in Block : Current[b] = IF b \in uptodate THEN data[b] ELSE disk[b]
  BY DEF TypeOK, Current

\* Writing ready buffers commits them.
LEMMA WritingCommits ==
    ASSUME IInv, NEW S \in SUBSET Ready
    PROVE  Store!Taking(disk, S, Current) = Written(S)
  BY DEF IInv, TypeOK, Ready, Current, Written, Store!Taking

\* A step that writes ready buffers and leaves Current alone is a commit.
LEMMA CommitStep ==
    ASSUME IInv, NEW S \in SUBSET Ready, disk' = Written(S),
           Current' = Current, freed' = freed
    PROVE  Store!Next
  <1>1. S \in SUBSET Block
    BY DEF IInv, TypeOK, Ready
  <1>2. Store!Commit(S)
    BY WritingCommits DEF Store!Commit, Held
  <1> QED
    BY <1>1, <1>2 DEF Store!Next

\* Dropping buffers whose ready ones were written leaves Current alone.
LEMMA DropKeepsCurrent ==
    ASSUME IInv, NEW D \in SUBSET cached, Drop(D), disk' = Written(D \cap Ready)
    PROVE  Current' = Current
  <1>1. ASSUME NEW b \in Block
        PROVE  (IF b \in uptodate' THEN data'[b] ELSE disk'[b])
               = (IF b \in uptodate THEN data[b] ELSE disk[b])
    <2>1. disk'[b] = IF b \in D \cap Ready THEN data[b] ELSE disk[b]
      BY DEF Written
    <2>2. data'[b] = IF b \in D THEN Junk ELSE data[b]
      BY DEF Drop
    <2>3. uptodate' = uptodate \ D
      BY DEF Drop
    <2> QED
      BY <2>1, <2>2, <2>3 DEF IInv, CleanBuffersMatchDisk, Ready
  <1> QED
    BY <1>1 DEF Current

LEMMA EvictImplements ==
    ASSUME IInv, NEW D \in SUBSET cached, Evict(D)
    PROVE  Store!Next
  <1>1. D \cap Ready \in SUBSET Ready
    OBVIOUS
  <1> QED
    BY <1>1, DropKeepsCurrent, CommitStep DEF Evict

LEMMA ReferenceImplements ==
    ASSUME IInv, NEW b \in Block, NEW V \in SUBSET Unref, NEW up \in BOOLEAN,
           NEW fl, NEW tm, Reference(b, V, up, fl, tm)
    PROVE  Store!Next
  <1>1. disk' = Written(V \cap Ready) /\ freed' = freed
    BY DEF Reference
  <1>2. ASSUME NEW x \in Block
        PROVE  (IF x \in uptodate' THEN data'[x] ELSE disk'[x])
               = (IF x \in uptodate THEN data[x] ELSE disk[x])
    <2>1. disk'[x] = IF x \in V \cap Ready THEN data[x] ELSE disk[x]
      BY <1>1 DEF Written
    <2>2. data'[x] = IF x = b /\ up /\ b \notin uptodate \ V THEN disk'[x]
                     ELSE IF x \in V THEN Junk ELSE data[x]
      BY <1>1 DEF Reference
    <2>3. uptodate' = (uptodate \ V) \cup (IF up THEN {b} ELSE {})
      BY DEF Reference
    <2> QED
      BY <2>1, <2>2, <2>3 DEF IInv, CleanBuffersMatchDisk, Ready
  <1>3. Current' = Current
    BY <1>2 DEF Current
  <1> QED
    BY <1>1, <1>3, CommitStep

LEMMA GetImplements ==
    ASSUME IInv, NEW b \in Block,
           \/ BlockGet(b) \/ BlockGetNoread(b) \/ JbdBlockGet(b) \/ JbdBlockGetNoread(b)
    PROVE  Store!Next
  BY ReferenceImplements DEF BlockGet, BlockGetNoread, JbdBlockGet, JbdBlockGetNoread

\* A step that changes neither content nor history is a commit of nothing.
LEMMA SilentStep ==
    ASSUME IInv, UNCHANGED <<uptodate, data, disk, freed>>
    PROVE  Store!Next
  <1>1. {} \in SUBSET Ready /\ disk' = Written({})
    BY DEF IInv, TypeOK, Written
  <1>2. Current' = Current
    BY DEF Current
  <1> QED
    BY <1>1, <1>2, CommitStep

\* Writing buffers that stay, and changing no content, is a commit.
LEMMA WrittenStep ==
    ASSUME IInv, NEW S \in SUBSET Ready, disk' = Written(S),
           UNCHANGED <<uptodate, data, freed>>
    PROVE  Store!Next
  <1>1. ASSUME NEW x \in Block
        PROVE  (IF x \in uptodate' THEN data'[x] ELSE disk'[x])
               = (IF x \in uptodate THEN data[x] ELSE disk[x])
    BY DEF Written, Ready
  <1>2. Current' = Current
    BY <1>1 DEF Current
  <1> QED
    BY <1>2, CommitStep

\* Dropping one buffer that is not ready changes no content.
LEMMA DropCleanStep ==
    ASSUME IInv, NEW b \in cached, b \notin Ready, Drop({b}), disk' = disk, freed' = freed
    PROVE  Store!Next
  <1>1. {b} \cap Ready = {}
    OBVIOUS
  <1>2. {} \in SUBSET Ready /\ disk' = Written({b} \cap Ready) /\ disk' = Written({})
    BY <1>1 DEF IInv, TypeOK, Written
  <1>3. Current' = Current
    BY <1>2, DropKeepsCurrent
  <1> QED
    BY <1>2, <1>3, CommitStep

LEMMA SetImplements ==
    ASSUME IInv, NEW b \in Block, BlockSet(b)
    PROVE  Store!Next
  <1>1. CASE SetShared(b) \/ SetDelayed(b)
    BY <1>1, SilentStep DEF SetShared, SetDelayed
  <1>2. CASE SetWritten(b)
    <2>1. {b} \in SUBSET Ready /\ {b} \in SUBSET cached /\ b \in cached
          /\ {b} \cap Ready = {b}
      BY <1>2 DEF SetWritten, Ready, IInv, TypeOK
    <2>2. disk' = Written({b}) /\ freed' = freed
      BY <1>2 DEF SetWritten
    <2>3. CASE b \in tmp
      <3>1. Drop({b}) /\ disk' = Written({b} \cap Ready)
        BY <1>2, <2>1, <2>2, <2>3 DEF SetWritten
      <3> QED
        BY <2>1, <2>2, <3>1, DropKeepsCurrent, CommitStep
    <2>4. CASE b \notin tmp
      BY <1>2, <2>1, <2>2, <2>4, WrittenStep DEF SetWritten, KeepIdle
    <2> QED
      BY <2>3, <2>4
  <1>3. CASE SetWriteFailed(b)
    <2>1. disk' = disk /\ freed' = freed
      BY <1>3 DEF SetWriteFailed
    <2>2. CASE b \in tmp
      <3>1. Drop({b}) /\ {b} \in SUBSET JournalBlock
        BY <1>3, <2>2 DEF SetWriteFailed, IInv, TypeOK
      <3>2. ASSUME NEW x \in Block
            PROVE  (IF x \in uptodate' THEN data'[x] ELSE disk'[x])
                   = (IF x \in {b} THEN disk[x] ELSE Current[x])
        <4>1. data'[x] = IF x \in {b} THEN Junk ELSE data[x]
          BY <3>1 DEF Drop
        <4>2. uptodate' = uptodate \ {b}
          BY <3>1 DEF Drop
        <4> QED
          BY <2>1, <4>1, <4>2 DEF Current
      <3>3. Current' = Store!Taking(Current, {b}, disk)
        BY <3>2 DEF Current, Store!Taking
      <3>4. Store!Forget({b})
        BY <2>1, <3>3 DEF Store!Forget, Held
      <3> QED
        BY <3>1, <3>4 DEF Store!Next
    <2>3. CASE b \notin tmp
      BY <1>3, <2>1, <2>3, SilentStep DEF SetWriteFailed, KeepIdle
    <2> QED
      BY <2>2, <2>3
  <1>4. CASE SetClean(b)
    <2>1. b \in cached /\ b \notin Ready /\ disk' = disk /\ freed' = freed
      BY <1>4 DEF SetClean, IInv, TypeOK
    <2>2. CASE b \notin uptodate \/ b \in tmp
      BY <1>4, <2>1, <2>2, DropCleanStep DEF SetClean
    <2>3. CASE ~(b \notin uptodate \/ b \in tmp)
      BY <1>4, <2>1, <2>3, SilentStep DEF SetClean, KeepIdle
    <2> QED
      BY <2>2, <2>3
  <1> QED
    BY <1>1, <1>2, <1>3, <1>4 DEF BlockSet

LEMMA FlushLbaImplements ==
    ASSUME IInv, NEW b \in Block, FlushLba(b)
    PROVE  Store!Next
  <1>1. CASE FlushLbaWritten(b)
    BY <1>1, WrittenStep DEF FlushLbaWritten
  <1>2. ASSUME NEW again \in BOOLEAN, FlushLbaFailed(b, again)
        PROVE  Store!Next
    <2>1. {b} \in SUBSET Ready
      BY <1>2 DEF FlushLbaFailed
    <2>2. UNCHANGED <<uptodate, data, freed>>
      BY <1>2 DEF FlushLbaFailed
    <2>3. disk' = disk \/ disk' = Written({b})
      BY <1>2 DEF FlushLbaFailed
    <2> QED
      BY <2>1, <2>2, <2>3, SilentStep, WrittenStep
  <1>3. CASE FlushLbaClean(b)
    <2>1. b \in cached /\ b \notin Ready /\ disk' = disk /\ freed' = freed
      BY <1>3 DEF FlushLbaClean, Unref
    <2>2. CASE b \in uptodate
      BY <1>3, <2>1, <2>2, SilentStep DEF FlushLbaClean
    <2>3. CASE b \notin uptodate
      BY <1>3, <2>1, <2>3, DropCleanStep DEF FlushLbaClean
    <2> QED
      BY <2>2, <2>3
  <1> QED
    BY <1>1, <1>2, <1>3 DEF FlushLba

LEMMA ModifyImplements ==
    ASSUME IInv, NEW b \in Block, NEW v \in Value, Modify(b, v)
    PROVE  Store!Next
  <1>1. ASSUME NEW x \in Block
        PROVE  (IF x \in uptodate' THEN data'[x] ELSE disk'[x])
               = (IF x = b THEN v ELSE Current[x])
    BY DEF Modify, Current, IInv, TypeOK
  <1>2. Current' = [Current EXCEPT ![b] = v]
    BY <1>1, CurrentType DEF Current
  <1>3. b \in Held /\ Held' = Held
    BY DEF Modify, Held
  <1>4. Store!Write(b, v)
    BY <1>2, <1>3 DEF Modify, Store!Write
  <1> QED
    BY <1>4 DEF Store!Next

LEMMA DirectWriteImplements ==
    ASSUME IInv, NEW b \in Block, NEW v \in Value, DirectWrite(b, v)
    PROVE  Store!Next
  <1>1. ASSUME NEW x \in Block
        PROVE  (IF x \in uptodate' THEN data'[x] ELSE disk'[x])
               = (IF x = b THEN v ELSE Current[x])
    BY DEF DirectWrite, Current, IInv, TypeOK, bufVars
  <1>2. Current' = [Current EXCEPT ![b] = v]
    BY <1>1, CurrentType DEF Current
  <1>3. Current[b] = disk[b]
    BY DEF DirectWrite, Current
  <1>4. Held' = Held
    BY DEF DirectWrite, bufVars, Held
  <1>5. Store!WriteThrough(b, v)
    BY <1>2, <1>3, <1>4 DEF DirectWrite, Store!WriteThrough
  <1> QED
    BY <1>5 DEF Store!Next

LEMMA FlushListedImplements ==
    ASSUME IInv, NEW S \in SUBSET dirtyList, FlushListed(S)
    PROVE  Store!Next
  <1>1. S \in SUBSET Ready
    BY DEF IInv, DirtyListExact, CleanBuffersMatchDisk, Ready
  <1> QED
    BY <1>1, WrittenStep DEF FlushListed

LEMMA FlushImplements ==
    ASSUME IInv, FlushDone \/ FlushFailed
    PROVE  Store!Next
  BY FlushListedImplements DEF FlushDone, FlushFailed

LEMMA WriteBackImplements ==
    ASSUME IInv, CacheFlush \/ CacheWriteBackOn \/ CacheWriteBackOff
    PROVE  Store!Next
  <1>1. CASE CacheFlush
    BY <1>1, FlushImplements DEF CacheFlush
  <1>2. CASE CacheWriteBackOn
    BY <1>2, SilentStep DEF CacheWriteBackOn, bufVars
  <1>3. CASE CacheWriteBackOff
    BY <1>3, FlushImplements, SilentStep DEF CacheWriteBackOff, bufVars
  <1> QED
    BY <1>1, <1>2, <1>3

\* Dropping every buffer after writing those of S halts the store.
LEMMA HaltStep ==
    ASSUME IInv, NEW S \in SUBSET Ready, Drop(cached), disk' = Written(S), freed' = freed
    PROVE  Store!Next
  <1>1. disk' = Store!Taking(disk, S, Current)
    BY WritingCommits
  <1>2. uptodate' = {}
    BY DEF Drop, IInv, TypeOK
  <1>3. disk' \in [Block -> Value]
    BY WrittenType DEF IInv
  <1>4. Current' = disk'
    BY <1>2, <1>3 DEF Current
  <1>5. S \in SUBSET Block
    BY DEF IInv, TypeOK, Ready
  <1>6. Held' = {}
    <2>1. ASSUME NEW x \in Block
          PROVE  refctr'[x] = 0
      BY DEF Drop, IInv, TypeOK
    <2> QED
      BY <2>1 DEF Held
  <1>7. Store!Halt(S)
    BY <1>1, <1>4, <1>6 DEF Store!Halt
  <1> QED
    BY <1>5, <1>7 DEF Store!Next

LEMMA DetachImplements ==
    ASSUME IInv, BcacheCleanup \/ Crash
    PROVE  Store!Next
  <1>1. CASE BcacheCleanup
    BY <1>1, HaltStep DEF BcacheCleanup
  <1>2. CASE Crash
    <2>1. disk' = Written({}) /\ {} \in SUBSET Ready
      BY <1>2 DEF Crash, Written, IInv, TypeOK
    <2> QED
      BY <1>2, <2>1, HaltStep DEF Crash
  <1> QED
    BY <1>1, <1>2

LEMMA InvalidateImplements ==
    ASSUME IInv, NEW b \in Block, NEW cnt \in 1 .. (NBlocks - b) + 1, Invalidate(b, cnt)
    PROVE  Store!Next
  <1> DEFINE hit == Reached(b, cnt)
             range == b .. b + cnt - 1
  <1>1. range \in SUBSET Block
    BY DEF Block
  <1>2. hit \in SUBSET range
    <2>1. ASSUME NEW x \in hit
          PROVE  x \in Int /\ b <= x /\ x <= b + cnt - 1
      <3>1. x \in cached /\ b <= x /\ x <= b + cnt - 1
        BY DEF Reached
      <3> QED
        BY <3>1 DEF IInv, TypeOK, Block
    <2> QED
      BY <2>1 DEF Block
  <1>3. /\ uptodate' = uptodate \ hit
        /\ data' = [x \in Block |-> IF x \in hit THEN Junk ELSE data[x]]
        /\ disk' = disk /\ freed' = freed \cup range
    BY DEF Invalidate
  <1> HIDE DEF hit, range
  <1>4. ASSUME NEW x \in Block
        PROVE  (IF x \in uptodate' THEN data'[x] ELSE disk'[x])
               = (IF x \in hit THEN disk[x] ELSE Current[x])
    BY <1>3 DEF Current
  <1>5. Current' = Store!Taking(Current, hit, disk)
    BY <1>4 DEF Current, Store!Taking
  <1>6. Held' = Held
    BY DEF Invalidate, Held
  <1>7. Store!Discard(range, hit)
    BY <1>3, <1>5, <1>6 DEF Store!Discard
  <1> QED
    BY <1>1, <1>2, <1>7 DEF Store!Next

LEMMA NextImplements == IInv /\ [Next]_vars => [Store!Next]_(Store!storeVars)
  <1> SUFFICES ASSUME IInv, [Next]_vars
               PROVE  [Store!Next]_(Store!storeVars)
    OBVIOUS
  <1>1. CASE UNCHANGED vars
    BY <1>1 DEF vars, bufVars, Current, Held, Store!storeVars
  <1>2. ASSUME NEW b \in Block,
               \/ BlockGet(b) \/ BlockGetNoread(b) \/ JbdBlockGet(b)
               \/ JbdBlockGetNoread(b)
        PROVE  Store!Next
    BY <1>2, GetImplements
  <1>3. CASE \/ BlockGetShakeFailed
             \/ \E b \in Block : BlockGetNoMemory(b) \/ BlockGetReadFailed(b)
    <2>1. PICK D \in SUBSET cached : Evict(D)
      BY <1>3 DEF BlockGetShakeFailed, BlockGetNoMemory, BlockGetReadFailed, Unref
    <2> QED
      BY <2>1, EvictImplements
  <1>4. ASSUME NEW b \in Block, BlockSet(b) \/ FlushLba(b)
        PROVE  Store!Next
    BY <1>4, SetImplements, FlushLbaImplements
  <1>5. ASSUME NEW b \in Block, NEW v \in Value, Modify(b, v) \/ DirectWrite(b, v)
        PROVE  Store!Next
    BY <1>5, ModifyImplements, DirectWriteImplements
  <1>6. ASSUME NEW b \in Block, NEW cnt \in 1 .. (NBlocks - b) + 1, Invalidate(b, cnt)
        PROVE  Store!Next
    BY <1>6, InvalidateImplements
  <1>7. CASE CacheFlush \/ CacheWriteBackOn \/ CacheWriteBackOff
    BY <1>7, WriteBackImplements
  <1>8. CASE BcacheCleanup \/ Crash
    BY <1>8, DetachImplements
  <1> QED
    BY <1>1, <1>2, <1>3, <1>4, <1>5, <1>6, <1>7, <1>8 DEF Next

\* The cache implements the block store it is to be: no eviction, release,
\* flush or failure changes the content of a block behind its owner's back.
THEOREM CacheImplementsStore == Spec => ImplementsStore
  <1>1. Init => Store!Init
    BY DEF Init, Store!Init, Current, Held
  <1> QED
    BY <1>1, InitIInv, NextIInv, NextImplements, PTL DEF Spec, ImplementsStore, Store!Spec
=============================================================================

----------------------------- MODULE BlockCache -----------------------------
(***************************************************************************)
(* The buffer cache of TeensyEXT4: ext4_bcache.c, and the part of          *)
(* ext4_blockdev.c that drives it. The library runs in one thread, so an   *)
(* action is one call; what is hard is the order in which its callers nest *)
(* references, switch write-back mode, free blocks and lose power, and the *)
(* device reads and writes that fail in the middle of a call.              *)
(*                                                                         *)
(* lba_root is the set cached, lru_root its unreferenced part Unref. Flags *)
(* are the sets of buffers that carry them. Two orders are kept instead of *)
(* counters: older[b] is the set of buffers whose lru_id is below b's (the *)
(* uint32 lru_ctr is taken not to wrap), below[b] is what stands behind b  *)
(* on dirty_list. Content that no flag vouches for is Junk.                *)
(*                                                                         *)
(* A power cut between two writes of one call leaves the same image as an  *)
(* error at the second write followed by Crash, so Crash is one action.    *)
(* end_write callbacks and dont_shake belong to the journal, which this    *)
(* configuration compiles out.                                             *)
(***************************************************************************)
EXTENDS Naturals, FiniteSets

CONSTANTS
    NBlocks,        \* lg_bcnt
    CacheSize,      \* CONFIG_BLOCK_DEV_CACHE_SIZE
    Value, Junk,    \* block contents, and content nobody may rely on
    JournalBlock,   \* blocks of the journal inode, reached through jbd_block_get
    MaxRef,         \* bound: references held to one buffer at a time
    MaxWriteBack    \* bound: nesting of ext4_cache_write_back

Block == 1 .. NBlocks

ASSUME SizeAssumption ==
    /\ NBlocks \in Nat /\ CacheSize \in Nat \ {0}
    /\ MaxRef \in Nat /\ MaxWriteBack \in Nat
ASSUME ValueAssumption == Junk \notin Value
ASSUME JournalAssumption == JournalBlock \subseteq Block

VARIABLES
    cached,     \* lba_root: the blocks that have a buffer
    refctr,     \* references to each buffer
    uptodate,   \* BC_UPTODATE
    dirty,      \* BC_DIRTY
    flush,      \* BC_FLUSH
    tmp,        \* BC_TMP
    data,       \* content of each buffer
    older,      \* order of lru_id
    dirtyList,  \* dirty_list, the buffers whose on_dirty_list is set
    below,      \* order of dirty_list, its head above all others
    refBlocks,  \* ref_blocks
    writeBack,  \* cache_write_back
    disk,       \* content of the device
    freed,      \* history: blocks given up by their owner
    faults      \* history: whether a write failed since the cache was set up

bufVars == <<cached, refctr, uptodate, dirty, flush, tmp, data, older,
             dirtyList, below, refBlocks>>
vars == <<bufVars, writeBack, disk, freed, faults>>

TypeOK ==
    /\ cached \in SUBSET Block
    /\ refctr \in [Block -> 0 .. MaxRef]
    /\ \A b \in Block \ cached : refctr[b] = 0
    /\ uptodate \in SUBSET cached
    /\ dirty \in SUBSET cached
    /\ flush \in SUBSET cached
    /\ tmp \in SUBSET (cached \cap JournalBlock)
    /\ data \in [Block -> Value \cup {Junk}]
    /\ \A b \in uptodate : data[b] \in Value
    /\ older \in [Block -> SUBSET Block]
    /\ dirtyList \in SUBSET cached
    /\ below \in [Block -> SUBSET Block]
    /\ refBlocks \in Nat
    /\ writeBack \in 0 .. MaxWriteBack
    /\ disk \in [Block -> Value]
    /\ freed \in SUBSET Block
    /\ faults \in {"none", "write"}

Init ==
    /\ cached = {} /\ uptodate = {} /\ dirty = {} /\ flush = {} /\ tmp = {}
    /\ refctr = [b \in Block |-> 0]
    /\ data = [b \in Block |-> Junk]
    /\ older = [b \in Block |-> {}]
    /\ dirtyList = {}
    /\ below = [b \in Block |-> {}]
    /\ refBlocks = 0
    /\ writeBack = 0
    /\ disk \in [Block -> Value]
    /\ freed = {}
    /\ faults = "none"

-----------------------------------------------------------------------------
(***************************************************************************)
(* Buffers, orders and the device.                                         *)
(***************************************************************************)

\* lru_root: buffers nobody references.
Unref == {b \in cached : refctr[b] = 0}

\* Buffers ext4_block_flush_buf writes: dirty, with content to write.
Ready == dirty \cap uptodate

\* The order ord without the blocks of S.
Without(ord, S) == [b \in Block |-> IF b \in S THEN {} ELSE ord[b] \ S]

\* The order ord with b moved to the top of S.
OnTop(ord, S, b) == [x \in Block |-> IF x = b THEN S \ {b} ELSE ord[x] \ {b}]

\* The device after the buffers of S were written to it.
Written(S) == [b \in Block |-> IF b \in S THEN data[b] ELSE disk[b]]

\* Mutant: a dropped buffer stays on the dirty list.
DropLeavesDirtyList(D) ==
    /\ cached' = cached \ D
    /\ refctr' = [b \in Block |-> IF b \in D THEN 0 ELSE refctr[b]]
    /\ uptodate' = uptodate \ D
    /\ dirty' = dirty \ D
    /\ flush' = flush \ D
    /\ tmp' = tmp \ D
    /\ data' = [b \in Block |-> IF b \in D THEN Junk ELSE data[b]]
    /\ older' = Without(older, D)
    /\ UNCHANGED <<dirtyList, below>>
    /\ refBlocks' = refBlocks - Cardinality(D)

\* ext4_bcache_drop_buf of every buffer in D.
Drop(D) ==
    /\ cached' = cached \ D
    /\ refctr' = [b \in Block |-> IF b \in D THEN 0 ELSE refctr[b]]
    /\ uptodate' = uptodate \ D
    /\ dirty' = dirty \ D
    /\ flush' = flush \ D
    /\ tmp' = tmp \ D
    /\ data' = [b \in Block |-> IF b \in D THEN Junk ELSE data[b]]
    /\ older' = Without(older, D)
    /\ dirtyList' = dirtyList \ D
    /\ below' = Without(below, D)
    /\ refBlocks' = refBlocks - Cardinality(D)

-----------------------------------------------------------------------------
(***************************************************************************)
(* ext4_block_cache_shake: while the cache is full, drop the least         *)
(* recently used unreferenced buffer, writing it first if it is dirty.     *)
(***************************************************************************)

\* V is a run of victims in the order of lru_id.
LruFirst(V) == \A v \in V : older[v] \cap Unref \subseteq V

\* Mutant: the cache counts as full only above its size.
FullWithoutLate(V) == CacheSize + Cardinality(V) < refBlocks

FullWithout(V) == CacheSize + Cardinality(V) <= refBlocks

\* The shake drops V and ends: the cache has room or nothing is left to drop.
ShakeDone(V) ==
    /\ LruFirst(V)
    /\ V = Unref \/ ~FullWithout(V)
    /\ \A x \in V : (\A v \in V : v # x => x \notin older[v]) => FullWithout(V \ {x})

\* The shake drops V, then fails to write the next victim and gives up.
ShakeFailed(V) ==
    /\ LruFirst(V)
    /\ FullWithout(V)
    /\ \E x \in (Unref \cap Ready) \ V : older[x] \cap Unref \subseteq V

\* Mutant: a dirty victim is dropped without being written.
EvictUnwritten(V) == Drop(V) /\ UNCHANGED <<disk, writeBack, freed>>

Evict(V) ==
    /\ Drop(V)
    /\ disk' = Written(V \cap Ready)
    /\ UNCHANGED <<writeBack, freed>>

-----------------------------------------------------------------------------
(***************************************************************************)
(* ext4_block_get and ext4_block_get_noread. After the shake the buffer is *)
(* found (ext4_bcache_find_get) or allocated (ext4_bcache_alloc); a found  *)
(* one that nobody referenced leaves the LRU tree and the dirty list. The  *)
(* journal's own block functions set BC_FLUSH and BC_TMP on top.           *)
(***************************************************************************)

\* Block b is referenced after the shake dropped V; up says whether its
\* content is read when it is not there yet, fl and tm which flags are set.
Reference(b, V, up, fl, tm) ==
    LET kept == cached \ V
        idle == refctr[b] = 0
        fill == up /\ b \notin uptodate \ V
        onDisk == Written(V \cap Ready)
    IN  /\ refctr[b] < MaxRef
        /\ cached' = kept \cup {b}
        /\ refBlocks' = (refBlocks - Cardinality(V)) + (IF b \in kept THEN 0 ELSE 1)
        /\ refctr' = [refctr EXCEPT ![b] = @ + 1]
        /\ uptodate' = (uptodate \ V) \cup (IF up THEN {b} ELSE {})
        /\ dirty' = dirty \ V
        /\ flush' = (flush \ V) \cup fl
        /\ tmp' = (tmp \ V) \cup tm
        /\ data' = [x \in Block |-> IF x = b /\ fill THEN onDisk[b]
                                    ELSE IF x \in V THEN Junk ELSE data[x]]
        /\ older' = IF idle THEN OnTop(Without(older, V), kept, b)
                            ELSE Without(older, V)
        /\ dirtyList' = IF idle THEN dirtyList \ (V \cup {b}) ELSE dirtyList \ V
        /\ below' = IF idle THEN Without(below, V \cup {b}) ELSE Without(below, V)
        /\ disk' = onDisk
        /\ UNCHANGED <<writeBack, freed, faults>>

BlockGet(b) ==
    \E V \in SUBSET Unref : ShakeDone(V) /\ Reference(b, V, TRUE, {}, {})

BlockGetNoread(b) ==
    \E V \in SUBSET Unref : ShakeDone(V) /\ Reference(b, V, FALSE, {}, {})

JbdBlockGet(b) ==
    /\ b \in JournalBlock
    /\ \E V \in SUBSET Unref : ShakeDone(V) /\ Reference(b, V, TRUE, {b}, {b})

JbdBlockGetNoread(b) ==
    /\ b \in JournalBlock
    /\ \E V \in SUBSET Unref : ShakeDone(V) /\ Reference(b, V, FALSE, {b}, {})

\* The shake could not write a victim: nothing is referenced.
BlockGetShakeFailed ==
    \E V \in SUBSET Unref : ShakeFailed(V) /\ Evict(V) /\ faults' = "write"

\* ext4_buf_alloc found no memory, after the shake made room.
BlockGetNoMemory(b) ==
    \E V \in SUBSET Unref :
        ShakeDone(V) /\ b \notin cached \ V /\ Evict(V) /\ UNCHANGED faults

\* Mutant: the buffer is dropped whoever else holds it.
BlockGetReadFailedDrops(b) ==
    \E V \in SUBSET Unref :
        /\ ShakeDone(V)
        /\ b \notin uptodate \ V
        /\ Evict(V \cup ({b} \cap cached))
        /\ UNCHANGED faults

\* The device could not read block b. Its buffer is freed again, and dropped
\* unless somebody else holds it.
BlockGetReadFailed(b) ==
    \E V \in SUBSET Unref :
        /\ ShakeDone(V)
        /\ b \notin uptodate \ V
        /\ Evict(V \cup ({b} \cap Unref))
        /\ UNCHANGED faults

-----------------------------------------------------------------------------
(***************************************************************************)
(* Holders of a reference: they change the content, and give it back       *)
(* (ext4_block_set, that is ext4_bcache_free).                             *)
(***************************************************************************)

\* The content is changed and ext4_bcache_set_dirty called. The journal does
\* not change the buffers it reads with jbd_block_get.
Modify(b, v) ==
    /\ refctr[b] > 0
    /\ b \notin tmp
    /\ data' = [data EXCEPT ![b] = v]
    /\ uptodate' = uptodate \cup {b}
    /\ dirty' = dirty \cup {b}
    /\ freed' = freed \ {b}
    /\ UNCHANGED <<cached, refctr, flush, tmp, older, dirtyList, below, refBlocks,
                   writeBack, disk, faults>>

\* Not the last reference.
SetShared(b) ==
    /\ refctr[b] > 1
    /\ refctr' = [refctr EXCEPT ![b] = @ - 1]
    /\ UNCHANGED <<cached, uptodate, dirty, flush, tmp, data, older, dirtyList,
                   below, refBlocks, writeBack, disk, freed, faults>>

\* A buffer that goes to the dirty list instead of the device.
Delayed(b) == writeBack > 0 /\ b \notin flush \cup tmp

SetDelayed(b) ==
    /\ refctr[b] = 1 /\ b \in Ready /\ Delayed(b)
    /\ refctr' = [refctr EXCEPT ![b] = 0]
    /\ dirtyList' = dirtyList \cup {b}
    /\ below' = OnTop(below, dirtyList, b)
    /\ UNCHANGED <<cached, uptodate, dirty, flush, tmp, data, older, refBlocks,
                   writeBack, disk, freed, faults>>

\* Mutant: the buffer that stays is counted as dropped.
KeepIdleUncounted(b, clean, fl) ==
    /\ refctr' = [refctr EXCEPT ![b] = 0]
    /\ dirty' = dirty \ clean
    /\ flush' = flush \ fl
    /\ refBlocks' = refBlocks - 1
    /\ UNCHANGED <<cached, uptodate, tmp, data, older, dirtyList, below>>

\* The buffer of the last reference stays in the cache, without the flags of
\* fl and, if it was written, without BC_DIRTY.
KeepIdle(b, clean, fl) ==
    /\ refctr' = [refctr EXCEPT ![b] = 0]
    /\ dirty' = dirty \ clean
    /\ flush' = flush \ fl
    /\ UNCHANGED <<cached, uptodate, tmp, data, older, dirtyList, below, refBlocks>>

SetWritten(b) ==
    /\ refctr[b] = 1 /\ b \in Ready /\ ~Delayed(b)
    /\ disk' = Written({b})
    /\ IF b \in tmp THEN Drop({b}) ELSE KeepIdle(b, {b}, {b})
    /\ UNCHANGED <<writeBack, freed, faults>>

\* Mutant: BC_DIRTY is cleared before the result of the write is known.
SetWriteFailedClean(b) ==
    /\ refctr[b] = 1 /\ b \in Ready /\ ~Delayed(b)
    /\ IF b \in tmp THEN Drop({b}) ELSE KeepIdle(b, {b}, {b})
    /\ faults' = "write"
    /\ UNCHANGED <<disk, writeBack, freed>>

\* The result of ext4_block_flush_buf is ignored: the buffer stays dirty but
\* on no list, and a BC_TMP one is dropped with its content.
SetWriteFailed(b) ==
    /\ refctr[b] = 1 /\ b \in Ready /\ ~Delayed(b)
    /\ IF b \in tmp THEN Drop({b}) ELSE KeepIdle(b, {}, {b})
    /\ faults' = "write"
    /\ UNCHANGED <<disk, writeBack, freed>>

SetClean(b) ==
    /\ refctr[b] = 1 /\ b \notin Ready
    /\ IF b \notin uptodate \/ b \in tmp THEN Drop({b}) ELSE KeepIdle(b, {}, {})
    /\ UNCHANGED <<disk, writeBack, freed, faults>>

BlockSet(b) ==
    \/ SetShared(b)
    \/ SetDelayed(b)
    \/ SetWritten(b)
    \/ SetWriteFailed(b)
    \/ SetClean(b)

-----------------------------------------------------------------------------
(***************************************************************************)
(* ext4_block_flush_lba: take a reference, write, give the reference back. *)
(***************************************************************************)

\* Mutant: the written buffer stays on the dirty list.
FlushLbaWrittenListed(b) ==
    /\ b \in Ready
    /\ disk' = Written({b})
    /\ dirty' = dirty \ {b}
    /\ older' = IF refctr[b] = 0 THEN OnTop(older, cached, b) ELSE older
    /\ UNCHANGED <<cached, refctr, uptodate, flush, tmp, data, dirtyList, below,
                   refBlocks, writeBack, freed, faults>>

FlushLbaWritten(b) ==
    /\ b \in Ready
    /\ disk' = Written({b})
    /\ dirty' = dirty \ {b}
    /\ dirtyList' = dirtyList \ {b}
    /\ below' = Without(below, {b})
    /\ older' = IF refctr[b] = 0 THEN OnTop(older, cached, b) ELSE older
    /\ UNCHANGED <<cached, refctr, uptodate, flush, tmp, data, refBlocks, writeBack,
                   freed, faults>>

\* The write failed. Giving the reference back puts an idle buffer on the
\* head of the list again, or tries a second write (which succeeds if again).
FlushLbaFailed(b, again) ==
    /\ b \in Ready \cap Unref
    /\ older' = OnTop(older, cached, b)
    /\ IF Delayed(b)
       THEN /\ dirtyList' = dirtyList \cup {b}
            /\ below' = OnTop(below, dirtyList, b)
            /\ UNCHANGED <<disk, dirty, flush>>
       ELSE /\ dirtyList' = dirtyList \ {b}
            /\ below' = Without(below, {b})
            /\ disk' = IF again THEN Written({b}) ELSE disk
            /\ dirty' = IF again THEN dirty \ {b} ELSE dirty
            /\ flush' = flush \ {b}
    /\ faults' = "write"
    /\ UNCHANGED <<cached, refctr, uptodate, tmp, data, refBlocks, writeBack, freed>>

FlushLbaClean(b) ==
    /\ b \in Unref \ Ready
    /\ IF b \in uptodate
       THEN /\ older' = OnTop(older, cached, b)
            /\ UNCHANGED <<cached, refctr, uptodate, dirty, flush, tmp, data,
                           dirtyList, below, refBlocks>>
       ELSE Drop({b})
    /\ UNCHANGED <<disk, writeBack, freed, faults>>

FlushLba(b) ==
    \/ FlushLbaWritten(b)
    \/ \E again \in BOOLEAN : FlushLbaFailed(b, again)
    \/ FlushLbaClean(b)

-----------------------------------------------------------------------------
(***************************************************************************)
(* Flushing the dirty list, write-back mode, and the end of a mount.       *)
(***************************************************************************)

\* The buffers of S are written and leave the list.
FlushListed(S) ==
    /\ disk' = Written(S)
    /\ dirty' = dirty \ S
    /\ dirtyList' = dirtyList \ S
    /\ below' = Without(below, S)
    /\ UNCHANGED <<cached, refctr, uptodate, flush, tmp, data, older, refBlocks, freed>>

\* ext4_block_cache_flush returned EOK.
FlushDone == FlushListed(dirtyList) /\ UNCHANGED faults

\* It stopped at the first write that failed, after the head run S.
FlushFailed ==
    /\ faults' = "write"
    /\ \E S \in SUBSET dirtyList :
        /\ S # dirtyList
        /\ \A s \in S, x \in dirtyList \ S : s \notin below[x]
        /\ FlushListed(S)

CacheFlush == (FlushDone \/ FlushFailed) /\ UNCHANGED writeBack

CacheWriteBackOn ==
    /\ writeBack < MaxWriteBack
    /\ writeBack' = writeBack + 1
    /\ UNCHANGED <<bufVars, disk, freed, faults>>

\* Mutant: only a call that finds the counter at 0 flushes.
CacheWriteBackOffLate ==
    IF writeBack > 0
    THEN /\ writeBack' = writeBack - 1
         /\ UNCHANGED <<bufVars, disk, freed, faults>>
    ELSE /\ writeBack' = 0
         /\ FlushDone \/ FlushFailed

\* Only the call that brings the counter to 0, or finds it there, flushes.
CacheWriteBackOff ==
    IF writeBack > 1
    THEN /\ writeBack' = writeBack - 1
         /\ UNCHANGED <<bufVars, disk, freed, faults>>
    ELSE /\ writeBack' = 0
         /\ FlushDone \/ FlushFailed

\* ext4_umount: every buffer is written, write errors are ignored, and every
\* buffer is dropped. The counter in the block device survives.
BcacheCleanup ==
    /\ \A b \in Block : refctr[b] = 0
    /\ \E S \in SUBSET Ready : disk' = Written(S)
    /\ Drop(cached)
    /\ faults' = "none"
    /\ UNCHANGED <<writeBack, freed>>

\* Power is lost.
Crash ==
    /\ Drop(cached)
    /\ writeBack' = 0
    /\ faults' = "none"
    /\ UNCHANGED <<disk, freed>>

-----------------------------------------------------------------------------
(***************************************************************************)
(* Blocks that change owner.                                               *)
(***************************************************************************)

\* The buffers ext4_bcache_invalidate_lba reaches: it starts at the buffer of
\* the first block, and reaches none when that block has no buffer.
Reached(from, cnt) ==
    IF from \in cached THEN {b \in cached : from <= b /\ b <= from + cnt - 1} ELSE {}

Invalidate(from, cnt) ==
    LET hit == Reached(from, cnt)
    IN  /\ uptodate' = uptodate \ hit
        /\ dirty' = dirty \ hit
        /\ data' = [b \in Block |-> IF b \in hit THEN Junk ELSE data[b]]
        /\ dirtyList' = dirtyList \ hit
        /\ below' = Without(below, hit)
        /\ freed' = freed \cup (from .. from + cnt - 1)
        /\ UNCHANGED <<cached, refctr, flush, tmp, older, refBlocks, writeBack, disk,
                       faults>>

\* ext4_blocks_set_direct of file data, past the cache. Its callers rely on
\* the cache having no valid buffer for a data block; FreedRangeNotListed
\* below asks whether the freeing of blocks ensures it.
DirectWrite(b, v) ==
    /\ b \notin uptodate
    /\ disk' = [disk EXCEPT ![b] = v]
    /\ freed' = freed \ {b}
    /\ UNCHANGED <<bufVars, writeBack, faults>>

Next ==
    \/ \E b \in Block :
        \/ BlockGet(b)
        \/ BlockGetNoread(b)
        \/ JbdBlockGet(b)
        \/ JbdBlockGetNoread(b)
        \/ BlockGetNoMemory(b)
        \/ BlockGetReadFailed(b)
        \/ BlockSet(b)
        \/ FlushLba(b)
        \/ \E v \in Value : Modify(b, v) \/ DirectWrite(b, v)
        \/ \E cnt \in 1 .. (NBlocks - b) + 1 : Invalidate(b, cnt)
    \/ BlockGetShakeFailed
    \/ CacheFlush
    \/ CacheWriteBackOn
    \/ CacheWriteBackOff
    \/ BcacheCleanup
    \/ Crash

Spec == Init /\ [][Next]_vars

-----------------------------------------------------------------------------
(***************************************************************************)
(* Properties.                                                             *)
(***************************************************************************)

\* A buffer that is up to date and not dirty holds what the device holds, and
\* no dirty buffer is without content: whatever the order of evictions,
\* failed reads and failed writes, ext4_block_get never serves a stale block.
CleanBuffersMatchDisk ==
    /\ dirty \subseteq uptodate
    /\ \A b \in uptodate \ dirty : data[b] = disk[b]

\* The dirty list holds only unreferenced dirty buffers, so the loop of
\* ext4_block_cache_flush always finds something to write at its head and
\* ends; and as long as no write failed it holds all of them, none in
\* write-through mode.
DirtyListExact ==
    /\ dirtyList \subseteq Unref \cap dirty
    /\ faults = "none" =>
        /\ Unref \cap dirty \subseteq dirtyList
        /\ writeBack = 0 => dirtyList = {}

\* ref_blocks counts the buffers: the shake's test for a full cache is exact
\* on every path that allocates, drops or fails.
RefBlocksExact == refBlocks = Cardinality(cached)

\* A call never takes away a buffer that somebody else references: only the
\* release of the last reference, and the power cut, end a referenced buffer.
PinnedBuffersStay ==
    [][\A b \in cached \ cached' : refctr[b] = 0 \/ SetWritten(b) \/ SetWriteFailed(b)
                                   \/ SetClean(b) \/ Crash]_vars

\* The cache outgrows its size only when every buffer it has is referenced.
GrowsOnlyWhenPinned ==
    [][\A b \in cached' \ cached :
        refBlocks' > CacheSize => \A x \in cached' : refctr'[x] > 0]_vars

\* The content of every block as a read through the cache would return it.
Current == [b \in Block |-> IF b \in uptodate THEN data[b] ELSE disk[b]]

\* The blocks somebody holds a reference to.
Held == {b \in Block : refctr[b] > 0}

\* "Default model of cache is write through" (ext4.h:226): as long as no write
\* failed, outside write-back mode the device holds the content of every block
\* that nobody references, whatever was nested, freed or evicted before.
WriteThroughDurable ==
    (faults = "none" /\ writeBack = 0) =>
        \A b \in Block : refctr[b] = 0 => disk[b] = Current[b]

\* "When write back mode is disabled all cache data will be flushed"
\* (ext4.h:238-239): when the call that disables it returns EOK, the device holds
\* the content of every block nobody references.
WriteBackOffFlushesAll ==
    [][writeBack = 1 /\ writeBack' = 0 /\ FlushDone =>
        \A b \in Block : refctr[b] = 0 => disk'[b] = Current[b]]_vars

\* "Invalidate a range of buffers" (ext4_bcache.h:248): once a range of blocks
\* was freed, no buffer of it waits to be written to the device, where the
\* block may have been given to another file by then.
FreedRangeNotListed ==
    [][\A b \in Block : \A cnt \in 1 .. (NBlocks - b) + 1 :
        Invalidate(b, cnt) => dirtyList' \cap (b .. b + cnt - 1) = {}]_vars

\* The cache implements the block store: evictions, releases and flushes in
\* any order, with any failures, change the content of no block but those
\* somebody writes who holds them, or gives up, and the log blocks.
Store == INSTANCE BlockStore WITH
    Scratch <- JournalBlock, current <- Current, stable <- disk,
    held <- Held

ImplementsStore == Store!Spec
=============================================================================

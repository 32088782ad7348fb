# TeensyEXT4 in TLA+

TeensyEXT4 is lwext4, an ext4 library in C, with a C++ wrapper (`src/src/ext4FS.cpp`)
that runs it on USB drives and SD cards of a Teensy board. This directory holds TLA+
models of its core, TLC configurations that check them on small instances, and TLAPS
proofs about them. Paths below are relative to the repository.

The library runs in one thread and its lock functions do nothing, so the models have
one actor and an action is one call. What is hard is not parallelism: it is the order
in which callers nest references and modes, device accesses that fail in the middle of
a call, lost power, and state that outlives the call or the mount it belongs to.

## Inventory

| component | source | state | operations | what makes it correct |
|---|---|---|---|---|
| block cache | `ext4_bcache.c`, `.h` | buffers with flags and reference counts, LRU tree, dirty list, `ref_blocks` | find, allocate, release, drop, invalidate, clean up | a clean buffer equals its block; lists and counters are exact |
| block device layer | `ext4_blockdev.c`, `ext4_trans.c` | `cache_write_back`, `ph_refctr`, the bound cache | get, set, flush, write-back mode, direct access, open, close | reads see the last write; a drive stays open while used |
| mount points | `ext4.c` 71-490, 1407-1420 | `s_bdevices`, `s_mp` | register, mount, unmount, look up by path | a mounted partition is usable; a failure leaves nothing behind |
| Teensy wrapper | `ext4FS.cpp`, `.h`, `ext4_mbr.c` | `bd_list`, `mount_list` | find drives, scan partitions, begin, lwext_umount | loss of data can be told at the next mount |
| block allocator | `ext4_balloc.c`, `ext4_bitmap.c` | bitmaps, counters of groups and superblock | allocate near a goal, free a run | no block is given out twice, none is lost |
| inode allocator | `ext4_ialloc.c` | the same, `itable_unused`, `last_inode_bg_id` | allocate, free | the same, and the search ends |
| file system core | `ext4_fs.c`, `ext4_inode.c`, `ext4_super.c` | descriptors, flags of groups, inodes | references to groups and inodes, lazy initialisation, truncation, block mapping | a group is initialised once |
| file operations | `ext4.c` 1435-2080 | open files, position, size | read, write, seek, truncate, remove | a file reads back what was written; modes balance |
| extent tree | `ext4_extent.c` | tree of extents of an inode | map, insert, split, merge, remove | it is a map from logical to physical blocks |
| name space | `ext4.c`, `ext4_dir.c` | entries, link counts | link, unlink, rename, mkdir, rmdir | links are counted exactly, the tree has no cycle |
| hashed directories | `ext4_dir_idx.c`, `ext4_hash.c` | index blocks | look up, add, split | every name is found |
| journal | `ext4_journal.c` | log, transactions, revoke records | commit, checkpoint, replay | replay restores committed transactions and nothing else |
| extended attributes | `ext4_xattr.c` | entries in an inode or a block | get, set, remove | layout |
| formatter | `ext4_mkfs.c` | none | format | a valid empty file system |

How they interact: a sketch calls the wrapper, which calls `ext4.c`; file operations
hold references to inodes and groups, which are references to buffers of the cache;
everything that changes a block marks its buffer dirty (`ext4_trans_set_block_dirty`)
and releases it (`ext4_block_set`), and the release writes it or lists it according to
the write-back mode of the partition. The allocators invalidate the buffers of blocks
they free. All partitions of a drive share its interface and its `ph_refctr`; all
mounts share `s_mp`, whose slots are used again. The journal is compiled out
(`CONFIG_JOURNALING_ENABLE` is 0).

Hard behaviours: failures of reads and writes at any point of a call (everywhere);
power cuts and drives that are removed (cache, mounts); order of references and of
write-back mode (cache, file operations); state kept from an earlier mount (mounts,
inode allocator); half-done work (freeing runs, initialising groups, links, extents).
`PROJECT.json` lists them one by one under `hazards`.

## Plan

Done, in this order:

1. `BlockStore` and `BlockCache`: what the cache promises, and the cache; the first implements the second.
   `BlockCacheProofs`: the theorems about it.
2. `MountTable`: drives, partitions, device table and mount slots.
3. `Allocation`: blocks, inodes and the lazy initialisation of groups.
4. `FileIO`: one file with several handles: opening, reading, writing, seeking and truncating with failures.
5. `Journal`: start, commit, abort, checkpoint, revocation, stop, power failure and replay.
6. `FileMap` and `ExtentTree`: the mapping of a file, and the tree that implements it.
7. `NameTree` and `Namespace`: the paths of a mount point, and the entries, inodes and link counts that implement them.
8. `DirIndex`: the entries of one directory, hashed or plain, and reading it while it changes.
9. `MountTableProofs`: the theorems about mounting.
10. `AllocationProofs`, `FileIOProofs`, `NamespaceProofs`, `NameTreeProofs` (the refinement), `DirIndexProofs`, the action properties in `BlockCacheProofs`, and `NumberFacts`, the facts about
   numbers, counting and recursive functions that these proofs share.

Next:

11. Proofs: `ExtentTree` and `Journal`.
12. The loop of `ext4_balloc_free_blocks` where groups are smaller than their bitmap.
13. Composition: the tree of a file with the bitmaps of `Allocation`, which both models know as a set of free blocks.

## Modules

**`BlockStore`** is what the layers above may believe: an array `current` that reads
back what was last written, and an image `stable` on the device that lags behind.
Content changes only when a block is written by somebody who holds it, given up by its
owner, or when the device is detached; writes reach the device at any moment.

**`BlockCache`** models `ext4_bcache.c` and the part of `ext4_blockdev.c` that drives
it. `cached` is `lba_root`, the unreferenced part of it `lru_root`, the flags are sets of
buffers, `older` and `below` are the orders of the LRU tree and of the dirty list. Actions are the
entry points, each with its failing outcomes: `BlockGet`, `BlockGetNoread` and their journal
variants (the shake evicts in LRU order until the cache has room or a write
fails), `BlockGetShakeFailed`, `BlockGetNoMemory`, `BlockGetReadFailed`, `Modify` (the caller
changes a referenced buffer), `BlockSet` (release: written, delayed, kept or dropped), `FlushLba`,
`CacheFlush`, `CacheWriteBackOn`, `CacheWriteBackOff`, `BcacheCleanup`, `Invalidate`,
`DirectWrite`, `Crash`. Left out: the callbacks and the `dont_shake` flag of the journal, and the wrapping of the
32-bit `lru_ctr`. `DirectWrite` respects its callers' contract: they write whole blocks that
belong to one file and have no buffer.

**`MountTable`** models the tables of the wrapper and of `ext4.c`. A partition, the name
it is registered under and its mount point are one thing, as in `lwext_mount`. `Begin` has an
action for each way `lwext_mount` can end, `Umount` likewise; a successful unmount has two halves,
`UmountWritten` and `UmountDone`, between which power may be lost. Of the cache only its life and whether it has dirty buffers
is kept: `BlockCache` has the rest. A step that would follow a null pointer, or use a dead
cache, sets `faulted`; `BeginNullDevice` is the one where the pointer is the `pbdev` of a cleared entry of the card.
`Write` stands for all file operations: it writes through, leaves a dirty buffer, or fails and leaves write-back mode one higher (`Dirties`), which is
`fileio_writeback` seen from here. The history variable `careful` is true while the sketch
does what the example sketches do (leave a drive alone while it is mounted, and not set up the card again; do not try again when `begin` failed; begin no
partition of the card after `init_block_device` failed), in
this and in every earlier session. All properties but the types are promised only to such sketches, and two faults
of the code say why. `mount_flag`: a `begin` that is tried again claims a slot that was never mounted, its unmount gives back a reference it never took
and marks another partition's superblock valid. `ClearedIsRefused` (see *Findings*): `begin` follows the null pointer. A card that is scanned again while it is mounted loses
the caches of its partitions (`ScanMbr`), and the next call on one of them faults.

**`Allocation`** models both allocators over sets of bits. Any read of a descriptor or
bitmap may fail, and so may the initialisation of a group, half way (`RefFails`).
`mapped` and `files` are what the callers do with the results: a run that was freed is forgotten by its inode
whether or not the bitmaps could be read, as `ext4_ext_free_blocks` ignores the result.
Addresses are counted from `first_data_block`; a group has as many blocks as its
bitmap has bits, which is what `ext4_mkfs` and mke2fs make; the counts of directories and `ext4_balloc_try_alloc_block`,
which nobody calls, are left out. A goal is any block or the one behind the last: goals further away come only from sparse
files of other systems.

**`FileIO`** models one file and its handles: `ext4_ftruncate`, `ext4_fread`, `ext4_fwrite`, `ext4_fseek`,
`ext4_fclose`, opening with and without truncation, and of `ext4_fs.c` truncation and appending. Of the data only which
bytes were written is kept (`written`), of the mapping which logical blocks have a block (`mapped`); `astray` are the bytes that were written
to a block of somebody else, because looking up a hole of a file without extents gives block 0 and no error (`Missed`). A write has an
action for each way it can end: `Fwrite`, `FwriteNoSpace` (a block cannot be appended), `FwriteLookupFails`,
`FwriteDataFails`; they say how far it came (`Between` are the places where it can stop), what it leaves as size, and
whether write-back mode stays on. A truncation goes in steps of `MaxTruncate` bytes
and may stop in the middle of any (`CutStops`). `extents` chooses between the two ways an inode maps its blocks, which differ
in how appending rounds the size and in what a truncation does about a hole. What is not kept: which handles were
opened to write only (any may read; `O_RDONLY` is 0, so the tests for it at `ext4.c` 1654 and 1850 never hold, and
any may write), and the transaction calls, which do nothing because no journal is started (`ext4FS.cpp` 502).
`FwriteBeyond`, a write behind the end of the file, stops the model: `ext4_fwrite` would store at block 0 of the device or run past
the caller's buffer; `PositionInside` says which calls cannot lead there. Also left out: what reading a hole returns, small
symbolic links, and a truncation in which a step was left out and the last one fails too.

**`Journal`** models `ext4_journal.c` and its callers, as a build with `CONFIG_JOURNALING_ENABLE` has them (the shipped
configuration, `ext4_config.h:88`, leaves it out). `jn` is the memory of a session: the running transaction `tx`, the
checkpoint queue `cp`, per block the `dirty_buf_queue`, the transaction of its record and the one its `end_write`
callback reports to, and the buffer. Since one thread uses the file system, a call changes the memory at once and leaves
its device writes, in their order, in `jn.w`; `DeviceWrite` carries them out one by one, `Crash` may come between any two.
`Modify`, `Read`, `Free`, `FileWrite` and `Flush` are what file system and cache do in a transaction; `Commit` is
`__jbd_journal_commit_trans` with descriptor, copies, revoke record and commit block and the checkpointing a full log
forces; `Abort`, `Stop`, `StopPurge`, `StopClose`, `Start` and `Recover` are the other calls. `work` is the file system as
the operations left it, `kept` as the last committed transaction left it: `RecoveryRestores` compares what a replay would make
of the device, at any moment, with `kept`. Bounds and simplifications, by name: ids count modulo `IdMod`; a freed block is not taken again before its
transaction commits (`freed`); a transaction fits in the log; recovery runs without write-back mode (with it, `jbd_recover`
would mark the log empty before the replayed blocks are home); device writes do not fail; log checksums and 64-bit tags are left
out. One comment differs from the code: by `ext4_journal.c:894` a copy is replayed if its transaction is "equal or greater than" the revoking one, by the code
(898) only if it is greater, which is what is modelled.

**`FileMap`** is what the mapping of a file promises: a write gives one logical block its block and touches no other, a
truncation takes away the end, or some of the end when it stops (`CutStops`), everything else leaves the map alone. **`ExtentTree`** models `ext4_extent.c` below it. A tree
is a function from the inode and the blocks of its nodes to nodes, a path is what `ext4_find_extent` returns. Three calls, as
`ext4_fs.c` makes them: `FillHole` (insertion with merging, splitting of any number of levels and growing of the root), `Initialise` (a block
of an unwritten extent: `ext4_ext_convert_to_initialized`), `RemoveSpace` (truncation to the end) and, of the last one, the case that a block of the tree
cannot be read (`RemoveSpaceFails`): the leaf of the path was cut and those behind it emptied, up to the one that fails, and the call may be made again. That a
retry from inside a hole does nothing is the slip `hole`. The allocator gives any
number of the blocks an insertion asks for and then fails, and what is undone is undone as the code does. `FirstTrees` are the trees a file may
come with: none, one that another implementation preallocated, one with a hole. Levels are as many as the bounds need;
checksums of extent blocks are left out.

**`NameTree`** is what names promise: a rename moves one subtree whole, a link shares one file, a recursive removal takes
nothing outside its directory. **`Namespace`** models the calls of `ext4.c` that do it: `Create` (`ext4_generic_open2` with all components it
makes on its way, each of which may fail), `Flink`, `Frename`, `Fremove`, and the loop of `ext4_dir_rm`, whose steps `RmDown`, `RmEntry`, `RmUp` and
`RmLast` are actions because each is a transaction that may be the last one (`RmFails`). An inode may fail to be freed when its name is gone already, in
a removal, recursive or not, and when a creation is undone: it is `Lost` then, in use for the bitmap and found by no path, for aborting a transaction brings nothing back where no
journal is started (`ext4FS.cpp` 502), and a recursive removal ends there. `ino` keeps kind, link count and '..',
`ents` the entries. A file stands for everything that is no directory. Removing the mount point itself empties it and returns ENOENT. Files that are open while they are removed
are not followed: nothing in the code looks for them (`ext4.c:1519`), handles keep the inode number.

**`DirIndex`** models the entries of one directory, hashed (`ext4_dir_idx.c`) or plain (`ext4_dir.c`); `Init` chooses. A block is a sequence of records, a
name or `Void` with a length, and the entries of the index it may hold; the place of the first one's hash is taken by count and
limit. Adding is `AddPlain`, `DxAddInLeaf`, `DxAddSplitting` (the names of the leaf are sorted, those of one hash in any order, as `qsort` may leave
them, and cut by size) and `DxAddFails` (no block to append); a full index block is split before the leaf is looked at, so that `DxAddFails` may
change the index. The hash is a constant, an even number (`ext4_hash.c:309`). `EntryNext` reads on from the place (block and
offset) in an open `ext4_dir`, while names are added and removed and leaves are split. The place is kept, as `next_off` is, whatever becomes of the records: when none begins there any more (`Outdated`)
the next call takes bytes of former records for one, and goes on at any offset of the block, goes on with the next block, or gets EIO and returns NULL (`EntryNextOutdated`). `due` are the names the
reading has still to return, `got` those it must not return again; a split takes the names it carries over the place (`Carried`) out of both, and a place without a record
the rest of its block out of `due`. Not followed: a failing `ext4_dir_dx_split_index`, after which an uninitialised
block is released. Left out: the linear search after `EXT4_ERR_BAD_DX_DIR`, and `metadata_csum`, with which this index does not work
(`ext4_dir_dx_split_index` writes limits without the checksum's tail, `ext4_dir_dx_get_leaf` expects them with it) and which the formatter switches off
(`ext4_mkfs.c:781`). The truncation that ends a removed directory belongs to `Namespace`: the directory is gone after it.

`MC*` modules give the constants their values and the symmetries. A definition whose
comment begins with "Mutant" is a plausible bug in the definition that follows it; it is used
only to see that the property named in `PROJECT.json` notices.

**Slips and departures.** Where a call leaves what its own comments promise, the models say so and go on with the
rest. `Journal` and `ExtentTree` record it in `slips`, and their properties hold of every behaviour that met none; `Namespace` and
`DirIndex` have the constant `Departures`, the set of those a run follows, empty in the passing runs. They are:

| module | name | what happens |
|---|---|---|
| `Journal` | `stale` | a clean stop leaves sequence 0 (`ext4_journal.c:1446`), the next session counts from there and its log runs into the records of an older one |
| `Journal` | `unrevoked` | a block is freed without a revoke record although the log holds an older copy, because its record belongs to the running transaction |
| `Journal` | `lag` | log blocks are given out again that the superblock on the device still names as the start of the log |
| `Journal` | `dropped` | an aborted transaction had freed a block that was not checkpointed: the buffer is gone and does not come back |
| `ExtentTree` | `prepend` | a block joined to the front of an extent takes over its old physical place |
| `ExtentTree` | `mixed` | a written block joined to an unwritten extent counts as unwritten |
| `ExtentTree` | `middle` | the middle of an unwritten extent is split with the path of the first split, so that `split - ee_block` wraps |
| `ExtentTree` | `exposed` | an unwritten extent that cannot be split gets its length back, but not its mark |
| `ExtentTree` | `lost` | entries moved to a new node go with it when a higher split fails |
| `ExtentTree` | `hole` | a truncation from inside a hole leaves what follows the hole |
| `Namespace` | `descendant`, `root`, `half` | a rename of a directory into itself, of the mount point, or one that fails between new and old name |
| `Namespace` | `hardlink`, `nlink` | a recursive removal frees a file that has other names, or keeps the inode of a directory past counting |
| `Namespace` | `dangling` | `ext4_link` could not fill a new directory and leaves its entry |
| `Namespace` | `hollow` | a recursive removal stops when a directory was emptied of its '.' and '..' and still has its name (`ext4.c:2996`-3010) |
| `DirIndex` | `sparse` | the finding `dir_sparse` |
| `DirIndex` | `unplaced` | the half of a split leaf that is chosen has no room: EOK for a name that is nowhere (long names in blocks of 1 KiB) |

With any one departure of `Namespace` in `Departures` TLC finds `TreeSound` violated. With `sparse` it finds `NamesFoundOnce` of `DirIndex` violated at the sizes of
the runs; these are too small for `unplaced`, which violates it with blocks of 6 and records of 2, 3, 3, 3 and 1.

## Runs

| run | instance | question | states, time |
|---|---|---|---|
| `cache_faults` | 3 blocks, 2 buffers, 2 values, 1 reference per buffer | do flags, lists and counters stay exact when any read or write may fail? | 417,792, 125 s |
| `cache_nested` | 2 blocks, 1 buffer, 2 references, mode nested twice, a journal block | do referenced buffers stay, and does the cache implement `BlockStore`? | 26,864, 10 s |
| `mount_table` | 2 partitions on USB, 1 on SD, 2 device slots, 2 mount slots, calls that leave write-back mode on | does a mounted partition stay usable, is no null pointer met and no drive closed too early, and is lost data flagged? | 513,796, 43 s |
| `mount_flag` | the same | finding: a failed mount looks mounted | 1 s |
| `alloc_counts` | 6 blocks, 4 inodes, 2 groups, one short, "bytes" of 3 bits | is nothing given out twice, counted wrongly or lost? | 17,200, 25 s |
| `fileio` | 2 handles, blocks of 2 bytes, 3 blocks, truncation in steps of 2 bytes, one call failing half way | do size, blocks, written bytes and positions stay in step? | 367,448, 110 s |
| `fileio_writeback` | 1 handle, 2 blocks, no device failure | finding: a full device leaves write-back mode on | 1 s |
| `journal_crash` | 2 blocks, a log of 7, 2 tags per descriptor, ids modulo 16, 2 sessions, 3 transactions, 5 operations, 1 abort, 1 crash | does a replay restore the last commit, whenever power fails? | 836,512, 65 s |
| `extent_file` | 7 logical and 13 device blocks, nodes of 1 and 2 entries, extents of 4, 6 calls, truncations that stop | does the search find every extent, is no block lost, is it a `FileMap`? | 54,809, 35 s |
| `namespace_tree` | 2 names, 3 levels, 4 inodes, hashed directories with at most 3 links | do the entries stay a tree with exact counts, does it implement `NameTree`, does a removal end? | 11,534, 15 s |
| `dir_names` | 5 names, 3 of one hash, leaves of 4, root of 2, nodes of 3 entries, 7 blocks | is every name found, once, and read exactly? | 84,039 (with symmetry), 60 s |
| `dir_sparse` | the same, with `sparse` | finding: a split copies every name | 1 s |

Why the bounds are enough. Cache: a cache of two buffers and three blocks has evictions
with and without choice, a full cache with everything pinned, and a dirty list of two; values only have to
differ. Nesting needs two levels, and one buffer makes every second access evict. Mounts: three
partitions over two slots make every table overflow, two partitions on one drive share its counter, and one
of the drives is the SD card, which `init_block_device` treats differently; unplugging is limited to the USB drive
(`Removable`), but the driver of the card may report an error at any time. `MaxWriteBack` bounds how high file calls count the mode: mounting counts it to one, so at two an unmount already does not end it, and higher counts do nothing else. `MaxLeaked`, the number of partitions, bounds nothing here. `mount_table`
has a `VIEW`: of the histories and the superblocks it keeps what the properties of a careful sketch still depend on (`Histories` in `MCMountTable`: a partition that is excused stays so until it is mounted again, and then its flag is set and its loss
forgotten). No guard reads the rest, so states that differ in nothing else have the same behaviours. Allocation: two groups make the search wrap and runs cross from one to the other, the
short one has padding, and a goal can be first, middle and last in a "byte"; only two inodes are given blocks (`Owner`).
Files: with three blocks a write has a head, whole blocks and a tail, each may be a block that exists or is appended, and a
truncation has up to three steps; two bytes make a position inside a block; one failure (`MaxFailures`) is enough for holes and for
blocks behind the end, and every sequence of calls before and after it is explored. `MaxWriteBack` only stops counting. The space may
be used up at any block and any number of times. Deadlock is not checked in these runs, because `FwriteBeyond` is the end of a behaviour.
Journal: a transaction of two blocks takes a descriptor, two copies and a commit block, so the second or third one wraps around the log of seven and
has to checkpoint the first; ids start at 14 and wrap at 16 within a session; a block can be modified by two transactions while a third is
running, which is all that the block records distinguish; one crash may itself be followed by a recovery, and the state before a second one is the same as before
the first. Extents: with a root of one entry and nodes of two a tree of four levels takes three calls, and splits of one and of two levels and new roots all occur;
extents of four blocks reach their maximal length, and thirteen device blocks are
enough for the file and the nodes, so that running out is the allocator's choice and not the bound's. Deadlock is not checked because `MaxOps` ends a behaviour. Names:
three levels are needed to rename a directory with something in it below another; a limit of four links is reached by two directories in one (`LinkMax`),
four inodes make creation run out of them. Directories: three names of one hash fill more than a leaf of two, seven blocks are the root, two nodes and four
leaves: a leaf, the root and a node are split, and a search goes on across a node.

**Fairness.** Only `namespace_tree` assumes any: `WF_vars(RmStep)`. The steps of a recursive removal are the iterations of one loop in one call, made under the
lock of the mount point with nothing to wait for, so the processor takes the next one. `RemovalEnds` needs it; that the loop ends is a matter
of its depth counter and of the '..' it climbs. No other run assumes fairness: nothing else is promised to happen by itself, the program may
always stop calling. The other loops that could run for ever are covered by invariants that make them end: the flush loop by
`DirtyListExact`, the inode search by `CountsExact`, the loops of the journal by `NeverStuck`, which holds when a round that changes nothing cannot occur.

## Findings

- `mount_flag`: `mounted`, "Mount done flag", is set before mounting and stays set when it
  fails; trying again succeeds without mounting anything.
- `fileio_writeback`: `ext4_fwrite` leaves write-back mode on when a block cannot be appended or looked up, and so do failed
  truncations and removals; from then on no call flushes what it wrote, and unmounting turns the mode off only once.
- `dir_sparse`: a leaf whose free space is in pieces, as removals leave it, is split although its names fit in half a block. The loop that looks for the middle finds none,
  an entry before the array is read, and every name is copied to the new block and stays in the old one. At 4 KiB many short
  names of which every second one is removed, and then a longer one, are enough.

Further properties that comments of the code state and its models refute. They are definitions of the modules, not runs;
TLC finds each within seconds when it is checked with these constants (else those of the module's run):

| property | constants | what the code does |
|---|---|---|
| `BlockCache!WriteBackOffFlushesAll` (PROPERTY) | `NBlocks` 2, `CacheSize` 1, `JournalBlock` {}, `MaxRef` 1, `MaxWriteBack` 1 | a buffer whose write-through failed is dirty but on no list; disabling write-back mode returns success without writing it, against `ext4.h:238` |
| `BlockCache!FreedRangeNotListed` (PROPERTY) | the same, `CacheSize` 2 | invalidating a range whose first block has no buffer does nothing (`ext4_bcache.c:199`), so a dirty buffer of a freed block can be written over its next owner |
| `MountTable!LostMeansError` | those of `mount_table`, without its `VIEW` | after one of the calls that leave write-back mode on, an unmount turns it off once (`ext4FS.cpp:519`), flushes nothing and marks the superblock valid; power lost before the cache is cleaned up (`ext4.c:460`) loses data that nothing flags, against `ext4_fs.c:106` |
| `MountTable!ClearedIsRefused` (PROPERTY) | those of `mount_table` | clearing the card's entry of `bd_list` (`ext4FS.cpp:331`) sets `pbdev` to null and leaves `pSD`, by which `ext4_bd_open` (151) tells whether there is a device: `begin` follows the null pointer |
| `MountTable!UmountUnregisters` (PROPERTY) | those of `mount_table` | unmounting does not unregister, against `ext4FS.cpp:513`: a partition cannot be mounted twice and four partitions exhaust the table |
| `Allocation!AllInodeGroupsTried` | `LeftBehind` {0, 3} | `last_inode_bg_id` is not reset by mounting; after a larger file system in the same slot no file can be created |
| `FileIO!SizeIsWritten` | `Handle` {h1}, `Limit` 4, `MaxWriteBack` 0 | when the data of an appended block cannot be written the size of the inode keeps covering it, and the caller is told EOK |
| `FileIO!WritesGoToFile` | `Handle` {h1}, `Limit` 4, `MaxWriteBack` 1 | in a file without extents a hole is looked up as block 0 without an error, also for writing (`ext4_fs.c:1380`-1386): the bytes go over the first block of the device (`ext4.c:1892`, 1988) or the block next in the run (1945), are counted, and are not in the file, against `ext4.h:350`. A truncation that failed makes such holes |
| `DirIndex!NullMeansEnd` (PROPERTY) | those of `dir_names`, SPECIFICATION `SpecDirect` of `MCDirIndex` | a split rewrites the leaf a reading stands in, its place is then within a name, whose bytes are refused as a record (`ext4_dir.c:171`-184); the caller gets the NULL that means the end (`ext4.c:3199`), though names behind are still due, against `ext4.h:610` |
| `ExtentTree!ThreePartsDisjoint` | `Logical` 0..3, `Phys` 1..6, `RootMax` 4, `NodeMax` 6, `FirstTrees` <- `MCPreallocated`, `MaxOps` 2 | the slip `middle`: two extents cover one block |
| `Journal!StaleRecordsInvalid` | `Block` {1}, `FirstSeq` 1, `MaxSessions` 3 | the slip `stale`: a recovery replays a transaction of an older session |
| `Journal!FreedBlocksRevoked` | those of `journal_crash` | the slip `unrevoked`: a recovery brings back an old copy of a block that was freed |
| `Journal!StartFollowsCheckpoint` | `MaxLen` 6, `FirstSeq` 1, `MaxSessions` 1, `MaxAborts` 0 | the slip `lag`: a recovery starts in log blocks that are in use again |

## Proofs

`BlockCacheProofs` proves, for every number of blocks, cache size and bound, that
`TypeOK`, `CleanBuffersMatchDisk`, `DirtyListExact`, `RefBlocksExact` and `WriteThroughDurable` are invariants and that
`BlockCache` implements `BlockStore`. The assumptions are those in the module: sizes are
natural numbers, the cache has room for at least one buffer, the junk value is no block content,
journal blocks are blocks.

None of the invariants is inductive alone. A clean buffer stays equal to its block only
if what was evicted in between was not dirty, which needs the flags to fit each other; the
dirty list stays exact only if it has no referenced buffer; the number of buffers decides whether
anything is evicted at all. Their conjunction `IInv` is inductive. There is a lemma for each
action (`GetKeeps`, `SetKeeps`, `FlushKeeps`, `InvalidateKeeps`, ...), resting on lemmas
about the pieces the actions share (`DropKeeps`, `ReferenceKeeps`, `EvictKeeps`) and on two about counting
(`CountDrop`, `CountAdd`). `WriteThroughDurable` follows from `IInv` without being part of it. For the refinement each
action is mapped to a step of the store or to a stutter, with `IInv` as the fact
that makes evictions and flushes invisible to readers.

`MountTableProofs` proves, for every set of drives and partitions and any size of the two tables, that `TypeOK`, `NeverFaults`,
`MountedStaysUsable`, `PhRefCovers` and `LossIsFlagged` are invariants; it assumes only that every partition has a drive. Again none
is inductive alone. The invariant adds, for a careful sketch: no two slots have one name (`NamesApart`), since a partition that is not registered
has no slot but those a failed `begin` left marked (`FreshUnused`); the slot of a claimed partition is its own and its cache live (`OwnCache`), from which
follow the null pointers that are never met and the one reference an unmount gives back (`Counted`); after a failed unmount
only what could not be written is dirty (`FlushedOrFailed`), what a claimed partition wrote is not lost (`KeptOrFailed`), and its error flag stays on the device
until the superblock is written (`ErrorWhileMounted`), which together make `LossIsFlagged`; each of them but the last excepts the partitions that `Excused` names, those where a write failed or
a call left write-back mode on, and rests on that mode being counted to one on every other partition that is claimed (`WriteBackOnce`). There is a lemma for each way a call can
end; `MinInSet` (the first slot of a set) rests on the well-foundedness of finite sets, and the counting on the cardinalities of finite sets.

`BlockCacheProofs` also proves the action properties: no step takes a buffer away while it is referenced (`PinnedBuffersStay`), and the cache outgrows its size only
when every buffer is referenced (`GrowsOnlyWhenPinned`). Both follow from `IInv` and what the shake does to `lru_root`.

`AllocationProofs` proves, for every geometry (any number of blocks, blocks and inodes a group, metadata and reserved inodes), that `TypeOK`, `NothingShared`, `CountsExact`, `NothingLeaks`
and `NoSpaceMeansFull` are invariants. What an allocator sees of the bitmaps (`Seen`, `SeenInodes`: the bitmap, or for a group that is not initialised what its bitmap will be)
is not changed by initialising a group, however that ends; so the invariant speaks of `Seen`. It has a part for the blocks (`BlockInv`: counters of groups and superblock are the numbers of clear bits, mapped
blocks are marked and mapped once), one that says marked blocks are exactly the mapped ones and those of the group itself (`BlocksUsed`, until a failed read made a free incomplete), one for inodes, and one for the untouched end of each inode table
(`Unused`: no inode in it is in use). There is one hypothesis, `LeftBehind \subseteq 0 .. Groups`, about the group an inode search starts at, which mounting does not reset; a larger value
makes the search fail at once, which is `AllInodeGroupsTried` under *Findings*.

`FileIOProofs` proves, for any number of handles, any block size, limit and truncation step, and for both ways of mapping, that `TypeOK`,
`WrittenIsMapped`, `BlocksFollowSize`, `NoForeignBytes` and `PositionInside` are invariants. The first four are inductive together (`FileInv`): what is written can only be kept
in blocks that are mapped if truncation takes blocks behind the new end only, and the blocks it takes follow from the size; that no byte goes astray in a file with extents, nor before a truncation failed, is
part of `WrittenIsMapped` and needs `BlocksFollowSize`. `Inside` adds for the positions that a handle
never knows an end behind the end. Most of the work is in division: where a write or a truncation may stop, and which block that place is in.

`NamespaceProofs` proves, for every finite set of names, every set of inodes and any depth and link limit, that `TypeOK`, `TreeSound` and
`LinksExact` are invariants of the behaviours without departures (`Departures = {}`; each departure violates `TreeSound`, most also `LinksExact`, see above). The invariant says that there is a depth
of directories (`Sound`): an entry leads from a directory to one that is one deeper, a directory has one entry and its '..' is where that entry is (`Linked`), link
counts are what the entries add up to (`Counted`), and an inode that could not be freed is in none of them. The depth is no state of the program, so it is quantified:
the proof of each call names the new one, and a rename shifts it for the subtree that moves. While a recursive removal runs (`Removal`) there is a set of directories it has still to
remove, which it can leave only upwards, and its level counter is its depth below the directory that goes; this is what its way up by '..' ends at. Paths are resolved by a recursive function, whose
value is reached by unfolding it one component at a time; every directory still to remove is at a place below the path that was asked for.

`NameTreeProofs` proves, from the same invariant and for the same constants, that `Namespace` implements `NameTree`. What both speak of are places, a path with the inode it leads to: all but
the mount point are one entry further than another place (`Places`), so what holds at the mount point and is kept by going on along an entry holds
everywhere (`PlacesWithin`). With that induction: an entry that goes, of something with nothing in it, takes exactly one place away (`PlaceLess`), an entry
that comes adds exactly one (`PlaceMore`), and an entry that moves takes the places below it along and leaves all others (`PlacesMoved`). The tree of `NameTree` has an
item for each place (`TreeItems`), so these become `TreeLess`, `TreeMore`, `TreeRenamed`; creation, which adds several entries, has grown the tree by beginnings of its path (`Grown`, `TreeGrown`). A rename
is `NameTree`'s only because a directory never gets below itself, and each step of a removal only because the directories still to remove are all below its own (`Removal`).

`DirIndexProofs` proves, for every set of names with even hashes, sizes of blocks and limits of the index, that `TypeOK`, `NamesFoundOnce` and `ReadingExact` are
invariants of the behaviours without departures (`Departures = {}`; each departure violates `NamesFoundOnce` at the sizes given above). The assumptions are those of the module; a record of a name is at most
half a block (names have at most 255 bytes, blocks at least 1024). The invariant has three parts. `Filled`: the records of a block fill it, no name is in two records,
and the names in the blocks are those of `there`. `Indexed`: leaves are ordered by their positions (`Slots`, `Before`) and their keys ascend in this order, across the blocks of the index;
blocks of the index and leaves are apart (`Shape`); and each name is in a leaf whose key is at most its hash, or at most one more if the leaf continues that hash, with larger keys behind it (`InPlace`,
`KeyOf`). `Reading`: the names returned lie before the place (`Past`), those due do not, and while a name is due in the block of the place a record begins there. The search is followed step by step: it begins at the last leaf whose
key is not larger than the hash (`GetLeafFacts`), the name is never behind it, and as each step leaves fewer later leaves (`Later`) it ends (`DxFindFacts`). A split of the index moves slots and keeps their order, leaves
and keys (`Moved`, `MovedIndex`), and so no name out of its place; the split of a leaf parts its names by the key of the new entry (`PartsFacts`, `EnteredPlaces`), also in the middle of names of one hash, where bit 0
of the key keeps `InPlace` true. Insertion and removal keep every other record at its offset (`SamePlaces`), and a split moves records of one leaf only, to this leaf and to the last block (`Scattered`), so that what it carries over the place of a reading is
what `Carried` says; from a place without a record the reading comes to all that is due in later blocks (`Awaits`, `Comes`, `GoesTo`).

`NumberFacts` holds what they share: division with remainder, least elements of sets of numbers, induction as "there is no smallest counterexample", and from it that a function defined by recursion
over the natural numbers exists (`Recursion`), which is what a recursive function of the model needs before it can be unfolded.

Only model-checked: all of `Journal` and `ExtentTree`. Neither is out of the prover's reach. That a recovery restores what was committed rests on everything the journal has ever
written, so the invariants of `Journal` hold only together, with the state of each block between memory, log and place; `ExtentTree` needs the order of the keys over all blocks of a tree of any depth,
kept while blocks split. Out of its reach altogether is liveness (`RemovalEnds`).

## Not modelled

Extended attributes (`ext4_xattr.c`) are layout inside one inode or one block, without interleaving or recovery; the block they may take
is allocated as in `Allocation`. The formatter is a straight line of writes whose result is the initial state of `Allocation` and `DirIndex`.
Checksums, debug output and the vendored tree and queue macros are taken to work: trees are sets and lists sequences in the models. The indirect block maps of ext2 and ext3 are in
`FileIO` only as far as appending and truncating differ; symbolic links, times, owners and modes are data no call depends on. `ext4_mbr_write` is used by
a formatting sketch only. A drive that answers reads with
wrong data, and a file system that was inconsistent before, are outside all models.

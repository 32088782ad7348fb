------------------------------- MODULE FileIO -------------------------------
(***************************************************************************)
(* Reading, writing and truncating one file through several handles: the   *)
(* file operations of ext4.c with the block index functions of ext4_fs.c   *)
(* that they call.                                                         *)
(*                                                                         *)
(* A byte is written or not: written holds the positions below the size    *)
(* that a write put there, mapped the logical blocks that have a block on  *)
(* the device. A new block holds whatever its last owner left in it.       *)
(*                                                                         *)
(* A write goes in three parts: the rest of the block it starts in, whole  *)
(* blocks, and the beginning of a last one. Blocks up to the size the file *)
(* had when the write began are looked up, the others appended, which also *)
(* moves the size in the inode. Between any two parts, runs of blocks or   *)
(* blocks, a device access may fail or the space be used up.               *)
(*                                                                         *)
(* No flag of a handle keeps it from writing: O_RDONLY is 0, so the tests  *)
(* of ext4_fwrite and ext4_ftruncate for it never hold.                    *)
(***************************************************************************)
EXTENDS Naturals, FiniteSetsExt

CONSTANTS
    Handle,         \* open files: struct ext4_file
    BlockSize,
    Limit,          \* bound: no position is behind it
    MaxTruncate,    \* CONFIG_MAX_TRUNCATE_SIZE
    MaxWriteBack,   \* bound: how often write-back mode is left on
    MaxFailures     \* bound: calls that fail half way

ASSUME SizeAssumption ==
    /\ BlockSize \in Nat \ {0} /\ MaxTruncate \in Nat \ {0}
    /\ Limit \in Nat /\ Limit % BlockSize = 0
    /\ MaxWriteBack \in Nat /\ MaxFailures \in Nat

VARIABLES
    extents,        \* whether the inode maps its blocks by extents
    size,           \* the size in the inode
    written,        \* positions below it that were written
    mapped,         \* logical blocks that have a block on the device
    astray,         \* history: written positions that went to a block of others
    opened,         \* the handles that are open
    fpos,           \* position of each handle
    fsize,          \* the size as each handle last saw it
    writeBack,      \* nesting of write-back mode that calls have left behind
    writesFailed,   \* history: the writes that met a device failure
    cutsFailed,     \* history: the truncations that failed half way
    shared,         \* history: the file was cut while another handle was open
    beyond          \* a write began behind the end of the file

fileVars == <<extents, size, written, mapped, astray>>
handleVars == <<opened, fpos, fsize>>
vars == <<fileVars, handleVars, writeBack, writesFailed, cutsFailed, shared, beyond>>

Position == 0 .. Limit

\* The positions from a on and below b, and the blocks they lie in.
Bytes(a, b) == {i \in Position : a <= i /\ i < b}
BlocksOf(a, b) == {i \div BlockSize : i \in Bytes(a, b)}

\* The number of blocks of the first n bytes.
Blocks(n) == (n + BlockSize - 1) \div BlockSize

TypeOK ==
    /\ extents \in BOOLEAN
    /\ size \in Position
    /\ written \subseteq Bytes(0, size)
    /\ mapped \subseteq 0 .. Blocks(Limit) - 1
    /\ astray \subseteq Bytes(0, size)
    /\ opened \subseteq Handle
    /\ fpos \in [Handle -> Position]
    /\ fsize \in [Handle -> Position]
    /\ writeBack \in 0 .. MaxWriteBack
    /\ writesFailed \in Nat /\ cutsFailed \in Nat /\ writesFailed + cutsFailed <= MaxFailures
    /\ shared \in BOOLEAN /\ beyond \in BOOLEAN

\* A file that was just created.
Init ==
    /\ extents \in BOOLEAN
    /\ size = 0 /\ written = {} /\ mapped = {} /\ astray = {}
    /\ opened = {}
    /\ fpos = [h \in Handle |-> 0]
    /\ fsize = [h \in Handle |-> 0]
    /\ writeBack = 0
    /\ writesFailed = 0 /\ cutsFailed = 0 /\ shared = FALSE /\ beyond = FALSE

\* Bound: another call may fail half way.
MayFail == writesFailed + cutsFailed < MaxFailures

-----------------------------------------------------------------------------
(***************************************************************************)
(* Truncation: ext4_trunc_inode in steps of CONFIG_MAX_TRUNCATE_SIZE.      *)
(***************************************************************************)

\* The sizes the file has on the way to n, before each step.
Steps(n) == {s \in n + 1 .. size : (size - s) % MaxTruncate = 0}

\* Mutant: the block the new end lies in goes too.
CutPointsRounded(n, steps) ==
    {b \in {s \div BlockSize : s \in steps \cup {n}} \ {Blocks(size)} :
        extents => b \in mapped}

\* The first blocks to go. An extent tree that does not map the first block to
\* go is left as it is.
CutPoints(n, steps) ==
    {b \in {Blocks(s) : s \in steps \cup {n}} \ {Blocks(size)} :
        extents => b \in mapped}

\* Mutant: the first block to go is kept.
KeptOneMore(n, steps) == {b \in mapped : \A c \in CutPoints(n, steps) : b <= c}

\* The blocks that are left after the given steps and the last one, to n.
Kept(n, steps) == {b \in mapped : \A c \in CutPoints(n, steps) : b < c}

\* The file is cut to n. When the inode cannot be read for a step, the other
\* steps are left out and the last one is made.
Cut(n) ==
    /\ size' = n
    /\ extents' = extents
    /\ \E last \in Steps(n) : mapped' = Kept(n, {s \in Steps(n) : s >= last})
    /\ written' = written \cap Bytes(0, n)
    /\ astray' = astray \cap Bytes(0, n)

\* A step fails, when some of its blocks are gone. A byte of a block that is
\* gone is not what was written. Bound: no step was left out before.
CutStops(n) ==
    \E s \in Steps(n) :
        LET next == IF s > n + MaxTruncate THEN s - MaxTruncate ELSE n
            left == Kept(s, Steps(s))
        IN  \E gone \in SUBSET {b \in left : b >= Blocks(next)} :
                /\ size' = s /\ extents' = extents
                /\ mapped' = left \ gone
                /\ written' = {i \in written \cap Bytes(0, s) : i \div BlockSize \notin gone}
                /\ astray' = astray \cap Bytes(0, s)

\* Whether somebody but h has the file open.
OpenedByOthers(h) == opened \ {h} # {}

Ftruncate(h, n) ==
    /\ h \in opened
    /\ IF n < size
       THEN /\ Cut(n)
            /\ fpos' = [fpos EXCEPT ![h] = Min({@, n})]
            /\ fsize' = [fsize EXCEPT ![h] = n]
            /\ shared' = (shared \/ OpenedByOthers(h))
       ELSE /\ fsize' = [fsize EXCEPT ![h] = size]
            /\ UNCHANGED <<fileVars, fpos, shared>>
    /\ UNCHANGED <<opened, writeBack, writesFailed, cutsFailed, beyond>>

\* The handle keeps position and size, and write-back mode stays on.
FtruncateFails(h, n) ==
    /\ h \in opened /\ n < size /\ MayFail /\ writeBack < MaxWriteBack
    /\ CutStops(n)
    /\ fsize' = [fsize EXCEPT ![h] = size]
    /\ writeBack' = writeBack + 1
    /\ cutsFailed' = cutsFailed + 1
    /\ shared' = (shared \/ OpenedByOthers(h))
    /\ UNCHANGED <<opened, fpos, writesFailed, beyond>>

-----------------------------------------------------------------------------
(***************************************************************************)
(* Opening and closing a handle, and moving its position.                  *)
(***************************************************************************)

FopenHandle(h, atEnd) ==
    /\ opened' = opened \cup {h}
    /\ fsize' = [fsize EXCEPT ![h] = size']
    /\ fpos' = [fpos EXCEPT ![h] = IF atEnd THEN size' ELSE 0]

Fopen(h, trunc, atEnd) ==
    /\ h \notin opened
    /\ IF trunc /\ size > 0
       THEN Cut(0) /\ shared' = (shared \/ OpenedByOthers(h))
       ELSE UNCHANGED <<fileVars, shared>>
    /\ FopenHandle(h, atEnd)
    /\ UNCHANGED <<writeBack, writesFailed, cutsFailed, beyond>>

\* ext4_fopen leaves write-back mode also when it fails.
FopenFails(h) ==
    /\ h \notin opened /\ size > 0 /\ MayFail
    /\ CutStops(0)
    /\ cutsFailed' = cutsFailed + 1
    /\ shared' = (shared \/ OpenedByOthers(h))
    /\ UNCHANGED <<handleVars, writeBack, writesFailed, beyond>>

Fclose(h) ==
    /\ h \in opened
    /\ opened' = opened \ {h}
    /\ fpos' = [fpos EXCEPT ![h] = 0]
    /\ fsize' = [fsize EXCEPT ![h] = 0]
    /\ UNCHANGED <<fileVars, writeBack, writesFailed, cutsFailed, shared, beyond>>

\* Mutant: the offset from the current position is not limited.
FseekAnywhere(h, p) == h \in opened

\* Any position up to the size as the handle knows it, and any before the
\* current one. Behind that size, what is left of the file wraps around and
\* limits no offset from the current position.
FseekAllowed(h, p) ==
    /\ h \in opened
    /\ p <= fsize[h] \/ p <= fpos[h] \/ fpos[h] > fsize[h]

Fseek(h, p) ==
    /\ FseekAllowed(h, p)
    /\ fpos' = [fpos EXCEPT ![h] = p]
    /\ UNCHANGED <<fileVars, opened, fsize, writeBack, writesFailed, cutsFailed, shared, beyond>>

-----------------------------------------------------------------------------
(***************************************************************************)
(* Reading. Only the handle changes.                                       *)
(***************************************************************************)

\* Where the part of a transfer from a to b ends that lies in the block of a,
\* if a is inside it, and where the whole blocks end.
HeadEnd(a, b) == IF a % BlockSize = 0 THEN a ELSE Min({b, BlockSize * Blocks(a)})
MiddleEnd(a, b) == Max({HeadEnd(a, b), BlockSize * (b \div BlockSize)})

\* The end of every part, and of every run of blocks.
Between(a, b) ==
    {a, b} \cup {k \in Bytes(HeadEnd(a, b), MiddleEnd(a, b) + 1) : k % BlockSize = 0}

\* Where a read of n bytes ends. Behind the end of the file the difference the
\* size is clipped to wraps around.
ReadEnd(h, n) == IF fpos[h] > size THEN fpos[h] + n ELSE Min({fpos[h] + n, size})

\* A device failure ends it after some part.
Fread(h, n) ==
    /\ h \in opened
    /\ \E k \in Between(fpos[h], ReadEnd(h, n)) : fpos' = [fpos EXCEPT ![h] = k]
    /\ fsize' = [fsize EXCEPT ![h] = size]
    /\ UNCHANGED <<fileVars, opened, writeBack, writesFailed, cutsFailed, shared, beyond>>

-----------------------------------------------------------------------------
(***************************************************************************)
(* Writing.                                                                *)
(***************************************************************************)

\* Mutant: one block too many.
AppendedSizeOff(k) ==
    IF Blocks(k) <= Blocks(size) THEN size
    ELSE (IF extents THEN size ELSE BlockSize * Blocks(size))
         + BlockSize * (Blocks(k) - Blocks(size) + 1)

\* The size in the inode when the blocks up to position k were appended.
AppendedSize(k) ==
    IF Blocks(k) <= Blocks(size) THEN size
    ELSE (IF extents THEN size ELSE BlockSize * Blocks(size))
         + BlockSize * (Blocks(k) - Blocks(size))

\* Mutant: the size stays as the appended blocks made it.
SizeAfterAppends(k) == AppendedSize(k)

\* out_fsize: the size when a write that ends at k is over.
SizeAfter(k) == Max({size, k})

\* The blocks of the bytes from a to b that the file should have, and does not get:
\* looking up a hole of a file without extents gives physical block 0 and EOK. What
\* is written there goes to the first block of the device, or over the next block
\* of the same run, just before that is written.
Missed(a, b) ==
    IF extents THEN {} ELSE {j \in BlocksOf(a, b) \ mapped : j < Blocks(size)}

\* The write of h has put down the bytes up to k, and the blocks of the bytes
\* up to g were looked up or appended; it leaves the size s.
Puts(h, k, g, s) ==
    /\ size' = s
    /\ extents' = extents
    /\ written' = (written \cup Bytes(fpos[h], k)) \cap Bytes(0, s)
    /\ mapped' = mapped \cup (BlocksOf(fpos[h], g) \ Missed(fpos[h], g))
    /\ astray' = Bytes(0, s) \cap
                   (astray \cup {i \in Bytes(fpos[h], k) : i \div BlockSize \in Missed(fpos[h], k)})
    /\ fpos' = [fpos EXCEPT ![h] = k]

\* Whether h may write from where it is up to position e.
MayWrite(h, e) == h \in opened /\ fpos[h] <= size /\ fpos[h] < e

\* Whether a write of h up to e is in write-back mode when it has come to k.
InWriteBack(h, e, k) == HeadEnd(fpos[h], e) <= k /\ k < MiddleEnd(fpos[h], e)

\* A write that ends at k leaves write-back mode on if on is true.
LeavesWriteBack(on) ==
    /\ writeBack' = writeBack + (IF on THEN 1 ELSE 0)
    /\ writeBack' <= MaxWriteBack

Fwrite(h, e) ==
    /\ MayWrite(h, e)
    /\ Puts(h, e, e, SizeAfter(e))
    /\ fsize' = [fsize EXCEPT ![h] = SizeAfter(e)]
    /\ UNCHANGED <<opened, writeBack, writesFailed, cutsFailed, shared, beyond>>

\* The block of position k cannot be appended.
FwriteNoSpace(h, e) ==
    /\ MayWrite(h, e)
    /\ \E k \in Between(fpos[h], e) \ {e} :
        /\ k % BlockSize = 0 /\ k >= BlockSize * Blocks(size)
        /\ Puts(h, k, k, SizeAfter(k))
        /\ fsize' = [fsize EXCEPT ![h] = SizeAfter(k)]
        /\ LeavesWriteBack(InWriteBack(h, e, k))
    /\ UNCHANGED <<opened, writesFailed, cutsFailed, shared, beyond>>

\* The block of position g, which the file should have, cannot be looked up, or
\* given if there is none. Whole blocks from k on were looked up, not written.
FwriteLookupFails(h, e) ==
    /\ MayWrite(h, e) /\ MayFail
    /\ \E k, g \in Between(fpos[h], e) \ {e} :
        /\ k <= g /\ g < BlockSize * Blocks(size)
        /\ k # g => InWriteBack(h, e, k) /\ InWriteBack(h, e, g)
        /\ Puts(h, k, g, size)
        /\ LeavesWriteBack(InWriteBack(h, e, g))
    /\ fsize' = [fsize EXCEPT ![h] = size]
    /\ writesFailed' = writesFailed + 1
    /\ UNCHANGED <<opened, cutsFailed, shared, beyond>>

\* The blocks from k to g are there, but writing them fails: what that left on
\* the device counts as not written. The size is not what was written.
FwriteDataFails(h, e) ==
    /\ MayWrite(h, e) /\ MayFail
    /\ \E k, g \in Between(fpos[h], e) :
        /\ k < g
        /\ k < HeadEnd(fpos[h], e) => g <= HeadEnd(fpos[h], e)
        /\ k < MiddleEnd(fpos[h], e) => g <= MiddleEnd(fpos[h], e)
        /\ Puts(h, k, g, AppendedSize(g))
    /\ fsize' = [fsize EXCEPT ![h] = size]
    /\ writesFailed' = writesFailed + 1
    /\ UNCHANGED <<opened, writeBack, cutsFailed, shared, beyond>>

\* A write that begins behind the end of the file: a part of a block may go to
\* block 0 of the device, an appended block takes the place of another, and
\* after whole blocks the bytes left to write wrap around and the loop reads on
\* behind the caller's buffer. Nothing is said of what follows.
FwriteBeyond(h) ==
    /\ h \in opened /\ fpos[h] > size
    /\ beyond' = TRUE
    /\ UNCHANGED <<fileVars, handleVars, writeBack, writesFailed, cutsFailed, shared>>

-----------------------------------------------------------------------------
Next ==
    /\ ~beyond
    /\ \E h \in Handle :
        \/ \E trunc, atEnd \in BOOLEAN : Fopen(h, trunc, atEnd)
        \/ FopenFails(h)
        \/ Fclose(h)
        \/ \E n \in Position : Ftruncate(h, n) \/ FtruncateFails(h, n)
        \/ \E p \in Position : Fseek(h, p)
        \/ \E n \in 1 .. Limit - fpos[h] : Fread(h, n)
        \/ \E e \in Position : \/ Fwrite(h, e) \/ FwriteNoSpace(h, e)
                               \/ FwriteLookupFails(h, e) \/ FwriteDataFails(h, e)
        \/ FwriteBeyond(h)

Spec == Init /\ [][Next]_vars

-----------------------------------------------------------------------------
(***************************************************************************)
(* Properties.                                                             *)
(***************************************************************************)

\* Every byte that was written is in a block of the file, whatever failed: a
\* truncation never releases the block the new end lies in, and a write gets a
\* block for each of its bytes. The exception are bytes written into a hole of a
\* file without extents, and only a truncation that failed makes holes in it.
WrittenIsMapped ==
    /\ \A i \in written \ astray : i \div BlockSize \in mapped
    /\ extents \/ cutsFailed = 0 => astray = {}

\* "Write data to file." (ext4.h:350): the bytes that a write has counted are in
\* blocks of the file. A hole of a file without extents stays one.
WritesGoToFile == \A i \in written : i \div BlockSize \in mapped

\* As long as no truncation failed the file has the blocks of its bytes and no
\* others: no failed write leaves a hole, or a block behind the end.
BlocksFollowSize == cutsFailed = 0 => mapped = 0 .. Blocks(size) - 1

\* As long as no device access failed every byte of the file was written:
\* running out of space, at any block of a write, exposes no byte of a block's
\* last owner.
NoForeignBytes == writesFailed + cutsFailed = 0 => written = Bytes(0, size)

\* As long as the file was not cut under a handle, and no truncation and no write
\* failed, a handle is never behind the end, and never believes it to be further
\* away: reads and writes end inside, in full or when the space is used up, and
\* ext4_fseek, which goes by what the handle remembers, keeps inside too.
PositionInside ==
    ~shared /\ writesFailed + cutsFailed = 0 =>
        \A h \in opened : fpos[h] <= size /\ fsize[h] <= size

\* "when write back mode is disabled all cache data will be flushed"
\* (ext4.h:238-239) and "Some of the function use write back cache mode
\* internally" (ext4.h:243): a call leaves the nesting as it found it.
WriteBackBalanced == writeBack = 0

\* "no more blocks might be written. But node size should be updated"
\* (ext4.c:1961-1963): a write that fails leaves the size at what was written.
SizeIsWritten == cutsFailed = 0 => written = Bytes(0, size)
=============================================================================

----------------------------- MODULE MountTable -----------------------------
(***************************************************************************)
(* Drives, partitions and mount points: the wrapper of ext4FS.cpp          *)
(* (init_block_device, begin, lwext_umount) and the calls it makes to the  *)
(* mount operations of ext4.c, to ext4_fs_init and ext4_fs_fini, and to    *)
(* the reference counter of the block device interface, which all the      *)
(* partitions of a drive share.                                            *)
(*                                                                         *)
(* A partition, its registered name and its mount point name are one thing *)
(* here, as they are in lwext_mount. Any device access may fail. A cache   *)
(* is either live or not, and pending holds the partitions with dirty      *)
(* buffers: BlockCache says what goes on inside. A step that would follow  *)
(* a null pointer, or use a cache that is not initialised, ends in         *)
(* faulted.                                                                *)
(*                                                                         *)
(* The example sketches use a partition when begin returned true, unmount  *)
(* it when mount_list[].mounted says so, leave a drive in place while it   *)
(* is mounted, do not try again when begin failed, and set up the card     *)
(* once: they begin none of its partitions after init_block_device failed. *)
(* careful is the history of whether the sketch has kept to the last three *)
(* rules.                                                                  *)
(***************************************************************************)
EXTENDS Naturals, FiniteSets, FiniteSetsExt

CONSTANTS
    Part,           \* partitions: mount_list[]
    NoPart,         \* a null fs.bdev
    Disk,           \* drives: bd_list[]
    SdDisk,         \* the drives init_block_device sets up on every call
    Removable,      \* bound: the drives that are plugged in and removed
    DiskOf,         \* the drive of a partition
    NDevices,       \* CONFIG_EXT4_BLOCKDEVS_COUNT
    NSlots,         \* CONFIG_EXT4_MOUNTPOINTS_COUNT
    MaxWriteBack,   \* bound: how far file calls count cache_write_back up
    MaxLeaked       \* bound: the partitions on which they do

ASSUME PartAssumption ==
    /\ NoPart \notin Part
    /\ DiskOf \in [Part -> Disk]
    /\ SdDisk \subseteq Disk /\ Removable \subseteq Disk
    /\ NDevices \in Nat /\ NSlots \in Nat
    /\ MaxWriteBack \in Nat /\ MaxLeaked \in Nat

Slot == 1 .. NSlots

VARIABLES
    plugged,        \* the drives that are there
    known,          \* bd_list[].connected, and with it pbdev and pDrive
    available,      \* mount_list[].available
    claimed,        \* mount_list[].mounted
    devices,        \* s_bdevices, by name
    slotName,       \* s_mp[].name
    slotMounted,    \* s_mp[].mounted
    slotFs,         \* s_mp[].fs.bdev
    live,           \* the slots whose cache is initialised
    bound,          \* partbdev.bc: the slot whose cache it is, or 0 for NULL
    writeBack,      \* partbdev.cache_write_back
    phRef,          \* ph_refctr of the drive's interface
    pending,        \* partitions with dirty buffers
    sb,             \* state in the superblock on the device
    failed,         \* history: a write failed since the partition was mounted
    leaked,         \* history: a call left write-back mode on since it was mounted
    lost,           \* history: dirty buffers were lost since it was mounted
    umounting,      \* the slot whose unmount is half done, or 0
    careful,        \* history: the sketch kept to the rules in every session
    faulted         \* the program followed a null or dead pointer

driveVars == <<plugged, known, available>>
slotVars == <<slotName, slotMounted, slotFs, live>>
dataVars == <<pending, sb, failed, leaked, lost>>
vars == <<driveVars, claimed, devices, slotVars, bound, writeBack, phRef, dataVars,
          umounting, careful, faulted>>

TypeOK ==
    /\ plugged \subseteq Disk /\ known \subseteq Disk
    /\ available \subseteq Part /\ claimed \subseteq Part
    /\ devices \subseteq Part /\ Cardinality(devices) <= NDevices
    /\ slotName \in [Slot -> Part \cup {NoPart}]
    /\ slotMounted \subseteq Slot /\ live \subseteq Slot
    /\ slotFs \in [Slot -> Part \cup {NoPart}]
    /\ bound \in [Part -> Slot \cup {0}]
    /\ writeBack \in [Part -> Nat]
    /\ phRef \in [Disk -> Nat]
    /\ pending \subseteq Part /\ failed \subseteq Part
    /\ leaked \subseteq Part /\ lost \subseteq Part
    /\ sb \in [Part -> {"valid", "error"}]
    /\ umounting \in Slot \cup {0}
    /\ careful \in BOOLEAN /\ faulted \in BOOLEAN

Init ==
    /\ known = {} /\ available = {} /\ claimed = {} /\ devices = {}
    /\ slotName = [i \in Slot |-> NoPart]
    /\ slotMounted = {} /\ live = {}
    /\ slotFs = [i \in Slot |-> NoPart]
    /\ bound = [p \in Part |-> 0]
    /\ writeBack = [p \in Part |-> 0]
    /\ phRef = [d \in Disk |-> 0]
    /\ pending = {} /\ failed = {} /\ leaked = {}
    /\ umounting = 0 /\ careful = TRUE /\ faulted = FALSE
    /\ plugged = Disk
    /\ sb = [p \in Part |-> "valid"]
    /\ lost = {}

-----------------------------------------------------------------------------
(***************************************************************************)
(* Looking things up.                                                      *)
(***************************************************************************)

On(d) == {p \in Part : DiskOf[p] = d}

\* The drive has a pDrive or a pSD: pSD is never cleared.
Pointed(d) == d \in known \cup SdDisk

\* A device access can succeed.
Reachable(d) == d \in plugged /\ Pointed(d)

\* ext4_block_init can succeed.
Opens(d) == phRef[d] > 0 \/ d \in known

\* ext4_bd_open follows the null pbdev of an entry that clr_BDL_entry has cleared:
\* it looks at pSD, which is still set.
OpensNull(d) == phRef[d] = 0 /\ d \in SdDisk \ known

Named(p) == {i \in Slot : slotName[i] = p}

\* Mutant: names are not compared.
MountsAny(p) == slotMounted

\* The slots ext4_get_mount chooses from; it takes the first.
Mounts(p) == Named(p) \cap slotMounted

\* The slots the loop of ext4_mount stops at; it takes the first.
Stops(p) == Named(p) \cup (Slot \ slotMounted)

\* The program does something undefined.
Fault ==
    /\ faulted' = TRUE
    /\ UNCHANGED <<driveVars, claimed, devices, slotVars, bound, writeBack, phRef, dataVars,
                   umounting>>

-----------------------------------------------------------------------------
(***************************************************************************)
(* Drives: init_block_device, scan_mbr and ext4_mbr_scan.                  *)
(***************************************************************************)

\* The drive holds no mounted partition.
LeftAlone(d) == On(d) \cap claimed = {}

\* The scan writes new partbdevs over the old ones, with no cache bound.
ScanMbr(d) ==
    /\ available' = available \cup On(d)
    /\ bound' = [p \in Part |-> IF p \in On(d) THEN 0 ELSE bound[p]]
    /\ writeBack' = [p \in Part |-> IF p \in On(d) THEN 0 ELSE writeBack[p]]

\* Early return for a USB drive that is known already.
InitBlockDeviceKnown(d) == d \in (plugged \cap known) \ SdDisk /\ UNCHANGED vars

InitBlockDevice(d) ==
    /\ careful' = (careful /\ LeftAlone(d))
    /\ d \in plugged \ (known \ SdDisk)
    /\ known' = known \cup {d}
    /\ \/ ScanMbr(d)
       \/ UNCHANGED <<available, bound, writeBack>>
    /\ UNCHANGED <<plugged, claimed, devices, slotVars, phRef, dataVars, umounting, faulted>>

\* clr_BDL_entry: the drive is gone, or the driver of the card reports an error.
InitBlockDeviceGone(d) ==
    /\ d \notin plugged \/ d \in SdDisk
    /\ known' = known \ {d}
    /\ UNCHANGED <<plugged, available, claimed, devices, slotVars, bound, writeBack, phRef,
                   dataVars, umounting, careful, faulted>>

Plug(d) ==
    /\ d \in Removable
    /\ plugged' = plugged \cup {d}
    /\ UNCHANGED <<known, available, claimed, devices, slotVars, bound, writeBack, phRef,
                   dataVars, umounting, careful, faulted>>

Unplug(d) ==
    /\ d \in Removable
    /\ careful' = (careful /\ LeftAlone(d))
    /\ plugged' = plugged \ {d}
    /\ UNCHANGED <<known, available, claimed, devices, slotVars, bound, writeBack, phRef,
                   dataVars, umounting, faulted>>

-----------------------------------------------------------------------------
(***************************************************************************)
(* begin, that is lwext_mount: register the partition, mount it, turn on   *)
(* write-back mode; unregister it when the mount fails.                    *)
(***************************************************************************)

MayBegin(p) == p \in available

\* ext4_device_register returns EEXIST or ENOSPC. mount_list[].mounted is false
\* from then on, also that of a partition that is mounted: it is registered.
BeginUnregistered(p) ==
    /\ MayBegin(p)
    /\ p \in devices \/ Cardinality(devices) = NDevices
    /\ claimed' = claimed \ {p}
    /\ UNCHANGED <<driveVars, devices, slotVars, bound, writeBack, phRef, dataVars,
                   umounting, careful, faulted>>

\* Mutant: the table of devices is taken to have room.
RegistersUnchecked(p) == MayBegin(p) /\ p \notin devices

Registers(p) == MayBegin(p) /\ p \notin devices /\ Cardinality(devices) < NDevices

\* ext4_mount returns ENOMEM.
BeginNoSlot(p) ==
    /\ Registers(p)
    /\ Stops(p) = {}
    /\ UNCHANGED vars

\* ext4_mount finds a slot that is marked as mounted under this name: EOK.
BeginMarked(p) ==
    /\ Registers(p)
    /\ Stops(p) # {}
    /\ LET i == Min(Stops(p))
       IN  /\ i \in slotMounted
           /\ careful' = FALSE
           /\ IF slotFs[i] = NoPart THEN Fault
              ELSE /\ devices' = devices \cup {p}
                   /\ claimed' = claimed \cup {p}
                   /\ writeBack' = [writeBack EXCEPT ![slotFs[i]] = @ + 1]
                   /\ UNCHANGED <<driveVars, slotVars, bound, phRef, dataVars, umounting,
                                  faulted>>

\* The slot ext4_mount takes, when it takes a free one.
Takes(p, i) ==
    /\ Registers(p)
    /\ Stops(p) # {} /\ i = Min(Stops(p)) /\ i \notin slotMounted
    /\ slotName' = [slotName EXCEPT ![i] = p]
    /\ slotMounted' = slotMounted \cup {i}
    /\ careful' = (careful /\ Mounts(p) = {})

\* ext4_block_init follows a null pointer.
BeginNullDevice(p) ==
    /\ OpensNull(DiskOf[p])
    /\ Registers(p)
    /\ Stops(p) # {} /\ Min(Stops(p)) \notin slotMounted
    /\ careful' = FALSE
    /\ Fault

\* ext4_block_init fails: nothing else happened.
BeginNotOpened(p) ==
    /\ ~Opens(DiskOf[p]) /\ ~OpensNull(DiskOf[p])
    /\ \E i \in Slot : Takes(p, i)
    /\ UNCHANGED <<driveVars, claimed, devices, slotFs, live, bound, writeBack, phRef,
                   dataVars, umounting, faulted>>

\* ext4_fs_init cannot read or write the superblock, or rejects it.
BeginNotRead(p) ==
    /\ Opens(DiskOf[p])
    /\ \E i \in Slot : Takes(p, i) /\ slotFs' = [slotFs EXCEPT ![i] = p]
    /\ UNCHANGED <<driveVars, claimed, devices, live, bound, writeBack, phRef, dataVars,
                   umounting, faulted>>

\* Mutant: the cache is not bound to the partition.
BeginMountedUnbound(p) ==
    /\ Reachable(DiskOf[p])
    /\ \E i \in Slot :
        /\ Takes(p, i)
        /\ slotFs' = [slotFs EXCEPT ![i] = p]
        /\ live' = live \cup {i}
        /\ pending' = pending \ {q \in Part : bound[q] = i}
        /\ lost' = (lost \cup {q \in pending : bound[q] = i}) \ {p}
    /\ phRef' = [phRef EXCEPT ![DiskOf[p]] = @ + 1]
    /\ sb' = [sb EXCEPT ![p] = "error"]
    /\ devices' = devices \cup {p}
    /\ claimed' = claimed \cup {p}
    /\ writeBack' = [writeBack EXCEPT ![p] = @ + 1]
    /\ failed' = failed \ {p} /\ leaked' = leaked \ {p}
    /\ UNCHANGED <<driveVars, bound, umounting, faulted>>

\* Everything works. A cache that a failed unmount left in the slot is
\* initialised again, and forgets its buffers.
BeginMounted(p) ==
    /\ Reachable(DiskOf[p])
    /\ \E i \in Slot :
        /\ Takes(p, i)
        /\ slotFs' = [slotFs EXCEPT ![i] = p]
        /\ live' = live \cup {i}
        /\ bound' = [bound EXCEPT ![p] = i]
        /\ pending' = pending \ {q \in Part : bound[q] = i}
        /\ lost' = (lost \cup {q \in pending : bound[q] = i}) \ {p}
    /\ phRef' = [phRef EXCEPT ![DiskOf[p]] = @ + 1]
    /\ sb' = [sb EXCEPT ![p] = "error"]
    /\ devices' = devices \cup {p}
    /\ claimed' = claimed \cup {p}
    /\ writeBack' = [writeBack EXCEPT ![p] = @ + 1]
    /\ failed' = failed \ {p} /\ leaked' = leaked \ {p}
    /\ UNCHANGED <<driveVars, umounting, faulted>>

-----------------------------------------------------------------------------
(***************************************************************************)
(* File operations, as far as mounting sees them: they find the slot of    *)
(* the path and dirty a buffer of its cache. Those that fail half way may  *)
(* leave write-back mode on (FileIO says where).                           *)
(***************************************************************************)

\* What a call does to the cache of partition b: it writes through, or leaves a dirty
\* buffer, because of write-back mode or because a write failed; or it fails and
\* leaves the mode on.
Dirties(b) ==
    \/ /\ writeBack[b] = 0 /\ Reachable(DiskOf[b])
       /\ UNCHANGED <<writeBack, pending, failed, leaked>>
    \/ /\ pending' = pending \cup {b}
       /\ failed' = IF writeBack[b] > 0 THEN failed ELSE failed \cup {b}
       /\ UNCHANGED <<writeBack, leaked>>
    \/ /\ writeBack[b] < MaxWriteBack /\ Cardinality(leaked \cup {b}) <= MaxLeaked
       /\ writeBack' = [writeBack EXCEPT ![b] = @ + 1]
       /\ leaked' = leaked \cup {b}
       /\ pending' \in {pending, pending \cup {b}}
       /\ UNCHANGED failed

Write(p) ==
    /\ p \in claimed
    /\ Mounts(p) # {}
    /\ LET b == slotFs[Min(Mounts(p))]
       IN  IF b = NoPart THEN Fault
           ELSE /\ phRef[DiskOf[b]] > 0         \* EIO otherwise
                /\ IF bound[b] \notin live THEN Fault
                   ELSE /\ Dirties(b)
                        /\ UNCHANGED <<driveVars, claimed, devices, slotVars, bound,
                                       phRef, sb, lost, umounting, faulted>>
    /\ UNCHANGED careful

-----------------------------------------------------------------------------
(***************************************************************************)
(* lwext_umount: ext4_cache_write_back(0), whose result is ignored, then   *)
(* ext4_umount, which looks for the name in every slot, mounted or not. It *)
(* has two halves: the superblock is marked valid, then the cache is       *)
(* cleaned up and the device closed. Only a power cut comes between them.  *)
(***************************************************************************)

MayUmount(p) == p \in claimed

\* The slots the two calls work on, where they find one.
UmountSlots(p) == {Min(S) : S \in {Mounts(p), Named(p)} \ {{}}}

\* The slots whose partition or cache is a null pointer.
NullSlots == {i \in Slot : slotFs[i] = NoPart \/ bound[slotFs[i]] = 0}

UmountFaults(p) ==
    /\ MayUmount(p)
    /\ UmountSlots(p) \cap NullSlots # {}
    /\ Fault
    /\ UNCHANGED careful

\* ext4_umount returns ENODEV: another partition took the slot.
UmountNoSlot(p) ==
    /\ MayUmount(p)
    /\ Named(p) = {}
    /\ UNCHANGED vars

\* Write-back mode of partition b is left; a flush that fails is not noticed.
LeavesWriteBack(b) ==
    /\ writeBack' = [writeBack EXCEPT ![b] = IF @ > 0 THEN @ - 1 ELSE 0]
    /\ \/ writeBack[b] > 1 /\ UNCHANGED <<pending, failed>>
       \/ writeBack[b] <= 1 /\ Reachable(DiskOf[b]) /\ pending' = pending \ {b}
          /\ UNCHANGED failed
       \/ writeBack[b] <= 1 /\ b \in pending /\ failed' = failed \cup {b}
          /\ UNCHANGED pending

\* Mutant: the call does not reach the cache.
WriteBackOffSkipped(p) == UNCHANGED <<writeBack, pending, failed>>

\* ext4_cache_write_back(0): nothing happens when no mounted slot is found.
WriteBackOff(p) ==
    \/ Mounts(p) = {} /\ UNCHANGED <<writeBack, pending, failed>>
    \/ Mounts(p) # {} /\ LeavesWriteBack(slotFs[Min(Mounts(p))])

\* The calls up to the write of the superblock, which may go through.
UmountStarts(p) ==
    /\ MayUmount(p)
    /\ Named(p) # {} /\ UmountSlots(p) \cap NullSlots = {}
    /\ WriteBackOff(p)

\* ext4_fs_fini fails: the slot is free again, but cache and reference stay.
UmountNotWritten(p) ==
    /\ UmountStarts(p)
    /\ slotMounted' = slotMounted \ {Min(Named(p))}
    /\ UNCHANGED <<driveVars, claimed, devices, slotName, slotFs, live, bound, phRef, sb,
                   leaked, lost, umounting, careful, faulted>>

UmountWritten(p) ==
    /\ UmountStarts(p)
    /\ LET b == slotFs[Min(Named(p))]
       IN  /\ phRef[DiskOf[b]] > 0 /\ Reachable(DiskOf[b])
           /\ sb' = [sb EXCEPT ![b] = "valid"]
    /\ umounting' = Min(Named(p))
    /\ UNCHANGED <<driveVars, claimed, devices, slotVars, bound, phRef, leaked, lost, careful,
                   faulted>>

\* Mutant: the reference is given back, and the interface closed with it.
CloseAll(d) == phRef' = [phRef EXCEPT ![d] = 0]

\* ext4_block_fini.
Close(d) == phRef' = [phRef EXCEPT ![d] = IF @ > 0 THEN @ - 1 ELSE 0]

\* The second half: buffers that cannot be written are dropped all the same.
UmountDone ==
    LET b == slotFs[umounting]
        c == bound[b]
        rest == {q \in pending : bound[q] = c /\ c \in live}
    IN  /\ umounting # 0
        /\ pending' = pending \ rest
        /\ \/ Reachable(DiskOf[b]) /\ UNCHANGED <<failed, lost>>
           \/ rest # {} /\ failed' = failed \cup rest /\ lost' = lost \cup rest
        /\ live' = live \ {c}
        /\ Close(DiskOf[b])
        /\ slotMounted' = slotMounted \ {umounting}
        /\ claimed' = claimed \ {slotName[umounting]}
        /\ umounting' = 0
        /\ UNCHANGED <<driveVars, devices, slotName, slotFs, bound, writeBack, sb, leaked,
                       careful, faulted>>

\* The power goes, between two calls or in the middle of an unmount.
PowerCut ==
    /\ known' = {} /\ available' = {} /\ claimed' = {} /\ devices' = {}
    /\ slotName' = [i \in Slot |-> NoPart]
    /\ slotMounted' = {} /\ live' = {}
    /\ slotFs' = [i \in Slot |-> NoPart]
    /\ bound' = [p \in Part |-> 0]
    /\ writeBack' = [p \in Part |-> 0]
    /\ phRef' = [d \in Disk |-> 0]
    /\ pending' = {}
    /\ umounting' = 0 /\ faulted' = FALSE
    /\ lost' = lost \cup pending
    /\ UNCHANGED <<plugged, sb, failed, leaked, careful>>

-----------------------------------------------------------------------------
Drive(d) ==
    \/ InitBlockDeviceKnown(d)
    \/ InitBlockDevice(d)
    \/ InitBlockDeviceGone(d)
    \/ Plug(d)
    \/ Unplug(d)

Begin(p) ==
    \/ BeginUnregistered(p)
    \/ BeginNoSlot(p)
    \/ BeginMarked(p)
    \/ BeginNullDevice(p)
    \/ BeginNotOpened(p)
    \/ BeginNotRead(p)
    \/ BeginMounted(p)

Umount(p) ==
    \/ UmountFaults(p)
    \/ UmountNoSlot(p)
    \/ UmountNotWritten(p)
    \/ UmountWritten(p)

Next ==
    \/ /\ ~faulted /\ umounting = 0
       /\ \/ \E d \in Disk : Drive(d)
          \/ \E p \in Part : Begin(p) \/ Write(p) \/ Umount(p)
    \/ ~faulted /\ UmountDone
    \/ PowerCut

Spec == Init /\ [][Next]_vars

-----------------------------------------------------------------------------
(***************************************************************************)
(* Properties.                                                             *)
(***************************************************************************)

\* No call follows a null fs.bdev or a null cache, or uses a cache that was
\* given back, as long as the sketch is careful: whatever failed before, and
\* whatever slots failed calls have left behind.
NeverFaults == careful => ~faulted

\* A partition begin has mounted can be used until it is unmounted: its drive
\* is open, its slot is its own, and so is the live cache it is bound to,
\* whatever happens to other partitions of the drive and to their slots, as
\* long as the sketch is careful.
MountedStaysUsable ==
    careful => \A p \in claimed : Mounts(p) # {} =>
        LET i == Min(Mounts(p))
        IN  /\ slotFs[i] = p /\ bound[p] = i /\ i \in live
            /\ phRef[DiskOf[p]] > 0

\* The caches that are live on a drive.
LiveOn(d) == {i \in live : bound[slotFs[i]] = i /\ DiskOf[slotFs[i]] = d}

\* The counter of a drive covers the caches that are live on it, so closing
\* one partition never closes the drive under another, whatever failed and
\* whatever slots failed calls have left behind, as long as the sketch is
\* careful.
PhRefCovers == careful => \A d \in Disk : Cardinality(LiveOn(d)) <= phRef[d]

\* The partitions where a write failed or a call left write-back mode on.
Excused == failed \cup leaked

\* A partition whose cached data was lost, or would be by a power cut now, carries
\* the error flag, so the next mount can tell, unless a write failed since it was
\* mounted or a file call failed and left write-back mode on: whatever happened
\* to other partitions of the drive, to the slots and to earlier mounts, and at
\* whatever point of an unmount the power went. The sketch was careful in every
\* session so far.
LossIsFlagged ==
    careful => \A p \in (pending \cup lost) \ Excused : sb[p] = "error"

\* "last umount error: superblock fs_error flag" (ext4_fs.c:106): unless a write
\* failed, a partition whose cached data was lost carries the flag. After a call that
\* left write-back mode on, the unmount marks the superblock valid over dirty
\* buffers.
LostMeansError ==
    careful => \A p \in lost \ failed : sb[p] = "error"

\* "Helper function to clear a bd_list[] entry. (device was disconnected)."
\* (ext4FS.cpp:331): begin says that there is no device behind an entry that was
\* cleared.
ClearedIsRefused ==
    [][\A p \in Part : Begin(p) /\ DiskOf[p] \notin known /\ Mounts(p) = {}
            => ~faulted']_vars

\* "Mount done flag." (ext4.c:77): a slot that is marked as mounted is mounted.
MountedMeansDone ==
    umounting = 0 => \A i \in slotMounted : i \in live

\* "Cleanly unmount amd unregister partition" (ext4FS.cpp:513): a partition that
\* was unmounted is not registered, so that begin can mount it again.
UmountUnregisters ==
    [][\A p \in claimed \ claimed' : UmountDone => p \notin devices']_vars
=============================================================================

-------------------------- MODULE MountTableProofs --------------------------
(***************************************************************************)
(* Proofs about MountTable, for every set of drives and partitions and any *)
(* size of the two tables. The inductive invariant says, for a careful     *)
(* sketch, that a name leads to one slot, that the slot of a claimed       *)
(* partition is its own and its cache is bound to it, and where its dirty  *)
(* buffers and its error flag are between begin and the end of the unmount.*)
(***************************************************************************)
EXTENDS MountTable, FiniteSetTheorems, WellFoundedInduction, TLAPS

-----------------------------------------------------------------------------
(***************************************************************************)
(* The first slot of a set.                                                *)
(***************************************************************************)

\* A set of slots that is not empty has a first one, and Min is it: of the sets of
\* slots of S below one of S, take a smallest.
LEMMA MinInSet ==
    ASSUME NEW S \in SUBSET Slot, S # {}
    PROVE  Min(S) \in S
  <1> DEFINE below(y) == {z \in S : z < y}
             T == {below(y) : y \in S}
  <1>0. S \subseteq Nat
    BY PartAssumption DEF Slot
  <1>1. IsFiniteSet(S)
    <2>1. IsFiniteSet(Slot)
      BY FS_Interval, PartAssumption DEF Slot
    <2> QED
      BY <2>1, FS_Subset
  <1>2. T \subseteq FiniteSubsetsOf(S)
    BY <1>1, FS_Subset DEF FiniteSubsetsOf
  <1>3. T # {}
    OBVIOUS
  <1>4. PICK U \in T : \A V \in T : ~ (<<V, U>> \in StrictSubsetOrdering(S))
    <2>1. IsWellFoundedOn(StrictSubsetOrdering(S), FiniteSubsetsOf(S))
      BY FS_StrictSubsetOrderingWellFounded
    <2> HIDE DEF T
    <2> QED
      BY <1>2, <1>3, <2>1, WFMin
  <1>5. PICK y \in S : U = below(y)
    OBVIOUS
  <1>6. \A z \in S : ~ (z < y)
    <2> SUFFICES ASSUME NEW z \in S, z < y
                 PROVE  FALSE
      OBVIOUS
    <2>1. below(z) \subseteq below(y)
      <3>1. \A w \in S : w < z => w < y
        BY <1>0
      <3> QED
        BY <3>1
    <2>3. z \in below(y) /\ z \notin below(z)
      BY <1>0
    <2>2. <<below(z), below(y)>> \in StrictSubsetOrdering(S)
      BY <2>1, <2>3 DEF StrictSubsetOrdering
    <2> QED
      BY <1>4, <1>5, <2>2
  <1>7. \E x \in S : \A z \in S : x <= z
    BY <1>0, <1>6
  <1> QED
    BY <1>7 DEF Min

-----------------------------------------------------------------------------
(***************************************************************************)
(* The types.                                                              *)
(***************************************************************************)

Types == TypeOK /\ IsFiniteSet(devices)

\* The slots a name is found in are slots.
LEMMA SlotSets ==
    ASSUME NEW p
    PROVE  Named(p) \subseteq Slot /\ Mounts(p) \subseteq Slot /\ Stops(p) \subseteq Slot
  BY DEF Named, Mounts, Stops

\* Registering a partition leaves the table of devices within its size.
LEMMA RegisterOne ==
    ASSUME Types, NEW p \in Part, Registers(p), devices' = devices \cup {p}
    PROVE  /\ devices' \subseteq Part /\ IsFiniteSet(devices')
           /\ Cardinality(devices') <= NDevices
  <1>1. Cardinality(devices) \in Nat /\ Cardinality(devices) < NDevices
    BY FS_CardinalityType DEF Types, Registers
  <1>2. IsFiniteSet(devices') /\ Cardinality(devices') = Cardinality(devices) + 1
    BY <1>1, FS_AddElement DEF Types, Registers
  <1>3. NDevices \in Nat
    BY PartAssumption
  <1>4. devices' \subseteq Part
    BY DEF Types, TypeOK
  <1> QED
    BY <1>1, <1>2, <1>3, <1>4

\* The tables of a session that begins.
LEMMA EmptyTable == IsFiniteSet({}) /\ Cardinality({}) <= NDevices
  <1>1. Cardinality({}) = 0 /\ NDevices \in Nat
    BY FS_EmptySet, PartAssumption
  <1> QED
    BY <1>1, FS_EmptySet

\* The types hold at the start.
LEMMA InitTypes ==
    ASSUME Init
    PROVE  Types
  <1>1. devices \subseteq Part /\ IsFiniteSet(devices) /\ Cardinality(devices) <= NDevices
    BY EmptyTable DEF Init
  <1>2. /\ known \subseteq Disk /\ available \subseteq Part /\ claimed \subseteq Part
        /\ slotMounted \subseteq Slot /\ live \subseteq Slot /\ plugged \subseteq Disk
        /\ pending \subseteq Part /\ failed \subseteq Part /\ lost \subseteq Part
        /\ leaked \subseteq Part
    BY DEF Init
  <1>3. /\ slotName \in [Slot -> Part \cup {NoPart}] /\ slotFs \in [Slot -> Part \cup {NoPart}]
        /\ bound \in [Part -> Slot \cup {0}] /\ writeBack \in [Part -> Nat]
        /\ phRef \in [Disk -> Nat] /\ sb \in [Part -> {"valid", "error"}]
    BY DEF Init
  <1>4. umounting \in Slot \cup {0} /\ careful \in BOOLEAN /\ faulted \in BOOLEAN
    BY DEF Init
  <1> QED
    BY <1>1, <1>2, <1>3, <1>4 DEF Types, TypeOK

\* Drives that are found, scanned, plugged and removed keep the types.
LEMMA DriveTypes ==
    ASSUME Types, NEW d \in Disk, Drive(d)
    PROVE  Types'
  <1> USE DEF Types, TypeOK
  <1>1. CASE InitBlockDeviceKnown(d)
    BY <1>1 DEF InitBlockDeviceKnown, vars, driveVars, slotVars, dataVars
  <1>2. CASE InitBlockDevice(d)
    BY <1>2 DEF InitBlockDevice, ScanMbr, On, slotVars, dataVars
  <1>3. CASE InitBlockDeviceGone(d)
    BY <1>3 DEF InitBlockDeviceGone, slotVars, dataVars
  <1>4. CASE Plug(d)
    BY <1>4 DEF Plug, slotVars, dataVars
  <1>5. CASE Unplug(d)
    BY <1>5 DEF Unplug, slotVars, dataVars
  <1> QED
    BY <1>1, <1>2, <1>3, <1>4, <1>5 DEF Drive

\* Every way a begin can go keeps the types.
LEMMA BeginTypes ==
    ASSUME Types, NEW p \in Part, Begin(p)
    PROVE  Types'
  <1>1. CASE BeginUnregistered(p)
    BY <1>1 DEF BeginUnregistered, driveVars, slotVars, dataVars, Types, TypeOK
  <1>2. CASE BeginNoSlot(p)
    BY <1>2 DEF BeginNoSlot, vars, driveVars, slotVars, dataVars, Types, TypeOK
  <1>3. CASE BeginMarked(p)
    <2> DEFINE i == Min(Stops(p))
    <2>1. i \in Slot
      BY <1>3, SlotSets, MinInSet DEF BeginMarked
    <2>2. CASE slotFs[i] = NoPart
      BY <1>3, <2>2 DEF BeginMarked, Fault, driveVars, slotVars, dataVars, Types, TypeOK
    <2>3. CASE slotFs[i] # NoPart
      <3>1. slotFs[i] \in Part
        BY <2>1, <2>3 DEF Types, TypeOK
      <3> HIDE DEF i
      <3>2. writeBack' \in [Part -> Nat]
        BY <1>3, <2>3, <3>1 DEF BeginMarked, Types, TypeOK, i
      <3>3. IsFiniteSet(devices') /\ devices' \subseteq Part /\ Cardinality(devices') <= NDevices
        BY <1>3, <2>3, RegisterOne DEF BeginMarked, i
      <3> QED
        BY <1>3, <2>3, <3>2, <3>3
        DEF BeginMarked, driveVars, slotVars, dataVars, Types, TypeOK, i
    <2> QED
      BY <2>2, <2>3
  <1>7. CASE BeginNullDevice(p)
    BY <1>7 DEF BeginNullDevice, Fault, driveVars, slotVars, dataVars, Types, TypeOK
  <1>4. CASE BeginNotOpened(p)
    BY <1>4 DEF BeginNotOpened, Takes, driveVars, dataVars, Types, TypeOK
  <1>5. CASE BeginNotRead(p)
    BY <1>5 DEF BeginNotRead, Takes, driveVars, dataVars, Types, TypeOK
  <1>6. CASE BeginMounted(p)
    <2>1. IsFiniteSet(devices') /\ devices' \subseteq Part /\ Cardinality(devices') <= NDevices
      BY <1>6, RegisterOne DEF BeginMounted, Takes
    <2>2. DiskOf[p] \in Disk
      BY PartAssumption
    <2> QED
      BY <1>6, <2>1, <2>2 DEF BeginMounted, Takes, driveVars, Types, TypeOK
  <1> QED
    BY <1>1, <1>2, <1>3, <1>4, <1>5, <1>6, <1>7 DEF Begin

\* A write keeps the types, also one that ends in a fault.
LEMMA WriteTypes ==
    ASSUME Types, NEW p \in Part, Write(p)
    PROVE  Types'
  <1> DEFINE b == slotFs[Min(Mounts(p))]
  <1>1. b \in Part \cup {NoPart}
    BY SlotSets, MinInSet DEF Write, Types, TypeOK
  <1>2. CASE b = NoPart
    BY <1>2 DEF Write, Fault, driveVars, slotVars, dataVars, Types, TypeOK
  <1>3. CASE b # NoPart
    <2> HIDE DEF b
    <2>1. CASE Dirties(b)
      <3>1. /\ writeBack' \in [Part -> Nat]
            /\ pending' \subseteq Part /\ failed' \subseteq Part /\ leaked' \subseteq Part
        BY <1>1, <1>3, <2>1 DEF Dirties, Types, TypeOK
      <3> QED
        BY <1>1, <1>3, <2>1, <3>1
        DEF Write, Fault, driveVars, slotVars, dataVars, Types, TypeOK, b
    <2>2. CASE ~Dirties(b)
      BY <1>1, <1>3, <2>2 DEF Write, Fault, driveVars, slotVars, dataVars, Types, TypeOK, b
    <2> QED
      BY <2>1, <2>2
  <1> QED
    BY <1>2, <1>3

\* Leaving write-back mode keeps the types of what it changes.
LEMMA WriteBackOffTypes ==
    ASSUME Types, NEW p, WriteBackOff(p)
    PROVE  /\ writeBack' \in [Part -> Nat]
           /\ pending' \subseteq Part /\ failed' \subseteq Part
  BY DEF WriteBackOff, LeavesWriteBack, Types, TypeOK

\* The first half of an unmount keeps the types.
LEMMA UmountTypes ==
    ASSUME Types, NEW p \in Part, Umount(p)
    PROVE  Types'
  <1>1. CASE UmountFaults(p)
    BY <1>1 DEF UmountFaults, Fault, driveVars, slotVars, dataVars, Types, TypeOK
  <1>2. CASE UmountNoSlot(p)
    BY <1>2 DEF UmountNoSlot, vars, driveVars, slotVars, dataVars, Types, TypeOK
  <1>3. CASE UmountNotWritten(p)
    BY <1>3, WriteBackOffTypes DEF UmountNotWritten, UmountStarts, driveVars, Types, TypeOK
  <1>4. CASE UmountWritten(p)
    <2>1. Min(Named(p)) \in Slot
      BY <1>4, SlotSets, MinInSet DEF UmountWritten, UmountStarts
    <2> QED
      BY <1>4, <2>1, WriteBackOffTypes
      DEF UmountWritten, UmountStarts, driveVars, slotVars, Types, TypeOK
  <1> QED
    BY <1>1, <1>2, <1>3, <1>4 DEF Umount

\* The second half keeps them; a counter never goes below zero.
LEMMA UmountDoneTypes ==
    ASSUME Types, UmountDone
    PROVE  Types'
  <1>1. phRef' \in [Disk -> Nat]
    <2> DEFINE d == DiskOf[slotFs[umounting]]
               n == IF phRef[d] > 0 THEN phRef[d] - 1 ELSE 0
    <2>1. phRef' = [phRef EXCEPT ![d] = n]
      BY DEF UmountDone, Close
    <2>2. d \in Disk => n \in Nat
      BY DEF Types, TypeOK
    <2> HIDE DEF n, d
    <2> QED
      BY <2>1, <2>2 DEF Types, TypeOK
  <1>2. pending' \subseteq Part /\ failed' \subseteq Part /\ lost' \subseteq Part
    <2> DEFINE rest == {q \in pending : bound[q] = bound[slotFs[umounting]]
                                       /\ bound[slotFs[umounting]] \in live}
    <2>1. rest \subseteq Part /\ pending' = pending \ rest
      BY DEF UmountDone, Types, TypeOK
    <2>2. \/ UNCHANGED <<failed, lost>>
          \/ failed' = failed \cup rest /\ lost' = lost \cup rest
      BY DEF UmountDone
    <2> HIDE DEF rest
    <2> QED
      BY <2>1, <2>2 DEF Types, TypeOK
  <1>3. live' \subseteq Slot /\ slotMounted' \subseteq Slot /\ claimed' \subseteq Part
    BY DEF UmountDone, Types, TypeOK
  <1>4. /\ umounting' = 0
        /\ UNCHANGED <<driveVars, devices, slotName, slotFs, bound, writeBack, sb, leaked,
                       careful, faulted>>
    BY DEF UmountDone
  <1> QED
    BY <1>1, <1>2, <1>3, <1>4 DEF driveVars, Types, TypeOK

\* A power cut empties the tables.
LEMMA PowerCutTypes ==
    ASSUME Types, PowerCut
    PROVE  Types'
  BY EmptyTable DEF PowerCut, Types, TypeOK

\* Every variable keeps its type, whatever the sketch does: the tables of
\* ext4.c (s_bdevices, s_mp) hold partitions and never overflow, and the counter
\* of a drive never goes below zero.
THEOREM TypesKept == Spec => []TypeOK
  <1>1. ASSUME Types, [Next]_vars
        PROVE  Types'
    <2>1. CASE UNCHANGED vars
      BY <1>1, <2>1 DEF vars, driveVars, slotVars, dataVars, Types, TypeOK
    <2> QED
      BY <1>1, <2>1, DriveTypes, BeginTypes, WriteTypes, UmountTypes, UmountDoneTypes,
         PowerCutTypes DEF Next
  <1>2. Types => TypeOK
    BY DEF Types
  <1> QED
    BY <1>1, <1>2, InitTypes, PTL DEF Spec

-----------------------------------------------------------------------------
(***************************************************************************)
(* The inductive invariant of a careful sketch.                            *)
(***************************************************************************)

\* No two slots have the name of one partition.
NamesApart ==
    \A i, j \in Slot : slotName[i] = slotName[j] /\ slotName[i] \in Part => i = j

\* A partition that is not registered has not been mounted in this session; a
\* slot may have its name because a begin failed, and is then marked as mounted.
FreshUnused ==
    \A p \in Part \ devices :
        /\ bound[p] = 0 /\ writeBack[p] = 0 /\ p \notin pending
        /\ \A i \in Slot : slotName[i] = p => i \in slotMounted

\* The slot of a claimed partition, where it still has one, is its own.
OwnCache ==
    \A i \in Slot : slotName[i] \in claimed =>
        slotFs[i] = slotName[i] /\ bound[slotName[i]] = i /\ i \in live

LiveHasPart == \A i \in live : slotFs[i] \in Part

UmountsClaimed == umounting # 0 => slotName[umounting] \in claimed

\* Write-back mode is entered once, unless a call left it on.
WriteBackOnce == \A p \in Part : writeBack[p] <= 1 \/ p \in leaked

\* After an unmount that failed, buffers are dirty only because a write failed or
\* because write-back mode was left on.
FlushedOrFailed ==
    \A i \in Slot :
        slotName[i] \in claimed \cap pending /\ i \notin slotMounted => slotName[i] \in Excused

\* Nothing a partition wrote is lost while it has its slot.
KeptOrFailed ==
    \A i \in Slot : slotName[i] \in claimed \cap lost => slotName[i] \in Excused

\* The error flag is on the device from begin to the end of the unmount.
ErrorWhileMounted ==
    \A p \in claimed : (umounting # 0 => slotName[umounting] # p) => sb[p] = "error"

Counted == \A d \in Disk : Cardinality(LiveOn(d)) <= phRef[d]

Flagged == \A p \in (pending \cup lost) \ Excused : sb[p] = "error"

Tables ==
    /\ claimed \subseteq devices
    /\ NamesApart /\ FreshUnused /\ OwnCache /\ LiveHasPart /\ UmountsClaimed

Data == WriteBackOnce /\ FlushedOrFailed /\ KeptOrFailed /\ ErrorWhileMounted /\ Flagged

Session == ~faulted /\ Tables /\ Data /\ Counted

IInv == Types /\ (careful => Session)

-----------------------------------------------------------------------------
(***************************************************************************)
(* Slots and counters.                                                     *)
(***************************************************************************)

\* In a careful session a name leads to one slot.
LEMMA OneSlot ==
    ASSUME Types, NamesApart, NEW p \in Part, Named(p) # {}
    PROVE  /\ Min(Named(p)) \in Slot /\ slotName[Min(Named(p))] = p
           /\ Named(p) = {Min(Named(p))}
           /\ Mounts(p) # {} => Min(Mounts(p)) = Min(Named(p)) /\ Min(Named(p)) \in slotMounted
           /\ Mounts(p) = {} => Min(Named(p)) \notin slotMounted
  <1>1. Min(Named(p)) \in Named(p)
    BY SlotSets, MinInSet
  <1>2. Named(p) = {Min(Named(p))}
    BY <1>1 DEF Named, NamesApart
  <1>3. ASSUME Mounts(p) # {}
        PROVE  Min(Mounts(p)) \in Mounts(p)
    BY <1>3, SlotSets, MinInSet
  <1>4. Mounts(p) = Named(p) \cap slotMounted
    BY DEF Mounts
  <1>5. Min(Named(p)) \in Slot /\ slotName[Min(Named(p))] = p
    BY <1>1 DEF Named
  <1> QED
    BY <1>1, <1>2, <1>3, <1>4, <1>5

\* The slots with a live cache on a drive can be counted.
LEMMA LiveOnFinite ==
    ASSUME NEW S \in SUBSET Slot
    PROVE  IsFiniteSet(S) /\ Cardinality(S) \in Nat
  <1>1. IsFiniteSet(Slot)
    BY FS_Interval, PartAssumption DEF Slot
  <1> QED
    BY <1>1, FS_Subset, FS_CardinalityType

\* One slot more counts for at most one.
LEMMA CountOneMore ==
    ASSUME NEW S \in SUBSET Slot, NEW i \in Slot
    PROVE  /\ IsFiniteSet(S \cup {i})
           /\ Cardinality(S \cup {i}) <= Cardinality(S) + 1
           /\ Cardinality(S \cup {i}) \in Nat
  <1>1. IsFiniteSet(S) /\ Cardinality(S) \in Nat
    BY LiveOnFinite
  <1>2. IsFiniteSet(S \cup {i}) /\ Cardinality(S \cup {i}) \in Nat
    <2>1. S \cup {i} \in SUBSET Slot
      OBVIOUS
    <2> QED
      BY <2>1, LiveOnFinite
  <1>3. Cardinality(S \cup {i}) = IF i \in S THEN Cardinality(S) ELSE Cardinality(S) + 1
    BY <1>1, FS_AddElement
  <1> QED
    BY <1>1, <1>2, <1>3

\* Losing caches keeps the counters covering the rest.
LEMMA CountedLess ==
    ASSUME Types, Types', Counted, phRef' = phRef,
           \A d \in Disk : LiveOn(d)' \subseteq LiveOn(d)
    PROVE  Counted'
  <1> SUFFICES ASSUME NEW d \in Disk
               PROVE  Cardinality(LiveOn(d)') <= phRef[d]
    BY DEF Counted
  <1>1. LiveOn(d) \subseteq Slot
    BY DEF LiveOn, Types, TypeOK
  <1>2. Cardinality(LiveOn(d)') <= Cardinality(LiveOn(d))
    BY <1>1, LiveOnFinite, FS_Subset
  <1>3. Cardinality(LiveOn(d)) <= phRef[d] /\ phRef[d] \in Nat
    BY DEF Counted, Types, TypeOK
  <1>4. Cardinality(LiveOn(d)') \in Nat /\ Cardinality(LiveOn(d)) \in Nat
    <2>1. LiveOn(d)' \subseteq Slot
      BY <1>1
    <2> QED
      BY <1>1, <2>1, LiveOnFinite
  <1> QED
    BY <1>2, <1>3, <1>4

-----------------------------------------------------------------------------
(***************************************************************************)
(* The steps of a careful sketch.                                          *)
(***************************************************************************)

\* A scan binds no cache to the partitions of a drive, none of which is claimed.
LEMMA DriveKeeps ==
    ASSUME Types, Session, umounting = 0, NEW d \in Disk, Drive(d), careful'
    PROVE  Session'
  <1>0. Types'
    BY DriveTypes
  <1>1. /\ UNCHANGED <<claimed, devices, slotVars, phRef, dataVars, umounting, faulted>>
        /\ \/ UNCHANGED <<bound, writeBack>>
           \/ ScanMbr(d) /\ LeftAlone(d)
    BY DEF Drive, InitBlockDeviceKnown, InitBlockDevice, InitBlockDeviceGone, Plug, Unplug,
           vars, driveVars
  <1>2. CASE UNCHANGED <<bound, writeBack>>
    <2>1. Tables'
      BY <1>1, <1>2 DEF Session, Tables, NamesApart, FreshUnused, OwnCache, LiveHasPart, UmountsClaimed,
             slotVars, dataVars
    <2>2. Data'
      BY <1>1, <1>2 DEF Session, Data, WriteBackOnce, FlushedOrFailed, KeptOrFailed, ErrorWhileMounted,
             Flagged, Excused, slotVars, dataVars
    <2>3. \A e \in Disk : LiveOn(e)' = LiveOn(e)
      BY <1>1, <1>2 DEF LiveOn, slotVars
    <2>4. Counted'
      BY <1>0, <1>1, <2>3, CountedLess DEF Session
    <2> QED
      BY <1>1, <2>1, <2>2, <2>4 DEF Session
  <1>3. CASE ScanMbr(d) /\ LeftAlone(d)
    <2>0. \A p \in Part : /\ bound'[p] \in {0, bound[p]}
                          /\ writeBack'[p] \in {0, writeBack[p]}
                          /\ p \in claimed => bound'[p] = bound[p]
      BY <1>3 DEF ScanMbr, LeftAlone, On
    <2>1. Tables'
      BY <1>1, <2>0 DEF Session, Tables, NamesApart, FreshUnused, OwnCache, LiveHasPart, UmountsClaimed,
             slotVars, dataVars, Types, TypeOK
    <2>2. Data'
      <3>1. WriteBackOnce'
        BY <1>1, <2>0 DEF Session, Data, WriteBackOnce, dataVars, Types, TypeOK
      <3> QED
        BY <1>1, <3>1 DEF Session, Data, FlushedOrFailed, KeptOrFailed, ErrorWhileMounted,
             Flagged, Excused, slotVars, dataVars
    <2>3. \A e \in Disk : LiveOn(e)' \subseteq LiveOn(e)
      <3> SUFFICES ASSUME NEW e \in Disk, NEW i \in LiveOn(e)'
                   PROVE  i \in LiveOn(e)
        OBVIOUS
      <3>1. i \in live /\ slotFs[i] \in Part /\ i \in Slot
        BY <1>1 DEF LiveOn, slotVars, Session, Tables, LiveHasPart, Types, TypeOK
      <3>2. i # 0
        BY <3>1, PartAssumption DEF Slot
      <3> QED
        BY <1>1, <2>0, <3>1, <3>2 DEF LiveOn, slotVars
    <2>4. Counted'
      BY <1>0, <1>1, <2>3, CountedLess DEF Session
    <2> QED
      BY <1>1, <2>1, <2>2, <2>4 DEF Session
  <1> QED
    BY <1>1, <1>2, <1>3

\* The slot a begin takes: nobody's, and the only one with the name.
LEMMA Taken ==
    ASSUME Types, Session, NEW p \in Part, NEW i \in Slot, Takes(p, i), careful'
    PROVE  /\ p \notin devices /\ p \notin claimed /\ p \notin pending
           /\ bound[p] = 0 /\ writeBack[p] = 0
           /\ slotName' = [slotName EXCEPT ![i] = p]
           /\ slotMounted' = slotMounted \cup {i}
           /\ \A j \in Slot : slotName[j] # p
           /\ NamesApart'
  <1>1. /\ p \notin devices /\ Mounts(p) = {}
        /\ slotName' = [slotName EXCEPT ![i] = p]
        /\ slotMounted' = slotMounted \cup {i}
    BY DEF Takes, Registers
  <1>2. /\ p \notin claimed /\ p \notin pending /\ bound[p] = 0 /\ writeBack[p] = 0
        /\ \A j \in Slot : slotName[j] = p => j \in slotMounted
    BY <1>1 DEF Session, Tables, FreshUnused
  <1>3. \A j \in Slot : slotName[j] # p
    BY <1>1, <1>2 DEF Mounts, Named
  <1>4. NamesApart'
    BY <1>1, <1>3 DEF Session, Tables, NamesApart, Types, TypeOK
  <1> QED
    BY <1>1, <1>2, <1>3, <1>4

\* A begin of a partition that is registered only gives up its claim.
LEMMA BeginUnregisteredKeeps ==
    ASSUME Types, Session, umounting = 0, NEW p \in Part, BeginUnregistered(p), careful'
    PROVE  Session'
  <1>0. Types'
    BY BeginTypes DEF Begin
  <1>1. /\ claimed' = claimed \ {p}
        /\ UNCHANGED <<devices, slotVars, bound, writeBack, phRef, dataVars, umounting, faulted>>
    BY DEF BeginUnregistered
  <1>2. Tables'
    BY <1>1 DEF Session, Tables, NamesApart, FreshUnused, OwnCache, LiveHasPart, UmountsClaimed,
           slotVars, dataVars
  <1>3. Data'
    BY <1>1 DEF Session, Data, WriteBackOnce, FlushedOrFailed, KeptOrFailed, ErrorWhileMounted,
           Flagged, Excused, slotVars, dataVars
  <1>4. Counted'
    BY <1>0, <1>1, CountedLess DEF Session, LiveOn, slotVars
  <1> QED
    BY <1>1, <1>2, <1>3, <1>4 DEF Session

\* A begin that fails at the superblock leaves the partition in the slot,
\* that fails before does not.
LEMMA BeginFailedKeeps ==
    ASSUME Types, Session, umounting = 0, NEW p \in Part, careful',
           BeginNotOpened(p) \/ BeginNotRead(p)
    PROVE  Session'
  <1>0. Types'
    BY BeginTypes DEF Begin
  <1>1. PICK i \in Slot :
           /\ Takes(p, i)
           /\ slotFs' = slotFs \/ slotFs' = [slotFs EXCEPT ![i] = p]
    BY DEF BeginNotOpened, BeginNotRead
  <1>2. UNCHANGED <<claimed, devices, live, bound, writeBack, phRef, dataVars, umounting, faulted>>
    BY DEF BeginNotOpened, BeginNotRead
  <1>3. /\ p \notin devices /\ p \notin claimed /\ bound[p] = 0
        /\ slotName' = [slotName EXCEPT ![i] = p]
        /\ slotMounted' = slotMounted \cup {i}
        /\ NamesApart'
    BY <1>1, Taken
  <1>4. Tables'
    <2>1. claimed' \subseteq devices'
      BY <1>2 DEF Session, Tables
    <2>2. FreshUnused'
      BY <1>2, <1>3 DEF Session, Tables, FreshUnused, Types, TypeOK, dataVars
    <2>3. OwnCache'
      BY <1>1, <1>2, <1>3 DEF Session, Tables, OwnCache, Types, TypeOK
    <2>4. LiveHasPart'
      BY <1>1, <1>2 DEF Session, Tables, LiveHasPart, Types, TypeOK
    <2>5. UmountsClaimed'
      BY <1>2 DEF UmountsClaimed
    <2> QED
      BY <1>3, <2>1, <2>2, <2>3, <2>4, <2>5 DEF Tables
  <1>5. Data'
    BY <1>2, <1>3 DEF Session, Data, WriteBackOnce, FlushedOrFailed, KeptOrFailed,
       ErrorWhileMounted, Flagged, Excused, dataVars, Types, TypeOK
  <1>6. Counted'
    <2>1. i # 0
      BY PartAssumption DEF Slot
    <2>2. \A d \in Disk : LiveOn(d)' \subseteq LiveOn(d)
      BY <1>1, <1>2, <1>3, <2>1 DEF LiveOn, Types, TypeOK
    <2> QED
      BY <1>0, <1>2, <2>2, CountedLess DEF Session
  <1> QED
    BY <1>2, <1>4, <1>5, <1>6 DEF Session

\* A mount takes one reference for the one cache it sets up. A cache that it sets up
\* anew belongs to a partition that lost its slot, so nothing a claimed one wrote
\* goes with it.
LEMMA BeginMountedKeeps ==
    ASSUME Types, Session, umounting = 0, NEW p \in Part, BeginMounted(p), careful'
    PROVE  Session'
  <1>0. Types'
    BY BeginTypes DEF Begin
  <1>1. PICK i \in Slot :
           /\ Takes(p, i)
           /\ slotFs' = [slotFs EXCEPT ![i] = p]
           /\ live' = live \cup {i}
           /\ bound' = [bound EXCEPT ![p] = i]
           /\ pending' = pending \ {q \in Part : bound[q] = i}
           /\ lost' = (lost \cup {q \in pending : bound[q] = i}) \ {p}
    BY DEF BeginMounted
  <1>2. /\ phRef' = [phRef EXCEPT ![DiskOf[p]] = @ + 1]
        /\ sb' = [sb EXCEPT ![p] = "error"]
        /\ devices' = devices \cup {p}
        /\ claimed' = claimed \cup {p}
        /\ writeBack' = [writeBack EXCEPT ![p] = @ + 1]
        /\ failed' = failed \ {p} /\ leaked' = leaked \ {p}
        /\ UNCHANGED <<umounting, faulted>>
    BY DEF BeginMounted
  <1>3. /\ p \notin devices /\ p \notin claimed /\ p \notin pending
        /\ bound[p] = 0 /\ writeBack[p] = 0
        /\ slotName' = [slotName EXCEPT ![i] = p]
        /\ slotMounted' = slotMounted \cup {i}
        /\ \A j \in Slot : slotName[j] # p
        /\ NamesApart'
    BY <1>1, Taken
  <1>4. Tables'
    <2>1. claimed' \subseteq devices'
      BY <1>2 DEF Session, Tables
    <2>2. FreshUnused'
      BY <1>1, <1>2, <1>3 DEF Session, Tables, FreshUnused, Types, TypeOK
    <2>3. OwnCache'
      BY <1>1, <1>2, <1>3 DEF Session, Tables, OwnCache, Types, TypeOK
    <2>4. LiveHasPart'
      BY <1>1, <1>2 DEF Session, Tables, LiveHasPart, Types, TypeOK
    <2>5. UmountsClaimed'
      BY <1>2 DEF UmountsClaimed
    <2> QED
      BY <1>3, <2>1, <2>2, <2>3, <2>4, <2>5 DEF Tables
  <1>5. Data'
    <2>1. WriteBackOnce'
      BY <1>2, <1>3 DEF Session, Data, WriteBackOnce, Types, TypeOK
    <2>2. FlushedOrFailed'
      BY <1>1, <1>2, <1>3 DEF Session, Data, FlushedOrFailed, Excused, Types, TypeOK
    <2>3. KeptOrFailed'
      <3> SUFFICES ASSUME NEW j \in Slot, slotName'[j] \in claimed' \cap lost'
                   PROVE  slotName'[j] \in Excused'
        BY DEF KeptOrFailed
      <3>1. j # i /\ slotName[j] = slotName'[j] /\ slotName[j] \in claimed /\ slotName[j] # p
        BY <1>1, <1>2, <1>3 DEF Types, TypeOK
      <3>2. bound[slotName[j]] = j
        BY <3>1 DEF Session, Tables, OwnCache
      <3> QED
        BY <1>1, <1>2, <3>1, <3>2 DEF Session, Data, KeptOrFailed, Excused
    <2>4. ErrorWhileMounted'
      BY <1>2 DEF Session, Data, ErrorWhileMounted, Types, TypeOK
    <2>5. Flagged'
      BY <1>1, <1>2 DEF Session, Data, Flagged, Excused, Types, TypeOK
    <2> QED
      BY <2>1, <2>2, <2>3, <2>4, <2>5 DEF Data
  <1>6. Counted'
    <2> SUFFICES ASSUME NEW d \in Disk
                 PROVE  Cardinality(LiveOn(d)') <= phRef'[d]
      BY DEF Counted
    <2>1. LiveOn(d) \subseteq Slot /\ LiveOn(d)' \subseteq Slot
      BY <1>0 DEF LiveOn, Types, TypeOK
    <2>2. /\ Cardinality(LiveOn(d)) \in Nat /\ Cardinality(LiveOn(d)') \in Nat
          /\ IsFiniteSet(LiveOn(d))
      BY <2>1, LiveOnFinite
    <2>3. Cardinality(LiveOn(d)) <= phRef[d] /\ phRef[d] \in Nat
      BY DEF Session, Counted, Types, TypeOK
    <2>4. \A j \in LiveOn(d)' : j # i => j \in LiveOn(d)
      <3> SUFFICES ASSUME NEW j \in LiveOn(d)', j # i
                   PROVE  j \in LiveOn(d)
        OBVIOUS
      <3>1. j \in live /\ j \in Slot /\ slotFs'[j] = slotFs[j] /\ slotFs[j] \in Part
        BY <1>1, <2>1 DEF LiveOn, Session, Tables, LiveHasPart, Types, TypeOK
      <3>2. slotFs[j] # p
        BY <1>1, <3>1 DEF LiveOn, Types, TypeOK
      <3> QED
        BY <1>1, <3>1, <3>2 DEF LiveOn, Types, TypeOK
    <2>5. CASE d = DiskOf[p]
      <3>1. LiveOn(d)' \subseteq LiveOn(d) \cup {i}
        BY <2>4
      <3>2. /\ IsFiniteSet(LiveOn(d) \cup {i})
            /\ Cardinality(LiveOn(d) \cup {i}) <= Cardinality(LiveOn(d)) + 1
            /\ Cardinality(LiveOn(d) \cup {i}) \in Nat
        BY <2>1, CountOneMore
      <3>3. Cardinality(LiveOn(d)') <= Cardinality(LiveOn(d) \cup {i})
        BY <3>1, <3>2, FS_Subset
      <3>4. phRef'[d] = phRef[d] + 1
        BY <1>2, <2>5 DEF Types, TypeOK
      <3> QED
        BY <2>2, <2>3, <3>2, <3>3, <3>4
    <2>6. CASE d # DiskOf[p]
      <3>1. i \notin LiveOn(d)'
        BY <1>1, <2>6 DEF LiveOn, Types, TypeOK
      <3>2. Cardinality(LiveOn(d)') <= Cardinality(LiveOn(d))
        BY <2>2, <2>4, <3>1, FS_Subset
      <3>3. phRef'[d] = phRef[d]
        BY <1>2, <2>6 DEF Types, TypeOK
      <3> QED
        BY <2>2, <2>3, <3>2, <3>3
    <2> QED
      BY <2>5, <2>6
  <1> QED
    BY <1>2, <1>4, <1>5, <1>6 DEF Session

\* Every way a begin can go keeps the invariant; one that believes a marked slot
\* ends the careful session.
LEMMA BeginKeeps ==
    ASSUME Types, Session, umounting = 0, NEW p \in Part, Begin(p), careful'
    PROVE  Session'
  <1>1. CASE BeginNoSlot(p)
    BY <1>1 DEF BeginNoSlot, vars, driveVars, slotVars, dataVars, Session, Tables, NamesApart,
       FreshUnused, OwnCache, LiveHasPart, UmountsClaimed, Data, WriteBackOnce, FlushedOrFailed,
       KeptOrFailed, ErrorWhileMounted, Flagged, Excused, Counted, LiveOn
  <1>2. ~ BeginMarked(p) /\ ~ BeginNullDevice(p)
    BY DEF BeginMarked, BeginNullDevice
  <1> QED
    BY <1>1, <1>2, BeginUnregisteredKeeps, BeginFailedKeeps, BeginMountedKeeps DEF Begin

\* The slot of a claimed partition that has one.
LEMMA ClaimedSlot ==
    ASSUME Types, Session, NEW p \in claimed, Named(p) # {}
    PROVE  LET i == Min(Named(p))
           IN  /\ i \in Slot /\ i # 0 /\ slotName[i] = p /\ Named(p) = {i}
               /\ Mounts(p) # {} => Min(Mounts(p)) = i /\ i \in slotMounted
               /\ Mounts(p) = {} => i \notin slotMounted
               /\ slotFs[i] = p /\ bound[p] = i /\ i \in live
  <1>1. p \in Part
    BY DEF Types, TypeOK
  <1>2. /\ Min(Named(p)) \in Slot /\ slotName[Min(Named(p))] = p
        /\ Named(p) = {Min(Named(p))}
        /\ Mounts(p) # {} => Min(Mounts(p)) = Min(Named(p)) /\ Min(Named(p)) \in slotMounted
        /\ Mounts(p) = {} => Min(Named(p)) \notin slotMounted
    BY <1>1, OneSlot DEF Session, Tables
  <1>3. Min(Named(p)) # 0
    BY <1>2, PartAssumption DEF Slot
  <1>4. /\ slotFs[Min(Named(p))] = p /\ bound[p] = Min(Named(p))
        /\ Min(Named(p)) \in live
    BY <1>2 DEF Session, Tables, OwnCache
  <1> QED
    BY <1>2, <1>3, <1>4

\* A write finds the cache of its own partition, which carries the error flag.
LEMMA WriteKeeps ==
    ASSUME Types, Session, umounting = 0, NEW p \in Part, Write(p), careful'
    PROVE  Session'
  <1> DEFINE i == Min(Named(p))
  <1>1. p \in claimed /\ Mounts(p) # {} /\ Named(p) # {}
    BY DEF Write, Mounts
  <1>2. /\ i \in Slot /\ slotName[i] = p /\ Named(p) = {i}
        /\ Min(Mounts(p)) = i /\ i \in slotMounted
        /\ slotFs[i] = p /\ bound[p] = i /\ i \in live
    BY <1>1, ClaimedSlot
  <1>3. p # NoPart
    BY PartAssumption
  <1>4. /\ Dirties(p)
        /\ UNCHANGED <<driveVars, claimed, devices, slotVars, bound, phRef, sb, lost, umounting,
                       faulted>>
    BY <1>2, <1>3 DEF Write
  <1>9. /\ \A q \in Part : q # p => writeBack'[q] = writeBack[q]
        /\ pending \subseteq pending' /\ pending' \subseteq pending \cup {p}
        /\ leaked \subseteq leaked' /\ Excused \subseteq Excused'
        /\ p \in leaked' \/ writeBack'[p] = writeBack[p]
    BY <1>4 DEF Dirties, Excused, Types, TypeOK
  <1>5. \A j \in Slot : slotName[j] = p => j = i
    BY <1>2 DEF Named
  <1> HIDE DEF i
  <1>6. Tables'
    <2>1. p \in devices
      BY <1>1 DEF Session, Tables
    <2> QED
      BY <1>4, <1>9, <2>1 DEF Session, Tables, NamesApart, FreshUnused, OwnCache, LiveHasPart,
         UmountsClaimed, slotVars
  <1>7. Data'
    <2>1. WriteBackOnce'
      BY <1>9 DEF Session, Data, WriteBackOnce
    <2>2. KeptOrFailed' /\ ErrorWhileMounted'
      BY <1>4, <1>9 DEF Session, Data, KeptOrFailed, ErrorWhileMounted, slotVars
    <2>3. FlushedOrFailed'
      BY <1>2, <1>4, <1>5, <1>9 DEF Session, Data, FlushedOrFailed, slotVars
    <2>4. Flagged'
      BY <1>1, <1>4, <1>9 DEF Session, Data, ErrorWhileMounted, Flagged
    <2> QED
      BY <2>1, <2>2, <2>3, <2>4 DEF Data
  <1>8. Counted'
    BY <1>4 DEF Session, Counted, LiveOn, slotVars
  <1> QED
    BY <1>4, <1>6, <1>7, <1>8 DEF Session

\* What is dirty once write-back mode was left is what could not be written, or what
\* was written in a mode that was left on.
LEMMA WriteBackLeft ==
    ASSUME Types, Session, NEW p \in claimed, Named(p) # {}, WriteBackOff(p)
    PROVE  /\ \A q \in Part : writeBack'[q] <= writeBack[q]
           /\ pending' \subseteq pending /\ failed \subseteq failed'
           /\ p \in pending' => p \in failed' \cup leaked
  <1> DEFINE i == Min(Named(p))
  <1>1. /\ i \in Slot /\ slotName[i] = p /\ slotFs[i] = p
        /\ Mounts(p) # {} => Min(Mounts(p)) = i
        /\ Mounts(p) = {} => i \notin slotMounted
    BY ClaimedSlot
  <1> HIDE DEF i
  <1>2. CASE Mounts(p) = {}
    <2>1. UNCHANGED <<writeBack, pending, failed>>
      BY <1>2 DEF WriteBackOff
    <2>2. p \in pending => p \in Excused
      BY <1>1, <1>2 DEF Session, Data, FlushedOrFailed
    <2>3. \A q \in Part : writeBack'[q] <= writeBack[q]
      BY <2>1 DEF Types, TypeOK
    <2> QED
      BY <2>1, <2>2, <2>3 DEF Excused
  <1>3. CASE Mounts(p) # {}
    <2>1. LeavesWriteBack(p)
      BY <1>1, <1>3 DEF WriteBackOff
    <2>2. p \in Part /\ writeBack[p] \in Nat /\ (writeBack[p] <= 1 \/ p \in leaked)
      BY DEF Session, Data, WriteBackOnce, Types, TypeOK
    <2>3. \A q \in Part : writeBack'[q] <= writeBack[q]
      BY <2>1, <2>2 DEF LeavesWriteBack, Types, TypeOK
    <2>4. /\ pending' \subseteq pending /\ failed \subseteq failed'
          /\ p \in pending' => p \in failed' \cup leaked
      BY <2>1, <2>2 DEF LeavesWriteBack
    <2> QED
      BY <2>3, <2>4
  <1> QED
    BY <1>2, <1>3

\* The first half of an unmount, whether the superblock was written or not.
LEMMA UmountStartsKeeps ==
    ASSUME Types, Session, umounting = 0, NEW p \in claimed, careful',
           UmountNotWritten(p) \/ UmountWritten(p)
    PROVE  Session'
  <1> DEFINE i == Min(Named(p))
  <1>0. Types' /\ p \in Part
    BY UmountTypes DEF Umount, Types, TypeOK
  <1>1. Named(p) # {} /\ WriteBackOff(p)
    BY DEF UmountNotWritten, UmountWritten, UmountStarts
  <1>2. /\ i \in Slot /\ i # 0 /\ slotName[i] = p /\ Named(p) = {i}
        /\ slotFs[i] = p /\ bound[p] = i /\ i \in live
    BY <1>1, ClaimedSlot
  <1>a. /\ \A q \in Part : writeBack'[q] <= writeBack[q]
        /\ pending' \subseteq pending /\ failed \subseteq failed'
        /\ p \in pending' => p \in failed' \cup leaked
    BY <1>1, WriteBackLeft
  <1>3. /\ \A q \in Part : writeBack'[q] <= writeBack[q]
        /\ pending' \subseteq pending /\ Excused \subseteq Excused'
        /\ p \in pending' => p \in Excused'
        /\ leaked' = leaked
    BY <1>a DEF Excused, UmountNotWritten, UmountWritten
  <1>4. \/ slotMounted' = slotMounted \ {i} /\ UNCHANGED <<sb, umounting>>
        \/ slotMounted' = slotMounted /\ sb' = [sb EXCEPT ![p] = "valid"] /\ umounting' = i
    BY <1>2 DEF UmountNotWritten, UmountWritten, slotVars
  <1>5. UNCHANGED <<claimed, devices, slotName, slotFs, live, bound, phRef, lost, faulted>>
    BY DEF UmountNotWritten, UmountWritten, slotVars
  <1>6. \A j \in Slot : slotName[j] = p => j = i
    BY <1>2 DEF Named
  <1> HIDE DEF i
  <1>7. Tables'
    <2>1. p \in devices /\ claimed' \subseteq devices' /\ NamesApart' /\ OwnCache' /\ LiveHasPart'
      BY <1>5 DEF Session, Tables, NamesApart, OwnCache, LiveHasPart
    <2>2. FreshUnused'
      <3> SUFFICES ASSUME NEW q \in Part \ devices
                   PROVE  /\ bound[q] = 0 /\ writeBack'[q] = 0 /\ q \notin pending'
                          /\ \A j \in Slot : slotName[j] = q => j \in slotMounted'
        BY <1>5 DEF FreshUnused
      <3>1. /\ bound[q] = 0 /\ writeBack[q] = 0 /\ q \notin pending
            /\ \A j \in Slot : slotName[j] = q => j \in slotMounted
        BY DEF Session, Tables, FreshUnused
      <3>2. writeBack'[q] \in Nat /\ writeBack'[q] <= 0
        BY <1>0, <1>3, <3>1 DEF Types, TypeOK
      <3> QED
        BY <1>2, <1>3, <1>4, <2>1, <3>1, <3>2
    <2>3. UmountsClaimed'
      BY <1>2, <1>4, <1>5 DEF Session, Tables, UmountsClaimed
    <2> QED
      BY <2>1, <2>2, <2>3 DEF Tables
  <1>8. Data'
    <2>1. WriteBackOnce'
      <3> SUFFICES ASSUME NEW q \in Part
                   PROVE  writeBack'[q] <= 1 \/ q \in leaked'
        BY DEF WriteBackOnce
      <3>1. /\ writeBack[q] \in Nat /\ writeBack'[q] \in Nat
            /\ writeBack[q] <= 1 \/ q \in leaked
        BY <1>0 DEF Session, Data, WriteBackOnce, Types, TypeOK
      <3> QED
        BY <1>3, <3>1
    <2>2. FlushedOrFailed'
      <3> SUFFICES ASSUME NEW j \in Slot, slotName[j] \in claimed \cap pending',
                          j \notin slotMounted'
                   PROVE  slotName[j] \in Excused'
        BY <1>5 DEF FlushedOrFailed
      <3> QED
        BY <1>2, <1>3, <1>4 DEF Session, Data, FlushedOrFailed
    <2>3. KeptOrFailed'
      BY <1>3, <1>5 DEF Session, Data, KeptOrFailed
    <2>4. ErrorWhileMounted'
      BY <1>2, <1>4, <1>5 DEF Session, Data, ErrorWhileMounted, Types, TypeOK
    <2>5. Flagged'
      <3>1. p \in lost => p \in Excused
        BY <1>2 DEF Session, Data, KeptOrFailed
      <3>2. \A q \in Part : q # p => sb'[q] = sb[q]
        BY <1>4 DEF Types, TypeOK
      <3>3. sb'[p] = sb[p] \/ p \notin (pending' \cup lost') \ Excused'
        BY <1>3, <1>4, <1>5, <3>1
      <3>4. pending \subseteq Part /\ lost \subseteq Part
        BY DEF Types, TypeOK
      <3> QED
        BY <1>3, <1>5, <3>2, <3>3, <3>4 DEF Session, Data, Flagged
    <2> QED
      BY <2>1, <2>2, <2>3, <2>4, <2>5 DEF Data
  <1>9. Counted'
    BY <1>5 DEF Session, Counted, LiveOn
  <1> QED
    BY <1>5, <1>7, <1>8, <1>9 DEF Session

\* An unmount of a claimed partition meets no null pointer.
LEMMA UmountKeeps ==
    ASSUME Types, Session, umounting = 0, NEW p \in Part, Umount(p), careful'
    PROVE  Session'
  <1>1. p \in claimed
    BY DEF Umount, UmountFaults, UmountNoSlot, UmountNotWritten, UmountWritten, UmountStarts,
           MayUmount
  <1>2. ~ UmountFaults(p)
    <2> SUFFICES ASSUME NEW j \in UmountSlots(p)
                 PROVE  j \notin NullSlots
      BY DEF UmountFaults
    <2>1. Named(p) # {} /\ j \in {Min(Named(p)), Min(Mounts(p))}
          /\ (j = Min(Named(p)) \/ Mounts(p) # {})
      BY DEF UmountSlots, Mounts
    <2>2. j = Min(Named(p))
      BY <1>1, <2>1, ClaimedSlot
    <2>3. slotFs[j] = p /\ bound[p] # 0
      BY <1>1, <2>1, <2>2, ClaimedSlot
    <2> QED
      BY <2>3, PartAssumption DEF NullSlots
  <1>3. CASE UmountNoSlot(p)
    BY <1>3 DEF UmountNoSlot, vars, driveVars, slotVars, dataVars, Session, Tables, NamesApart,
       FreshUnused, OwnCache, LiveHasPart, UmountsClaimed, Data, WriteBackOnce, FlushedOrFailed,
       KeptOrFailed, ErrorWhileMounted, Flagged, Excused, Counted, LiveOn
  <1> QED
    BY <1>1, <1>2, <1>3, UmountStartsKeeps DEF Umount

\* The second half: the drive gives back the reference of the cache that goes.
LEMMA UmountDoneKeeps ==
    ASSUME Types, Session, UmountDone, careful'
    PROVE  Session'
  <1> DEFINE i == umounting
             p == slotName[umounting]
             rest == {q \in pending : bound[q] = i /\ i \in live}
  <1>0. Types'
    BY UmountDoneTypes
  <1>1. /\ i \in Slot /\ p \in claimed /\ p \in Part
        /\ slotFs[i] = p /\ bound[p] = i /\ i \in live
    BY DEF UmountDone, Session, Tables, UmountsClaimed, OwnCache, Types, TypeOK
  <1>2. /\ pending' = pending \ rest
        /\ \/ UNCHANGED <<failed, lost>>
           \/ failed' = failed \cup rest /\ lost' = lost \cup rest
        /\ live' = live \ {i}
        /\ Close(DiskOf[p])
        /\ slotMounted' = slotMounted \ {i}
        /\ claimed' = claimed \ {p}
        /\ umounting' = 0
        /\ UNCHANGED <<devices, slotName, slotFs, bound, writeBack, sb, leaked, faulted>>
    BY <1>1 DEF UmountDone
  <1>3. \A j \in Slot : slotName[j] # p => j # i
    OBVIOUS
  <1>4. p \in devices
    BY <1>1 DEF Session, Tables
  <1>5. /\ pending' \subseteq pending /\ Excused \subseteq Excused'
        /\ lost' \subseteq lost \cup Excused'
    BY <1>2 DEF Excused
  <1> HIDE DEF i, p, rest
  <1>6. p = slotName[i]
    BY DEF i, p
  <1>7. Tables'
    <2>1. claimed' \subseteq devices' /\ NamesApart' /\ LiveHasPart' /\ UmountsClaimed'
      BY <1>2 DEF Session, Tables, NamesApart, LiveHasPart, UmountsClaimed
    <2>2. FreshUnused'
      BY <1>2, <1>4, <1>5, <1>6 DEF Session, Tables, FreshUnused
    <2>3. OwnCache'
      BY <1>2, <1>6 DEF Session, Tables, OwnCache
    <2> QED
      BY <2>1, <2>2, <2>3 DEF Tables
  <1>8. Data'
    <2>1. WriteBackOnce'
      BY <1>2 DEF Session, Data, WriteBackOnce
    <2>2. FlushedOrFailed'
      BY <1>2, <1>5, <1>6 DEF Session, Data, FlushedOrFailed
    <2>3. KeptOrFailed'
      BY <1>2, <1>5 DEF Session, Data, KeptOrFailed
    <2>4. ErrorWhileMounted'
      BY <1>2 DEF Session, Data, ErrorWhileMounted, p
    <2>5. Flagged'
      BY <1>2, <1>5 DEF Session, Data, Flagged
    <2> QED
      BY <2>1, <2>2, <2>3, <2>4, <2>5 DEF Data
  <1>9. Counted'
    <2> SUFFICES ASSUME NEW d \in Disk
                 PROVE  Cardinality(LiveOn(d)') <= phRef'[d]
      BY DEF Counted
    <2>1. LiveOn(d) \subseteq Slot /\ LiveOn(d)' = LiveOn(d) \ {i}
      BY <1>2 DEF LiveOn, Types, TypeOK
    <2>2. IsFiniteSet(LiveOn(d)) /\ Cardinality(LiveOn(d)) \in Nat
      BY <2>1, LiveOnFinite
    <2>3. Cardinality(LiveOn(d)) <= phRef[d] /\ phRef[d] \in Nat
      BY DEF Session, Counted, Types, TypeOK
    <2>4. Cardinality(LiveOn(d)') =
              IF i \in LiveOn(d) THEN Cardinality(LiveOn(d)) - 1 ELSE Cardinality(LiveOn(d))
      BY <2>1, <2>2, FS_RemoveElement
    <2>5. phRef' = [phRef EXCEPT ![DiskOf[p]] =
                        IF phRef[DiskOf[p]] > 0 THEN phRef[DiskOf[p]] - 1 ELSE 0]
      BY <1>2 DEF Close
    <2>6. CASE d = DiskOf[p]
      <3>1. i \in LiveOn(d)
        BY <1>1, <2>6 DEF LiveOn
      <3>2. phRef'[d] = IF phRef[d] > 0 THEN phRef[d] - 1 ELSE 0
        BY <2>5, <2>6 DEF Types, TypeOK
      <3>3. Cardinality(LiveOn(d)') = Cardinality(LiveOn(d)) - 1
        BY <2>4, <3>1
      <3> QED
        BY <2>2, <2>3, <3>2, <3>3
    <2>7. CASE d # DiskOf[p]
      <3>1. phRef'[d] = phRef[d] /\ i \notin LiveOn(d)
        BY <1>1, <2>5, <2>7 DEF LiveOn, Types, TypeOK
      <3> QED
        BY <2>3, <2>4, <3>1
    <2> QED
      BY <2>6, <2>7
  <1> QED
    BY <1>2, <1>7, <1>8, <1>9 DEF Session

\* After a power cut the tables are as empty as at the beginning.
LEMMA PowerCutKeeps ==
    ASSUME Types, Session, PowerCut, careful'
    PROVE  Session'
  <1>1. Tables'
    BY PartAssumption DEF PowerCut, Tables, NamesApart, FreshUnused, OwnCache, LiveHasPart,
       UmountsClaimed
  <1>2. Data'
    BY DEF PowerCut, Session, Data, WriteBackOnce, FlushedOrFailed, KeptOrFailed,
       ErrorWhileMounted, Flagged, Excused
  <1>3. Counted'
    <2> SUFFICES ASSUME NEW d \in Disk
                 PROVE  Cardinality(LiveOn(d)') <= phRef'[d]
      BY DEF Counted
    <2>1. LiveOn(d)' = {} /\ phRef'[d] = 0
      BY DEF PowerCut, LiveOn
    <2>2. Cardinality(LiveOn(d)') = 0
      BY <2>1, FS_EmptySet
    <2> QED
      BY <2>1, <2>2
  <1> QED
    BY <1>1, <1>2, <1>3 DEF PowerCut, Session

\* The invariant holds at the start.
LEMMA InitSession ==
    ASSUME Init
    PROVE  Session
  <1>1. Tables
    BY PartAssumption DEF Init, Tables, NamesApart, FreshUnused, OwnCache, LiveHasPart,
       UmountsClaimed
  <1>2. Data
    BY DEF Init, Data, WriteBackOnce, FlushedOrFailed, KeptOrFailed, ErrorWhileMounted, Flagged
  <1>3. Counted
    <2> SUFFICES ASSUME NEW d \in Disk
                 PROVE  Cardinality(LiveOn(d)) <= phRef[d]
      BY DEF Counted
    <2>1. LiveOn(d) = {} /\ phRef[d] = 0
      BY DEF Init, LiveOn
    <2>2. Cardinality(LiveOn(d)) = 0
      BY <2>1, FS_EmptySet
    <2> QED
      BY <2>1, <2>2
  <1> QED
    BY <1>1, <1>2, <1>3 DEF Init, Session

\* Nothing makes a sketch careful again.
LEMMA CarefulBefore ==
    ASSUME Types, Next, careful'
    PROVE  careful
  <1> USE DEF Types, TypeOK
  <1>1. ASSUME NEW d \in Disk, Drive(d)
        PROVE  careful
    BY <1>1 DEF Drive, InitBlockDeviceKnown, InitBlockDevice, InitBlockDeviceGone, Plug, Unplug,
       vars
  <1>2. ASSUME NEW p \in Part, Begin(p)
        PROVE  careful
    BY <1>2 DEF Begin, BeginUnregistered, BeginNoSlot, BeginMarked, BeginNullDevice, BeginNotOpened, BeginNotRead,
       BeginMounted, Takes, vars
  <1>3. ASSUME NEW p \in Part, Write(p) \/ Umount(p)
        PROVE  careful
    BY <1>3 DEF Write, Umount, UmountFaults, UmountNoSlot, UmountNotWritten, UmountWritten, vars
  <1>4. ASSUME UmountDone \/ PowerCut
        PROVE  careful
    BY <1>4 DEF UmountDone, PowerCut
  <1> QED
    BY <1>1, <1>2, <1>3, <1>4 DEF Next

\* The invariant is inductive.
LEMMA IInvKept ==
    ASSUME IInv, [Next]_vars
    PROVE  IInv'
  <1>1. CASE UNCHANGED vars
    BY <1>1 DEF vars, driveVars, slotVars, dataVars, IInv, Types, TypeOK, Session, Tables,
       NamesApart, FreshUnused, OwnCache, LiveHasPart, UmountsClaimed, Data, WriteBackOnce,
       FlushedOrFailed, KeptOrFailed, ErrorWhileMounted, Flagged, Excused, Counted, LiveOn
  <1>2. CASE Next
    <2>1. Types'
      BY <1>2, DriveTypes, BeginTypes, WriteTypes, UmountTypes, UmountDoneTypes, PowerCutTypes
      DEF IInv, Next
    <2>2. ASSUME careful'
          PROVE  Session'
      <3>1. Types /\ Session
        BY <1>2, <2>2, CarefulBefore DEF IInv
      <3> QED
        BY <1>2, <2>2, <3>1, DriveKeeps, BeginKeeps, WriteKeeps, UmountKeeps, UmountDoneKeeps,
           PowerCutKeeps DEF Next
    <2> QED
      BY <2>1, <2>2 DEF IInv
  <1> QED
    BY <1>1, <1>2

\* It holds in every state.
LEMMA InvariantKept == Spec => []IInv
  <1>1. Init => IInv
    BY InitTypes, InitSession DEF IInv
  <1> QED
    BY <1>1, IInvKept, PTL DEF Spec

-----------------------------------------------------------------------------
(***************************************************************************)
(* What a careful sketch relies on.                                        *)
(***************************************************************************)

\* Whatever failed before, no call of a careful sketch follows a null pointer or
\* uses a cache that was given back.
THEOREM CarefulNeverFaults == Spec => []NeverFaults
  <1>1. IInv => NeverFaults
    BY DEF IInv, Session, NeverFaults
  <1> QED
    BY <1>1, InvariantKept, PTL

\* The counter of a drive covers its live caches.
THEOREM CountersCover == Spec => []PhRefCovers
  <1>1. IInv => PhRefCovers
    BY DEF IInv, Session, Counted, PhRefCovers
  <1> QED
    BY <1>1, InvariantKept, PTL

\* A claimed partition has its slot, its cache and an open drive, until it is unmounted.
THEOREM MountedUsable == Spec => []MountedStaysUsable
  <1>1. ASSUME IInv, careful, NEW p \in claimed, Mounts(p) # {}
        PROVE  LET i == Min(Mounts(p))
               IN  /\ slotFs[i] = p /\ bound[p] = i /\ i \in live
                   /\ phRef[DiskOf[p]] > 0
    <2> DEFINE i == Min(Mounts(p))
    <2>1. Types /\ Session /\ p \in Part /\ Named(p) # {}
      BY <1>1 DEF IInv, Types, TypeOK, Mounts
    <2>2. i \in Slot /\ slotFs[i] = p /\ bound[p] = i /\ i \in live
      BY <1>1, <2>1, ClaimedSlot
    <2> HIDE DEF i
    <2>3. DiskOf[p] \in Disk
      BY <2>1, PartAssumption
    <2>4. i \in LiveOn(DiskOf[p]) /\ LiveOn(DiskOf[p]) \subseteq Slot
      BY <2>1, <2>2 DEF LiveOn, Types, TypeOK
    <2>5. /\ Cardinality(LiveOn(DiskOf[p])) \in Nat
          /\ Cardinality(LiveOn(DiskOf[p])) # 0
      BY <2>4, LiveOnFinite, FS_EmptySet
    <2>6. /\ Cardinality(LiveOn(DiskOf[p])) <= phRef[DiskOf[p]]
          /\ phRef[DiskOf[p]] \in Nat
      BY <2>1, <2>3 DEF Session, Counted, Types, TypeOK
    <2>7. phRef[DiskOf[p]] > 0
      BY <2>5, <2>6
    <2> QED
      BY <2>2, <2>7 DEF i
  <1>2. IInv => MountedStaysUsable
    BY <1>1 DEF MountedStaysUsable
  <1> QED
    BY <1>2, InvariantKept, PTL

\* Unless a write failed or a call left write-back mode on, lost data leave the error
\* flag on the device.
THEOREM LossFlagged == Spec => []LossIsFlagged
  <1>1. IInv => LossIsFlagged
    BY DEF IInv, Session, Data, Flagged, LossIsFlagged
  <1> QED
    BY <1>1, InvariantKept, PTL

=============================================================================

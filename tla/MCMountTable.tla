---------------------------- MODULE MCMountTable ----------------------------
(***************************************************************************)
(* Model checking of MountTable: two partitions on a USB drive, which are  *)
(* interchangeable, and one on the SD card.                                *)
(***************************************************************************)
EXTENDS MountTable, TLC

CONSTANTS sda1, sda2, sdd1, usb, sd

MCDiskOf == [p \in Part |-> IF p = sdd1 THEN sd ELSE usb]

\* The histories as far as the properties of a careful sketch depend on them: a
\* partition is excused until it is mounted again, which also ends lost and sb; an
\* act that is not careful ends all promises but the types.  No guard reads them when
\* MaxLeaked is the number of partitions.
Histories ==
    IF careful
    THEN <<Excused, lost \ Excused, [p \in Part \ Excused |-> sb[p]]>>
    ELSE <<>>

Told == <<driveVars, claimed, devices, slotVars, bound, writeBack, phRef, pending,
          umounting, careful, faulted, Histories>>

PartSymmetry == Permutations({sda1, sda2})
=============================================================================

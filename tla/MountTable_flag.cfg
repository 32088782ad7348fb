SPECIFICATION Spec
CONSTANTS
    sda1 = sda1
    sda2 = sda2
    sdd1 = sdd1
    usb = usb
    sd = sd
    Part = {sda1, sda2, sdd1}
    NoPart = NoPart
    Disk = {usb, sd}
    SdDisk = {sd}
    Removable = {usb}
    DiskOf <- MCDiskOf
    NDevices = 2
    NSlots = 2
    MaxWriteBack = 2
    MaxLeaked = 1
SYMMETRY PartSymmetry
INVARIANT MountedMeansDone

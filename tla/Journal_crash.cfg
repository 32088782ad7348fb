SPECIFICATION Spec
CONSTANTS
  Block = {1, 2}
  Value = {1, 2}
  MaxLen = 8
  IdMod = 16
  TagsPerBlock = 2
  FirstSeq = 14
  MaxSessions = 2
  MaxTrans = 3
  MaxCrashes = 1
  MaxAborts = 1
  MaxOps = 5
INVARIANTS TypeOK RecoveryRestores ReadsBack CheckpointExact NeverStuck

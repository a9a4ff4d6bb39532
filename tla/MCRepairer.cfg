CONSTANTS
  Source <- MCSource
  Verifiable <- MCVerifiable
  BlockSize = 2
  Junk = "x"
  TargetName <- MCTargetName
  BackupNames <- MCBackupNames
  ExtraNames <- MCExtraNames
  ExtraContents <- MCExtraContents
  NewFiles <- MCNewFiles
  ParFiles <- MCParFiles
  MaxRecovery = 2
  MaxCalls = 2
  Scenarios <- MCScenarios
SPECIFICATION Spec
INVARIANTS BlocksKept SuccessMeansGood ParFilesKept NeverRepairFailed NotPossibleIsTrue EnoughRepairs

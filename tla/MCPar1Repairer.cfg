CONSTANTS
  Bits = 4
  Generator = 19
  NoFile = NoFile
  NoList = NoList
  Lists <- MCLists
  TheList = "set"
  MainPar = "m"
  OtherPars = {"p1", "p2"}
  ExtraPars = {"p3"}
  ExtraNames <- MCExtras
  BackupNames <- MCBackups
  Names = {"t1", "t2", "t3", "n", "x", "t1.1", "t1.2", "t2.1", "t2.2", "t3.1", "t3.2"}
  Scenarios <- MCScenarios
  Args <- MCArgs
  MaxCalls = 2
  MaxFaults = 1
SPECIFICATION Spec
INVARIANTS SuccessMeansGood FilesKept RepairWorks VerdictTrue
CHECK_DEADLOCK FALSE

CONSTANTS
  Source <- MCSource
  Verifiable <- MCVerifiable
  BlockSize = 2
  Junk = "x"
  TargetName <- MCTargetName
  SortedFiles <- MCSortedFiles
  ExtraFiles <- MCExtraFiles
  Calls <- MCTornCalls
SPECIFICATION Spec
INVARIANTS LocationsTrue

CONSTANTS
  Source <- MCSource
  Verifiable <- MCVerifiable
  BlockSize = 2
  Junk = "x"
  TargetName <- MCTargetName
  SortedFiles <- MCSortedFiles
  ExtraFiles <- MCExtraFiles
  Calls <- MCCalls
SPECIFICATION Spec
INVARIANTS LocationsTrueApart CountsAgree PerfectFound BlocksFound

CONSTANTS
  HeaderSize = 2
  BufferSize = 4
  MaxU32 = 4
  Align = 2
  PacketSize <- MCPacketSize
  IdSize = 2
  EntrySize = 2
  MaxEntries = 3
  MaxText = 5
  Disks <- MCDisks
  ParFile = "p"
  OtherFiles = {"v", "w"}
  ExtraFiles <- MCExtra
  Presents <- MCPresents
  MaxCalls = 2
  None = None
SPECIFICATION Spec
INVARIANTS AllIntactLoaded RecoveryOnDisk BlocksNumbered
 
CHECK_DEADLOCK FALSE

SPECIFICATION MemSpec
CONSTANTS
  HeaderSize = 4
  PhEntSize = 2
  ShEntSize = 2
  NameLen = 1
  XWord = 65536
  SectionKinds <- Kinds
  SegmentKinds <- SegKinds
  Files <- LinkedFiles
  TBssLast = TRUE
  MaxSections = 4
  MaxSegments = 2
  MaxSaves = 2
  MaxLoads = 1
  Base = 16
  MemSize = 56
  Word = 4
  PutcharAt = 48
  ExitAt = 52
  Machines = {"RISCV", "X86_64"}
  Encodings = {"LSB", "MSB"}
  Stores <- MCStores
INVARIANTS
  Image
  Intact
  Mapped
PROPERTIES
  LoadRestores
  ResaveSucceeds
CHECK_DEADLOCK FALSE

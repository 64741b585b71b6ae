SPECIFICATION MCSpec
CONSTANTS
  Names <- MCNames
  NoName = ""
  HashOf <- MCHash
  NBuckets = 2
  Symbols <- MCSymbols
  Tables <- MCTables
  RelTypes = {1, 257}
  Addends = {5}
  TypeMod = 256
  SymMod = 16
  MaxSymbols = 5
  MaxRels = 2
  Kinds <- AllKinds
  ItemsOf <- MCItems
  InFile <- MCFiles
  Radix = 8
  Bytes <- MCBytes
  WordSize = 4
  MaxItems = 4
  MaxAccessors = 2
INVARIANTS
  SameSymbol
  LookupFinds
  OwnerSees
PROPERTIES
  Arranges
  ViewsAgree
CHECK_DEADLOCK FALSE

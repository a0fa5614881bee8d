SPECIFICATION WriteSpec
CONSTANTS
  NtoaSize = 32
  Threshold = 40
  NoPrec = NoPrec
  IntLimit = 100
  Byte <- AllBytes
  NUL = NUL
  Junk <- Outside
  Size = 6
  Bytes <- Ordinary
  Directives <- All
  MaxRead = 2
  MaxNumbers = 0
  Sizes = {1, 3}
  ConsoleLimit = 3
  Chunk = 4
  MaxMenu = 15
  MenuLengths = {0, 1, 2, 3, 4, 5, 6, 7, 8, 9, 10, 11, 12, 13, 14, 15, 16, 17, 20}
  Wrap = 64
INVARIANTS
  StaysInBuffer
  FormatsAsC
  WholeCharacters
  PartsReachTheEnd
PROPERTY
  MenuIsSent

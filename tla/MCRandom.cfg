\* Words of four bits in a pool of eight; numbers of one to four bits.
SPECIFICATION Spec
CONSTANTS
  WordBits = 4
  Ranges <- EveryRange
INVARIANTS
  TypeOK
PROPERTIES
  ImplementsStream

SPECIFICATION FairSpec
CONSTANTS
  Slots = 2
  Word = 4
  MaxBytes = 1
  MaxSends = 5
  MaxHandoffs = 2
INVARIANT TypeOK
INVARIANT CellExclusive
INVARIANT ExactlyOnceInOrder
INVARIANT IdsHaveNoGaps
PROPERTY ImplementsFifo
PROPERTY Delivered

CONSTANTS
  MaxBooks = 2
  Anonymous = {2}
  Libraries = {l1, l2}
  AzConcurrency = 1
SPECIFICATION AvailabilitySpec
INVARIANTS
  NoSenderBlocks
  NoCanceledRow
PROPERTIES
  ImplementsProtocol
  StayingClientServed
  Quiesces
  AvailabilityNotBehindPrices

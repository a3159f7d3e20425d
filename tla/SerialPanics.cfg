SPECIFICATION Spec
CONSTANTS
  h1 = h1
  h2 = h2
  NilInterface = NilInterface
  NilPointer = NilPointer
  Handles <- TwoHandles
  Faults = {}
  Overhead = 2
  MaxLength = 4
  Streams <- SomeStreams
INVARIANT NeverPanics
CHECK_DEADLOCK FALSE

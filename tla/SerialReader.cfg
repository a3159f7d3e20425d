SPECIFICATION FairSpec
CONSTANTS
  h1 = h1
  h2 = h2
  NilInterface = NilInterface
  NilPointer = NilPointer
  Handles <- TwoHandles
  Faults = {"open"}
  Overhead = 2
  MaxLength = 4
  Streams <- SomeStreams
INVARIANTS TypeOK HandledInOrder NothingHeldBack
PROPERTIES ReaderRecovers DeliversFrames
CHECK_DEADLOCK FALSE

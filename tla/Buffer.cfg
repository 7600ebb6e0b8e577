\* Sizes small enough that the buffer fills, grows, moves its bytes down and
\* spills a read into extrabuf within a few operations.
SPECIFICATION Spec
CONSTANTS
  Byte = {a, b}
  Zero = z
  kCheapPrepend = 2
  kInitialSize = 2
  kExtra = 2
  MaxLen = 3
  MaxSize = 7
INVARIANT AssertsHold
PROPERTY ImplementsByteQueue

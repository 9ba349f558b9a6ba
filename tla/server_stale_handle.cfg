\* A connection that ends while an answer is on its way.
CONSTANTS
  Client = {c1}
  Worker = {w1}
  None = None
  MaxReads = 3
SPECIFICATION Spec
INVARIANT NoWriteOnFreedHandle
CHECK_DEADLOCK FALSE

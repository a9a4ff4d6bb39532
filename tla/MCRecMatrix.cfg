CONSTANTS
  Bits = 4
  Generator = 19
  Factors = {3, 5}
  MIN_THREAD_REC = 2
  Jobs <- MCJobs
SPECIFICATION Spec
INVARIANTS Rebuilds DropsDependent
PROPERTY Returns
CHECK_DEADLOCK FALSE

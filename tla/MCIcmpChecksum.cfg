CONSTANTS
  Headers <- MCHeaders
  Interpreters = {2, 3}
SPECIFICATION Spec
INVARIANTS
  TypeOK
  ChecksumVerifies
CHECK_DEADLOCK FALSE

CONSTANTS
  Size = 11
  Window = 5
  Grant = 3
  Chunk = 2
SPECIFICATION Spec
INVARIANTS TypeOK WindowRespected NeverStalled
PROPERTIES Finishes Delivered
CHECK_DEADLOCK FALSE

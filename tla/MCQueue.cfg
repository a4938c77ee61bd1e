SPECIFICATION Spec
CONSTANTS
  Items = {1, 2, 3, 4}
  Queues = {q1, q2}
  NULL = 0
INVARIANT
  Mirrored
PROPERTY SeqSpec

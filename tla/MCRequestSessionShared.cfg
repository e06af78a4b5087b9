SPECIFICATION Spec
CONSTANTS
  q1 = q1
  q2 = q2
  Requests = {q1, q2}
  Rows <- MCRows
INVARIANTS
  AnsweredIsCommitted
CHECK_DEADLOCK FALSE

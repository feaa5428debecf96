\* Nothing but the end of the session.
CONSTANTS
  MaxLines = 1
  MaxChildren = 1
  MaxInterrupts = 0
SPECIFICATION FairSpec
PROPERTY ExecIsTold
CHECK_DEADLOCK FALSE

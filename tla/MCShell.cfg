\* The threads end or sleep for ever: the shell may stop.
CONSTANTS
  MaxLines = 2
  MaxChildren = 3
  MaxInterrupts = 1
SPECIFICATION Spec
INVARIANT TypeOK
INVARIANT PromptMeansIdle
PROPERTY StartsWhatIsDue
CHECK_DEADLOCK FALSE

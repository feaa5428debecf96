\* Commands of up to four words.
CONSTANTS
  Inputs <- MCInputs
  MaxItems = 4
  Kinds = {"args"}
  MaxLetters = 0
SPECIFICATION Spec
INVARIANT FitsInArgs

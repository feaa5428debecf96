SPECIFICATION ProgramsSpec
\* Commands of up to three items and all short sequences of letters.
CONSTANTS
  Inputs <- MCInputs
  MaxItems = 3
  Kinds = {"args", "input", "output", "bg"}
  MaxLetters = 5
  Lost = lost
  MessageLength = 2
  DisplaySize = 3
  Addresses = 32
  DataStart = 16
  Bytes = 256
  Typed = {2}
  Code <- MCCode
  Programs <- Boot
  MaxDisturbances = 1
INVARIANTS LinesAreParsed TextsAreRight ProcessesCompute KeypadOpens DataIsFound
PROPERTY RunsThePrograms

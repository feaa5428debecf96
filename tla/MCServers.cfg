SPECIFICATION ServersSpec
CONSTANTS
  talker = talker
  other = other
  x = x
  y = y
  Clients = {talker, other}
  Nobody = nobody
  Scripts <- MCScripts
  MaxClients = 1
  DefaultSize = 3
  p1 = p1
  p2 = p2
  Peers = {p1, p2}
  Requests <- MCRequests
  Memory <- MCMemory
  BadPaths = {"bad"}
  Directories = {"dir", "idx"}
  Indexed = {"idx"}
  Files = {"file"}
  Askers = {p1, p2}
  Users <- MCUsers
  Lower <- MCLower
  Invocations <- MCInvocations
  Junk = junk
  NotFound = notfound
  NotWritten = notwritten
INVARIANTS CountersAreRight RepliesAnswerLines LogsWhatWasSent BufferIsTerminated
           EndsClean AnswersTheRequests NobodyIsForgotten PayloadIsTheBody
           AnswersAreRight
PROPERTY NobodyIsCutOff

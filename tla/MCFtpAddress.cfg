SPECIFICATION Spec
CONSTANTS
  talker = talker
  other = other
  x = x
  y = y
  Clients = {talker, other}
  Nobody = nobody
  Scripts <- MCScripts
  MaxClients = 1
  DefaultSize = 3
INVARIANT LogsOwnAddress

SPECIFICATION DebugSpec
CONSTANTS
  LastTurn = 4
  MaxTurns = 2
  MaxInbox = 2
INVARIANTS DebugTypeOK ShowsLog

SPECIFICATION FrontSpec
CONSTANTS
  Guests = {g1}
  Handlers = {h1}
  RequestIds = {r1}
  None = None
  EntryIdle = 2
  Sources = {"visual"}
  Cooldown = 1
  MaxReports = 1
  MaxInbox = 1
PROPERTY TakenStartOpensSearch

SPECIFICATION AnnouncerSpec
CONSTANTS
  Guests = {g1}
  Handlers = {h1}
  RequestIds = {r1, r2}
  None = None
  EntryIdle = 2
  MaxInbox = 2
  InitialBackoff = 1
  MaxBackoff = 3
INVARIANTS AnnouncerTypeOK SaidUnlessMissed
PROPERTIES SkipUnblocks AbandonedKioskReleased ImplementsService ErrorHeard

SPECIFICATION Spec
CONSTANTS
  Guests = {g1}
  Handlers = {h1, h2}
  RequestIds = {r1}
  None = None
  EntryIdle = 1
CONSTRAINT QueueBound
INVARIANT OneGuestAtATime

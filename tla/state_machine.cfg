SPECIFICATION Spec
CONSTANTS
  Guests = {g1, g2}
  Handlers = {h1, h2}
  RequestIds = {r1, r2}
  None = None
  EntryIdle = 2
SYMMETRY Symmetry
CONSTRAINT QueueBound
INVARIANTS TypeOK OneOwner SnapshotCoherent SkipOnlyThisCycle
PROPERTIES ErrorHeld

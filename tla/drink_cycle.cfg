SPECIFICATION DrinkFairSpec
CONSTANTS
  Guests = {g1}
  Handlers = {h1}
  RequestIds = {r0, r1, r2}
  InitialId = r0
  None = None
  EntryIdle = 1
INVARIANTS DrinkTypeOK OnceAGuest PlacedAfterLoaded TimeoutsAreRetried NoSpuriousMismatch
PROPERTIES DrinkCycleEnds

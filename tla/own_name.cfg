SPECIFICATION KioskSpec
CONSTANTS
  g1 = g1
  g2 = g2
  Guests = {g1, g2}
  Record <- MCRecord
  Letters <- MCLetters
  Digits <- MCDigits
  Spaces <- MCSpaces
  Fold <- MCFold
  Queries <- MCQueries
  None = None
  MaxInbox = 2
  MaxSearches = 1
INVARIANT OwnNameSaved

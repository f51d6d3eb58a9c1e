SPECIFICATION FairSpec
CONSTANTS
  c1 = c1
  c2 = c2
  plain = plain
  zoned = zoned
  bad = bad
  NoRow = NoRow
  NoFlight = NoFlight
  NoCalendar = NoCalendar
  Calendars = {c1, c2}
  Contents = {plain, zoned, bad}
  Malformed = {bad}
  Flat <- MCFlat
  MaxRows = 4
  MaxStamp = 1
  MaxEdits = 2
  MaxFaults = 2
  MaxOutside = 1
  MaxUpsets = 3
INVARIANTS TypeOK IInv UnpushedStaysQueued CopiesBoundedByEdits
PROPERTIES QueuedChangesRetained ImplementsOutbox OthersUntouched QueueDrains RemoteChangesArrive

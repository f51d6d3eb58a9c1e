SPECIFICATION FairSpec
CONSTANTS
  c1 = c1
  c2 = c2
  a = a
  b = b
  bad = bad
  NoRow = NoRow
  NoEvent = NoEvent
  NoFlight = NoFlight
  NoCalendar = NoCalendar
  Calendars = {c1, c2}
  Contents = {a, b, bad}
  Malformed = {bad}
  MaxRows = 4
  MaxStamp = 1
  MaxEdits = 1
  MaxRemote = 3
  MaxFaults = 1
  MaxOutside = 1
INVARIANTS TypeOK IInv CountInv UnpushedStaysQueued ReplyNeverConflicts CopiesBoundedByFaults EchoesBounded
PROPERTIES QueuedWorkRetained ImplementsOutbox QueueDrains Converges

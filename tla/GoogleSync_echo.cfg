SPECIFICATION Spec
CONSTANTS
  c1 = c1
  c2 = c2
  a = a
  b = b
  bad = bad
  NoRow = NoRow
  NoEvent = NoEvent
  NoFlight = NoFlight
  NoCalendar = NoCalendar
  Calendars = {c1, c2}
  Contents = {a}
  Malformed = {}
  MaxRows = 2
  MaxStamp = 1
  MaxEdits = 1
  MaxRemote = 2
  MaxFaults = 0
  MaxOutside = 0
INVARIANT EchoNeverImported

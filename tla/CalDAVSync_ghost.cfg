SPECIFICATION FairSpec
CONSTANTS
  c1 = c1
  c2 = c2
  plain = plain
  zoned = zoned
  bad = bad
  NoRow = NoRow
  NoFlight = NoFlight
  NoCalendar = NoCalendar
  Calendars = {c1}
  Contents = {plain}
  Malformed = {}
  Flat <- MCFlat
  MaxRows = 3
  MaxStamp = 0
  MaxEdits = 0
  MaxFaults = 0
  MaxOutside = 2
  MaxUpsets = 2
PROPERTY RemoteDeletionsArrive

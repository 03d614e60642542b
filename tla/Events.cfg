\* Two clips over three frames; two events of one incident code through two web
\* threads; three updates by two operators.
CONSTANTS
  Events = {e1, e2}
  RingSize = 2
  Pre = 1
  Post = 1
  ClipQueue = 1
  MaxTime = 3
  long1 = long1
  long2 = long2
  AllEvents = {long1, long2}
  Codes = {"long"}
  Code <- CodeOf
  WebThreads = {w1, w2}
  SearchLimit = 1
  MaxRows = 2
  Operators = {o1, o2}
  Statuses = {"DETECTED", "REVIEWING", "RESOLVED"}
  Final = {"RESOLVED"}
  MaxUpdates = 3
SPECIFICATION EventSpec
INVARIANTS ClipKeepsItsWindow NoticesAreTrue IncidentRecordAddsUp
PROPERTIES EventsLeave ImplementsDelivery
CHECK_DEADLOCK FALSE

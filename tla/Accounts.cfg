\* One account, two web threads, two codes; two people and two threads in two
\* rooms.
CONSTANTS
  Web = {w1, w2}
  Sockets = {s1}
  Reports = {r1}
  MaxCodes = 2
  MaxStates = 1
  People = {u1, u2}
  Supers = {u2}
  ChatThreads = {t1, t2}
  MaxRooms = 2
  MaxMembers = 2
  MaxMessages = 1
  MaxReads = 2
SPECIFICATION PeopleSpec
SYMMETRY Threads
INVARIANTS AccountRecordsAgree OnlyTheApprovedAct ChatIsSerialButForOverlaps
CHECK_DEADLOCK FALSE

\* Two people, two web threads.
CONSTANTS
  People = {u1, u2}
  Supers = {}
  ChatThreads = {t1, t2}
  MaxRooms = 1
  MaxMembers = 4
  MaxMessages = 1
  MaxReads = 1
SPECIFICATION ChatSpec
INVARIANT NoDuplicateMember
CHECK_DEADLOCK FALSE

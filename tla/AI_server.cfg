\* Two request threads, two generations of a camera; two readers; two
\* viewers of two cameras, one place each; two uploads.
CONSTANTS
  Handlers = {h1, h2}
  QueueSize = 1
  MaxWorkers = 2
  MaxRequests = 3
  Readers = {r1, r2}
  MaxImages = 4
  MaxFrames = 2
  Clients = {c1, c2}
  Cameras = {k1, k2}
  MaxTotal = 2
  MaxPerCamera = 1
  Requests = {q1, q2}
  MaxConcurrent = 1
SPECIFICATION ServerSpec
INVARIANTS StoppedCameraIsStill CacheAtMostOneBehind CountersMatchSlots NeverTooMany NothingHeldAfterSuccess
PROPERTIES ViewersReplaceOnlyNewcomers StopTakesEffect ImplementsPool SlotsComeBack
CHECK_DEADLOCK FALSE

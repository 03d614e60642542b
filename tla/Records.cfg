\* Two web threads and three status changes; two administrators, two regions, two
\* puts; three media files of which one may stay; three list requests in two
\* processes; four frames of two vehicles.
CONSTANTS
  w1 = w1  w2 = w2
  f1 = f1  f2 = f2  f3 = f3
  c1 = c1  c2 = c2
  t1 = t1  t2 = t2  t3 = t3
  RecordThreads = {w1, w2}
  MaxChanges = 3
  MaxPlaces = 2
  RowThreads = {w1, w2}
  Statuses = {"OPEN", "CLOSED"}
  MaxWrites = 3
  UploadThreads = {w1, w2}
  MaxFiles = 3
  Media = {f1, f2, f3}
  MaxMedia = 1
  MaxEvents = 2
  Admins = {w1, w2}
  RoiTypes = {"SHOULDER", "DRIVING_LANE"}
  Cams = {m, n}
  MainCam = m
  NoCam = NoCam
  Codes = {c1, c2}
  MaxRois = 2
  MaxPuts = 2
  ListThreads = {t1, t2, t3}
  Process <- ProcessOf
  Ttl = 0
  StaleMax = 1
  AllowStale = TRUE
  MaxTicks = 2
  MaxSaves = 2
  Spots = {1, 2, 4}
  Classes = {"CAR"}
  Sources = {1}
  Overlaps <- OverlapsOf
  MovePx = 1
  MatchPx = 2
  DangerTime = 2
  StaleFrames = 2
  MaxFrames = 4
  MaxSeen = 2
SPECIFICATION RecordsSpec
INVARIANTS ReportRecordAddsUp DeletedReportStaysDeleted SharedRowsKeepTheirWrites RowHasItsFile
  NoOrphanFile ProtectedMediaKept CctvTablesAgree CacheIsWhole OneEventPerStop
SYMMETRY Alike
CHECK_DEADLOCK FALSE

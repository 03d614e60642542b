------------------------------- MODULE MCRecords -------------------------------
(* Small instances of the parts that keep records and files and touch one  *)
(* another nowhere: a report's record, shared rows, stored files, the      *)
(* media sweep, the CCTV tables (flask-vm), the ITS list's cache and the   *)
(* stop analyzer (ai-vm).  A behaviour follows one part; the others stay   *)
(* at rest.                                                                *)
EXTENDS ReportRecord, SharedRows, StoredFiles, MediaCleanup, CctvRecords, ItsCache, StopAnalyzer, TLC

CONSTANTS w1, w2, f1, f2, f3, c1, c2, t1, t2, t3

\* Two request threads in one process, a third in another.
ProcessOf(w) == IF w = t3 THEN "q" ELSE "p"

\* Spot 1 is in a driving lane, 2 on the shoulder and the lane, 4 in a zone to
\* ignore.  A vehicle may stand between 1 and 2, and move between 2 and 4.
OverlapsOf ==
  [s \in {1, 2, 4} |->
    CASE s = 1 -> {[type |-> "DRIVING_LANE", overlap |-> 50]}
      [] s = 2 -> {[type |-> "DRIVING_LANE", overlap |-> 60], [type |-> "SHOULDER", overlap |-> 35]}
      [] OTHER -> {[type |-> "IGNORE_ZONE", overlap |-> 30]}]

Alike == Permutations({w1, w2}) \cup Permutations({c1, c2})

VARIABLE part

RecordsInit ==
  /\ part \in {"record", "rows", "files", "media", "cctv", "list", "stop"}
  /\ RecordInit /\ RowsInit /\ FilesInit /\ MediaInit /\ CctvInit /\ ListInit /\ StopInit
  /\ part # "media" => present = {} /\ age = [f \in Media |-> 0]
  /\ cams[MainCam].code = c1     \* the codes are alike

RecordsNext ==
  /\ UNCHANGED part
  /\ \/ part = "record" /\ RecordNext
        /\ UNCHANGED <<rowVars, fileVars, mediaVars, cctvVars, listVars, stopVars>>
     \/ part = "rows" /\ RowsNext
        /\ UNCHANGED <<recordVars, fileVars, mediaVars, cctvVars, listVars, stopVars>>
     \/ part = "files" /\ FilesNext
        /\ UNCHANGED <<recordVars, rowVars, mediaVars, cctvVars, listVars, stopVars>>
     \/ part = "media" /\ MediaNext
        /\ UNCHANGED <<recordVars, rowVars, fileVars, cctvVars, listVars, stopVars>>
     \/ part = "cctv" /\ CctvNext
        /\ UNCHANGED <<recordVars, rowVars, fileVars, mediaVars, listVars, stopVars>>
     \/ part = "list" /\ ListNext
        /\ UNCHANGED <<recordVars, rowVars, fileVars, mediaVars, cctvVars, stopVars>>
     \/ part = "stop" /\ StopNext
        /\ UNCHANGED <<recordVars, rowVars, fileVars, mediaVars, cctvVars, listVars>>

RecordsSpec == RecordsInit /\ [][RecordsNext]_<<part, recordVars, rowVars, fileVars, mediaVars, cctvVars, listVars, stopVars>>
=============================================================================

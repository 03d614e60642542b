------------------------------ MODULE StopAnalyzer ------------------------------
(***************************************************************************)
(* Stopped vehicles in an uploaded video: the detections of each frame are *)
(* matched to tracks, and a track that stays long enough gives one event   *)
(* (ai-vm report_stop_analyzer.py).                                        *)
(*                                                                         *)
(* A place is a point of a line and a time the number of a frame, as the   *)
(* video's time is the frame number over its rate.  Detections that are no *)
(* vehicles or below the least confidence are ignored in the code and left *)
(* out here, as are the annotations and the counters of the result.        *)
(***************************************************************************)
EXTENDS Naturals, Sequences, FiniteSets

CONSTANTS
  Spots, Classes,      \* places of detections, classes of vehicles
  Sources,             \* ids the detector's own tracker gives, all above 0; 0: none
  Overlaps,            \* for each spot the regions there: [type, overlap]
  MovePx, MatchPx,     \* REPORT_STOPPED_MOVE_PX, EVENT_TRACK_MATCH_DISTANCE
  DangerTime,          \* REPORT_STOP_DANGER_SECONDS, in frames
  StaleFrames,         \* EVENT_TRACK_STALE_FRAMES
  MaxFrames, MaxSeen   \* bounds: frames, vehicles in one frame

\* With a DangerTime of 0 the code would tell of vehicles that move, too.
ASSUME StopAssumption ==
  /\ Spots \subseteq Nat /\ Sources \subseteq Nat \ {0}
  /\ MovePx \in Nat /\ MatchPx \in Nat /\ StaleFrames \in Nat
  /\ DangerTime \in Nat \ {0}
  /\ MaxFrames \in Nat /\ MaxSeen \in Nat

VARIABLES
  frame,     \* the frame's number, from 1
  tracks,    \* the tracks: id -> [class, spot, last, since, emitted, path, told]; since:
             \* stopped_started_at, 0 if none; path: its sightings, [at, spot], and told:
             \* the frames of its events (history)
  nextTrack, \* _next_track_id
  matched    \* tracks matched in this frame

stopVars == <<frame, tracks, nextTrack, matched>>

StopInit == frame = 1 /\ tracks = <<>> /\ nextTrack = 1 /\ matched = {}

TrackIds == DOMAIN tracks
Distance(a, b) == IF a < b THEN b - a ELSE a - b

\* _purge_stale_tracks, at the start of the next frame.  A frame may have none.
NextFrame ==
  /\ frame < MaxFrames
  /\ frame' = frame + 1
  /\ tracks' = [t \in {u \in TrackIds : frame + 1 - tracks[u].last <= StaleFrames} |-> tracks[t]]
  /\ matched' = {}
  /\ UNCHANGED nextTrack

-----------------------------------------------------------------------------
(* _match_track *)

\* By the detector's own id: a track of it, if the class is the same, or a new one.
BySource(d) ==
  IF d.source # 0 /\ d.source \notin matched
       /\ (d.source \in TrackIds => tracks[d.source].class = d.class)
    THEN {d.source} ELSE {}

Near(d) ==
  {t \in TrackIds \ matched : tracks[t].class = d.class /\ Distance(tracks[t].spot, d.spot) <= MatchPx}

\* The nearest; of two, here, any (in the code the one that was made last).
Nearest(d) == {t \in Near(d) : \A u \in Near(d) : Distance(tracks[t].spot, d.spot) <= Distance(tracks[u].spot, d.spot)}

MatchTrack(d) ==
  IF BySource(d) # {} THEN BySource(d) ELSE IF Near(d) # {} THEN Nearest(d) ELSE {nextTrack}

-----------------------------------------------------------------------------
(* _roi_context_for_overlaps: percent of the vehicle's box in each region *)

Over(s, types, percent) == \E o \in Overlaps[s] : o.type \in types /\ o.overlap >= percent

Excluded(s) == Over(s, {"IGNORE_ZONE", "MEDIAN"}, 30)

IncidentType(s) ==
  IF Over(s, {"SHOULDER", "EMERGENCY_BAY"}, 35) THEN "SHOULDER_STOP"
  ELSE IF Over(s, {"DRIVING_LANE"}, 35) THEN "LANE_STOP" ELSE "STOPPED_VEHICLE"

-----------------------------------------------------------------------------
(* update, for one detection *)

\* Mutant: the time of the stop is kept while the vehicle moves.
NeverRestarted(tr, d) == IF tr.since = 0 THEN tr.last ELSE tr.since

\* Since when it has stopped: since the sighting before, if it has not moved.
StoppedSince(tr, d) ==
  IF Distance(tr.spot, d.spot) > MovePx THEN 0 ELSE IF tr.since = 0 THEN tr.last ELSE tr.since

Moved(tr, d) == Distance(tr.spot, d.spot) > MovePx

\* Sure enough, for long enough, and where it counts.
IsStop(tr, d) ==
  LET since == StoppedSince(tr, d) IN
  since # 0 /\ d.sure /\ frame - since >= DangerTime /\ ~Excluded(d.spot)

Updated(tr, d) ==
  LET told == tr.emitted /\ ~Moved(tr, d)     \* the event of this stop is out
      stop == IsStop(tr, d)
  IN [class |-> d.class, spot |-> d.spot, last |-> frame, since |-> StoppedSince(tr, d),
      emitted |-> told \/ stop,
      path |-> Append(tr.path, [at |-> frame, spot |-> d.spot]),
      told |-> IF stop /\ ~told
                 THEN Append(tr.told, [at |-> frame, type |-> IncidentType(d.spot)]) ELSE tr.told]

NewTrack(d) ==
  [class |-> d.class, spot |-> d.spot, last |-> frame, since |-> 0, emitted |-> FALSE,
   path |-> <<[at |-> frame, spot |-> d.spot]>>, told |-> <<>>]

Detect ==
  /\ Cardinality(matched) < MaxSeen
  /\ \E s \in Spots, c \in Classes, n \in Sources \cup {0}, sure \in BOOLEAN :
       LET d == [spot |-> s, class |-> c, source |-> n, sure |-> sure] IN
       \E t \in MatchTrack(d) :
         /\ tracks' = [u \in TrackIds \cup {t} |->
              IF u # t THEN tracks[u] ELSE IF t \in TrackIds THEN Updated(tracks[t], d) ELSE NewTrack(d)]
         /\ nextTrack' = IF t >= nextTrack THEN t + 1 ELSE nextTrack
         /\ matched' = matched \cup {t}
  /\ UNCHANGED frame

StopNext == NextFrame \/ Detect

StopSpec == StopInit /\ [][StopNext]_stopVars

-----------------------------------------------------------------------------
\* The sightings of a track from a to b, frame numbers, are those of a vehicle that
\* stands: each at most MovePx from the one before.
Stands(path, a, b) ==
  \A i \in 1 .. Len(path) - 1 :
    path[i].at >= a /\ path[i + 1].at <= b => Distance(path[i].spot, path[i + 1].spot) <= MovePx

\* Every event is of a track that was seen standing for DangerTime, seen at both ends
\* and never lost for more than StaleFrames, and in no excluded region; and between
\* two events of a track it moved.
OneEventPerStop ==
  \A t \in TrackIds :
    LET path == tracks[t].path
        told == tracks[t].told
    IN /\ \A k \in 1 .. Len(told) :
            /\ \E i, j \in 1 .. Len(path) :
                 /\ path[j].at = told[k].at /\ path[i].at + DangerTime <= path[j].at
                 /\ Stands(path, path[i].at, path[j].at)
                 /\ ~Excluded(path[j].spot)
            /\ \A i \in 1 .. Len(path) - 1 : path[i + 1].at - path[i].at <= StaleFrames
       /\ \A k \in 1 .. Len(told) - 1 : ~Stands(path, told[k].at, told[k + 1].at)
=============================================================================

---------------------------- MODULE ReportDetection ----------------------------
(***************************************************************************)
(* POST /detect of the AI server (detect_legacy_report_file in             *)
(* ai-vm/app/main.py): the analysis of one uploaded report file.           *)
(*                                                                         *)
(* The endpoint is a coroutine.  It awaits the upload and nothing else, so *)
(* from then on the event loop runs it, detections included, to its end.   *)
(* A video goes to a temporary file first; the last lines of a request     *)
(* that succeeds remove it, or try to.                                     *)
(*                                                                         *)
(* A request is a caller's; the AI gateway (ReportAnalysis) is the caller. *)
(* Detections, the stop analysis and the fields of the answer are left     *)
(* out: what is found is a choice.                                         *)
(***************************************************************************)
EXTENDS Integers, FiniteSets

CONSTANTS
  Requests,
  MaxConcurrent,  \* REPORT_DETECT_MAX_CONCURRENT, at least 1
  MaxFrames       \* max_frames: frames a video is analysed for

ASSUME DetectionAssumption ==
  /\ MaxConcurrent \in Nat \ {0}
  /\ MaxFrames \in Nat \ {0}
  /\ IsFiniteSet(Requests)

VARIABLES
  step,     \* where each request is
  kind,     \* "video" or "image", once the upload is read
  left,     \* frames a request may still analyse
  found,    \* whether a request has detections, and a stop
  permits,  \* _detect_inference_semaphore
  temp,     \* requests whose temporary file exists
  stuck,    \* requests whose unlink failed (history)
  media,    \* the annotated files each request has written
  answer    \* the answer to each request

detectVars == <<step, kind, left, found, permits, temp, stuck, media, answer>>

Errors == {"400", "413", "429", "503", "500"}
Running == {"check", "frame", "infer", "snapshot", "video", "image", "clean"}
NoneFound == [detections |-> FALSE, stop |-> FALSE]

DetectInit ==
  /\ step = [r \in Requests |-> "upload"]
  /\ kind = [r \in Requests |-> "image"]
  /\ left = [r \in Requests |-> 0]
  /\ found = [r \in Requests |-> NoneFound]
  /\ permits = MaxConcurrent
  /\ temp = {} /\ stuck = {}
  /\ media = [r \in Requests |-> {}]
  /\ answer = [r \in Requests |-> "none"]

\* Mutant: the endpoint is a plain function, which a thread pool runs.
LoopIsFreeAlways == TRUE

\* The event loop runs one request at a time between two awaits.
LoopIsFree == \A r \in Requests : step[r] \notin Running

Reach(r, label) == step' = [step EXCEPT ![r] = label]
Answer(r, a) == answer' = [answer EXCEPT ![r] = a] /\ Reach(r, "over")

\* await file.read() returns.
Uploaded(r) ==
  /\ step[r] = "upload"
  /\ LoopIsFree
  /\ \E k \in {"video", "image"} :
       /\ kind' = [kind EXCEPT ![r] = k]
       /\ left' = [left EXCEPT ![r] = IF k = "video" THEN MaxFrames ELSE 1]
  /\ Reach(r, "check")
  /\ UNCHANGED <<found, permits, temp, stuck, media, answer>>

\* An empty or too large file, a bad ROI payload, an unknown model or one that cannot
\* be loaded, or an image that does not decode.
Rejected(r) ==
  /\ step[r] = "check"
  /\ \E e \in {"400", "413", "503"} : Answer(r, e)
  /\ UNCHANGED <<kind, left, found, permits, temp, stuck, media>>

Accepted(r) ==
  /\ step[r] = "check"
  /\ temp' = IF kind[r] = "video" THEN temp \cup {r} ELSE temp
  /\ Reach(r, "frame")
  /\ UNCHANGED <<kind, left, found, permits, stuck, media, answer>>

\* The video does not open, or something raises between the detections: the
\* finally releases the capture, not the file.
VideoFails(r) ==
  /\ step[r] \in {"frame", "snapshot", "video", "image"}
  /\ \E e \in {"400", "500"} : Answer(r, e)
  /\ UNCHANGED <<kind, left, found, permits, temp, stuck, media>>

\* detect_with_metrics: the permit is taken without waiting, or 429.
TakePermit(r) ==
  /\ step[r] = "frame"
  /\ left[r] > 0
  /\ IF permits > 0
       THEN permits' = permits - 1 /\ Reach(r, "infer") /\ UNCHANGED answer
       ELSE Answer(r, "429") /\ UNCHANGED permits
  /\ UNCHANGED <<kind, left, found, temp, stuck, media>>

\* finally: _detect_inference_semaphore.release()
ReleasePermit(failed) == permits' = permits + 1

Detected(r) ==
  /\ step[r] = "infer"
  /\ ReleasePermit(FALSE)
  /\ left' = [left EXCEPT ![r] = @ - 1]
  /\ \E d \in BOOLEAN, s \in BOOLEAN :
       /\ s => d /\ kind[r] = "video"
       /\ found' = [found EXCEPT ![r] = [detections |-> @.detections \/ d, stop |-> @.stop \/ s]]
  /\ Reach(r, "frame")
  /\ UNCHANGED <<kind, temp, stuck, media, answer>>

DetectionFails(r) ==
  /\ step[r] = "infer"
  /\ ReleasePermit(TRUE)
  /\ \E e \in {"503", "500"} : Answer(r, e)
  /\ UNCHANGED <<kind, left, found, temp, stuck, media>>

\* The frames are done: none is left, or the video has no more.
FramesDone(r) ==
  /\ step[r] = "frame"
  /\ left[r] = 0 \/ kind[r] = "video"
  /\ Reach(r, IF kind[r] = "image" THEN "image" ELSE IF found[r].stop THEN "snapshot" ELSE "video")
  /\ UNCHANGED <<kind, left, found, permits, temp, stuck, media, answer>>

Writes(r, files) == media' = [media EXCEPT ![r] = @ \cup files]

\* The frame of the last stop is drawn; imwrite may fail.
StopSnapshot(r) ==
  /\ step[r] = "snapshot"
  /\ \/ Writes(r, {"stop"})
     \/ UNCHANGED media
  /\ Reach(r, "video")
  /\ UNCHANGED <<kind, left, found, permits, temp, stuck, answer>>

\* _save_report_analysis_annotated_video: the raw video, then its H.264 form,
\* and the raw one goes; without ffmpeg the raw one is what is served.  Nothing
\* is written without detections, or if the capture or the writer fails.
AnnotatedVideo(r) ==
  /\ step[r] = "video"
  /\ found[r].detections
  /\ \/ Writes(r, {"h264"})
     \/ Writes(r, {"raw"})
     \/ Writes(r, {"raw", "h264"})    \* the raw file could not be removed
  /\ Reach(r, "clean")
  /\ UNCHANGED <<kind, left, found, permits, temp, stuck, answer>>

NoAnnotatedVideo(r) ==
  /\ step[r] = "video"
  /\ Reach(r, IF "stop" \in media[r] THEN "clean" ELSE "image")
  /\ UNCHANGED <<kind, left, found, permits, temp, stuck, media, answer>>

\* The frame with most detections is drawn, if there are any.
AnnotatedImage(r) ==
  /\ step[r] = "image"
  /\ \/ found[r].detections /\ Writes(r, {"image"})
     \/ UNCHANGED media
  /\ Reach(r, "clean")
  /\ UNCHANGED <<kind, left, found, permits, temp, stuck, answer>>

\* Mutant: the temporary file is only removed if a video was drawn.
RemoveIfDrawn(r) == temp' = (IF "h264" \in media[r] THEN temp \ {r} ELSE temp) /\ UNCHANGED stuck

\* A video's unlink may fail, which is not reported.
RemoveTemp(r) ==
  \/ temp' = temp \ {r} /\ UNCHANGED stuck
  \/ kind[r] = "video" /\ stuck' = stuck \cup {r} /\ UNCHANGED temp

\* The temporary file is removed, or is not, and the answer given.
Complete(r) ==
  /\ step[r] = "clean"
  /\ RemoveTemp(r)
  /\ Answer(r, "200")
  /\ UNCHANGED <<kind, left, found, permits, media>>

Detect(r) ==
  \/ Uploaded(r) \/ Rejected(r) \/ Accepted(r) \/ VideoFails(r)
  \/ TakePermit(r) \/ Detected(r) \/ DetectionFails(r) \/ FramesDone(r)
  \/ StopSnapshot(r) \/ AnnotatedVideo(r) \/ NoAnnotatedVideo(r)
  \/ AnnotatedImage(r) \/ Complete(r)

DetectNext == \E r \in Requests : Detect(r)

DetectSpec == DetectInit /\ [][DetectNext]_detectVars

-----------------------------------------------------------------------------
DetectTypeOK ==
  /\ step \in [Requests -> {"upload", "over"} \cup Running]
  /\ kind \in [Requests -> {"video", "image"}]
  /\ left \in [Requests -> 0 .. MaxFrames]
  /\ found \in [Requests -> [detections : BOOLEAN, stop : BOOLEAN]]
  /\ permits \in 0 .. MaxConcurrent
  /\ temp \subseteq Requests
  /\ media \in [Requests -> SUBSET {"stop", "raw", "h264", "image"}]
  /\ answer \in [Requests -> Errors \cup {"none", "200"}]

\* No request is refused for lack of a permit: the coroutine holds one only
\* while it keeps the event loop, so no other request can ask for it then.
NeverTooMany == \A r \in Requests : answer[r] # "429"

\* A temporary file outlives its request only if that failed, or could not unlink the
\* file, of which its answer 200 says nothing; and every permit is free while no
\* detection runs, however those before it ended.
NothingHeldAfterSuccess ==
  /\ \A r \in temp : step[r] \in Running \/ answer[r] \in Errors \/ r \in stuck
  /\ (\A r \in Requests : step[r] # "infer") => permits = MaxConcurrent
=============================================================================

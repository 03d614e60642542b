--------------------------- MODULE AiServer_proofs ---------------------------
(*****************************************************************************)
(* The AI server, for any number of handlers, readers, requests, frames and  *)
(* restarts of a camera.                                                     *)
(*                                                                           *)
(* Each part has an inductive invariant of its own.  A camera's says how far *)
(* every stop has come: what its joins have seen to end stays ended, unless a *)
(* join gave up on it (late).  The image's says that the frame lags behind its *)
(* counter by one, and only inside the swap.  A detection's says that the event *)
(* loop lets one request at a time run between two awaits, and what it holds. *)
(* The counters of the stream slots are exact.                               *)
(*****************************************************************************)
EXTENDS CameraPipeline, LatestImage, ReportDetection, StreamSlots, FiniteSetTheorems, TLAPS

-----------------------------------------------------------------------------
(* The image a browser gets *)

\* Versions are never ahead of the counter, and an image of the current version is
\* the latest frame or the one before.
Recent(jpeg) ==
  /\ jpeg[1] <= frames
  /\ jpeg[1] = frames /\ frames # 0 => jpeg[2] \in {frames - 1, frames}

ImageInv ==
  /\ ImageTypeOK
  /\ latest = IF swapping THEN frames - 1 ELSE frames
  /\ Recent(cache)
  /\ \A r \in Readers : Recent(copy[r])

LEMMA NoJpegIsRecent == ASSUME frames \in Nat PROVE Recent(NoJpeg)
  BY DEF Recent, NoJpeg

\* The counter and the latest frame begin together.
LEMMA ImageInitInv == ImageInit => ImageInv
<1>. SUFFICES ASSUME ImageInit PROVE ImageInv
  OBVIOUS
<1>1. NoJpeg \in (0 .. MaxImages) \X (0 .. MaxImages)
  BY ImageAssumption DEF NoJpeg
<1>2. frames = 0 /\ latest = 0 /\ swapping = FALSE /\ cache = NoJpeg
  BY DEF ImageInit
<1>3. \A r \in Readers : copy[r] = NoJpeg
  BY DEF ImageInit
<1>4. copy \in [Readers -> (0 .. MaxImages) \X (0 .. MaxImages)]
  BY <1>1, Zenon DEF ImageInit
<1>5. served \in [Readers -> 0 .. MaxImages] /\ 0 \in 0 .. MaxImages
  BY ImageAssumption DEF ImageInit
<1>6. ImageTypeOK
  BY <1>1, <1>2, <1>4, <1>5 DEF ImageTypeOK
<1>. QED
  BY <1>2, <1>3, <1>6, NoJpegIsRecent DEF ImageInv

LEMMA ImageStep == ASSUME ImageInv, ImageNext PROVE ImageInv'
<1>. USE ImageAssumption DEF ImageInv
<1>1. CASE CountFrame
  BY <1>1 DEF CountFrame, Recent, ImageTypeOK
<1>2. CASE SwapFrame
  <2>1. cache' = <<0, 0>> /\ latest' = frames /\ swapping' = FALSE /\ frames' = frames /\ copy' = copy
        /\ served' = served
    BY <1>2 DEF SwapFrame, NoJpeg
  <2>2. Recent(cache)' /\ \A r \in Readers : Recent(copy[r])'
    BY <2>1 DEF Recent, ImageTypeOK
  <2>3. <<0, 0>> \in (0 .. MaxImages) \X (0 .. MaxImages)
    OBVIOUS
  <2>4. ImageTypeOK'
    BY <2>1, <2>3 DEF ImageTypeOK
  <2>5. latest' = IF swapping' THEN frames' - 1 ELSE frames'
    BY <2>1
  <2>. QED
    BY <2>2, <2>4, <2>5
<1>3. ASSUME NEW r \in Readers, ServeCached(r) PROVE ImageInv'
  BY <1>3 DEF ServeCached, Serve, Recent, ImageTypeOK
<1>4. ASSUME NEW r \in Readers, CopyFrame(r) PROVE ImageInv'
  <2>1. Recent(<<frames, latest>>)
    BY DEF Recent, ImageTypeOK
  <2>2. copy'[r] = <<frames, latest>> /\ \A s \in Readers \ {r} : copy'[s] = copy[s]
    BY <1>4 DEF CopyFrame, ImageTypeOK
  <2>. QED
    BY <1>4, <2>1, <2>2 DEF CopyFrame, Recent, ImageTypeOK
<1>5. ASSUME NEW r \in Readers, Encoded(r) PROVE ImageInv'
  <2>1. Recent(NoJpeg)
    BY NoJpegIsRecent DEF ImageTypeOK
  <2>2. copy'[r] = NoJpeg /\ \A s \in Readers \ {r} : copy'[s] = copy[s]
    BY <1>5 DEF Encoded, ImageTypeOK
  <2>. QED
    BY <1>5, <2>1, <2>2 DEF Encoded, StoreIfCurrent, Serve, Recent, NoJpeg, ImageTypeOK
<1>6. ASSUME NEW r \in Readers, EncodeFailed(r) PROVE ImageInv'
  <2>1. Recent(NoJpeg)
    BY NoJpegIsRecent DEF ImageTypeOK
  <2>2. copy'[r] = NoJpeg /\ \A s \in Readers \ {r} : copy'[s] = copy[s]
    BY <1>6 DEF EncodeFailed, ImageTypeOK
  <2>. QED
    BY <1>6, <2>1, <2>2 DEF EncodeFailed, Recent, NoJpeg, ImageTypeOK
<1>. QED
  BY <1>1, <1>2, <1>3, <1>4, <1>5, <1>6 DEF ImageNext

\* For any readers and number of frames: what a browser gets is the latest frame or
\* the one before, though set_latest_frame counts before it swaps the frame in
\* (camera_worker.py).
THEOREM ImageSafety == ImageSpec => []CacheAtMostOneBehind
<1>1. ImageInv /\ UNCHANGED imageVars => ImageInv'
  BY DEF ImageInv, ImageTypeOK, Recent, imageVars
<1>2. ImageInv => CacheAtMostOneBehind
  BY DEF ImageInv, Recent, CacheAtMostOneBehind
<1>. QED
  BY ImageInitInv, ImageStep, <1>1, <1>2, PTL DEF ImageSpec

-----------------------------------------------------------------------------
(* POST /detect: permits and temporary files *)

Infers(r) == step[r] = "infer"

\* One request at most is between two awaits, so a permit is out only while that one
\* detects; it has a frame left then.
OneRuns ==
  /\ \A r, s \in Requests : step[r] \in Running /\ step[s] \in Running => r = s
  /\ permits = IF \E r \in Requests : Infers(r) THEN MaxConcurrent - 1 ELSE MaxConcurrent
  /\ \A r \in Requests : Infers(r) => left[r] > 0

DetectInv == DetectTypeOK /\ OneRuns /\ NeverTooMany /\ NothingHeldAfterSuccess

LEMMA DetectInitInv == DetectInit => DetectInv
  BY DetectionAssumption
  DEF DetectInit, DetectInv, DetectTypeOK, OneRuns, Infers, NeverTooMany, NothingHeldAfterSuccess,
      NoneFound, Running, Errors

\* A step of one request to where it does not detect, from where it did not.
LEMMA ReachStep ==
  ASSUME DetectInv, DetectTypeOK', NEW r \in Requests, NEW label, Reach(r, label),
         label # "infer", ~Infers(r), UNCHANGED permits,
         label \in Running => (step[r] \in Running \/ LoopIsFree),
         \A s \in Requests : Infers(s) => left'[s] = left[s]
  PROVE  OneRuns'
<1>1. step'[r] = label /\ \A s \in Requests : s # r => step'[s] = step[s]
  BY DEF DetectInv, DetectTypeOK, Reach
<1>2. \A s \in Requests : Infers(s)' <=> Infers(s)
  BY <1>1 DEF Infers
<1>3. \A s, t \in Requests : step'[s] \in Running /\ step'[t] \in Running => s = t
  <2>1. \A s, t \in Requests : step[s] \in Running /\ step[t] \in Running => s = t
    BY DEF DetectInv, OneRuns
  <2>. QED
    BY <1>1, <2>1 DEF LoopIsFree
<1>. QED
  BY <1>2, <1>3 DEF DetectInv, OneRuns, Infers

\* What is held of the steps that touch neither a permit nor a temporary file.
LEMMA HeldStep ==
  ASSUME DetectInv, DetectTypeOK', NEW r \in Requests, OneRuns', temp' \subseteq temp \cup {r}, stuck \subseteq stuck',
         \A s \in Requests : s # r => step'[s] = step[s] /\ answer'[s] = answer[s],
         r \in temp' => step'[r] \in Running \/ answer'[r] \in Errors \/ r \in stuck',
         answer'[r] # "429"
  PROVE  NeverTooMany' /\ NothingHeldAfterSuccess'
<1>1. NeverTooMany'
  BY DEF DetectInv, NeverTooMany
<1>2. \A s \in temp' : step'[s] \in Running \/ answer'[s] \in Errors \/ s \in stuck'
  BY DEF DetectInv, DetectTypeOK, NothingHeldAfterSuccess
<1>3. (\A s \in Requests : step'[s] # "infer") => permits' = MaxConcurrent
  BY DEF OneRuns, Infers
<1>. QED
  BY <1>1, <1>2, <1>3 DEF NothingHeldAfterSuccess

LEMMA AnswerType ==
  ASSUME DetectTypeOK, NEW r \in Requests, NEW a \in Errors \cup {"200"}, Answer(r, a)
  PROVE  /\ answer' \in [Requests -> Errors \cup {"none", "200"}]
         /\ step' \in [Requests -> {"upload", "over"} \cup Running]
         /\ answer'[r] = a /\ step'[r] = "over"
         /\ \A s \in Requests : s # r => step'[s] = step[s] /\ answer'[s] = answer[s]
  BY DEF DetectTypeOK, Answer, Reach

LEMMA ReachType ==
  ASSUME DetectTypeOK, NEW r \in Requests, NEW label \in Running, Reach(r, label), UNCHANGED answer
  PROVE  /\ answer' \in [Requests -> Errors \cup {"none", "200"}]
         /\ step' \in [Requests -> {"upload", "over"} \cup Running]
         /\ step'[r] = label
         /\ \A s \in Requests : s # r => step'[s] = step[s] /\ answer'[s] = answer[s]
  BY DEF DetectTypeOK, Reach

\* A request ends with an answer other than 429 and holds no permit.
LEMMA AnswerStep ==
  ASSUME DetectInv, NEW r \in Requests, NEW a \in Errors \cup {"200"}, Answer(r, a), a # "429",
         ~Infers(r), UNCHANGED <<kind, left, found, permits, media>>,
         temp' \subseteq temp, stuck \subseteq stuck', a = "200" => r \notin temp' \/ r \in stuck'
  PROVE  DetectInv'
<1>1. DetectTypeOK
  BY DEF DetectInv
<1>2. DetectTypeOK'
  BY <1>1, AnswerType DEF DetectTypeOK
<1>3. OneRuns'
  BY <1>2, ReachStep DEF Answer, Running
<1>. QED
  BY <1>1, <1>2, <1>3, AnswerType, HeldStep DEF DetectInv

\* A request goes on, and holds no permit before or after.
LEMMA GoOnStep ==
  ASSUME DetectInv, NEW r \in Requests, NEW label \in Running \ {"infer"}, Reach(r, label),
         step[r] \in Running \/ LoopIsFree, ~Infers(r), UNCHANGED <<permits, answer>>,
         \A s \in Requests : s # r => left'[s] = left[s], UNCHANGED stuck,
         kind' \in [Requests -> {"video", "image"}],
         left' \in [Requests -> 0 .. MaxFrames], UNCHANGED found,
         temp' \subseteq temp \cup {r},
         media' \in [Requests -> SUBSET {"stop", "raw", "h264", "image"}]
  PROVE  DetectInv'
<1>1. DetectTypeOK
  BY DEF DetectInv
<1>2. DetectTypeOK'
  BY <1>1, ReachType DEF DetectTypeOK
<1>3. OneRuns'
  BY <1>2, ReachStep
<1>. QED
  BY <1>1, <1>2, <1>3, ReachType, HeldStep DEF DetectInv, NeverTooMany

LEMMA TakePermitStep == ASSUME DetectInv, NEW r \in Requests, TakePermit(r) PROVE DetectInv'
<1>1. DetectTypeOK /\ step[r] = "frame" /\ left[r] > 0
  BY DEF DetectInv, TakePermit
<1>2. \A s \in Requests : ~Infers(s)
  BY <1>1 DEF DetectInv, OneRuns, Infers, Running
<1>3. permits = MaxConcurrent /\ permits > 0
  BY <1>2, DetectionAssumption DEF DetectInv, OneRuns
<1>4. permits' = permits - 1 /\ Reach(r, "infer") /\ UNCHANGED <<kind, left, found, temp, stuck, media, answer>>
  BY <1>3 DEF TakePermit
<1>5. "infer" \in Running /\ "frame" \in Running
  BY DEF Running
<1>6. /\ answer' \in [Requests -> Errors \cup {"none", "200"}]
      /\ step' \in [Requests -> {"upload", "over"} \cup Running]
      /\ step'[r] = "infer"
      /\ \A s \in Requests : s # r => step'[s] = step[s] /\ answer'[s] = answer[s]
  BY <1>1, <1>4, <1>5, ReachType
<1>7. DetectTypeOK'
  BY <1>1, <1>3, <1>4, <1>6, DetectionAssumption DEF DetectTypeOK
<1>8. OneRuns'
  <2>1. Infers(r)'
    BY <1>6 DEF Infers
  <2>2. \A s \in Requests : s # r => step'[s] \notin Running
    BY <1>1, <1>5, <1>6 DEF DetectInv, OneRuns
  <2>3. \A s \in Requests : Infers(s)' => s = r
    BY <1>5, <2>2 DEF Infers
  <2>. QED
    BY <1>1, <1>3, <1>4, <2>1, <2>2, <2>3 DEF OneRuns
<1>. QED
  BY <1>4, <1>5, <1>6, <1>7, <1>8, HeldStep DEF DetectInv, NeverTooMany

\* The permit goes back: nobody detects.
LEMMA ReleaseOneRuns ==
  ASSUME DetectInv, NEW r \in Requests, Infers(r), NEW label \in Running \cup {"over"},
         label # "infer", Reach(r, label), permits' = permits + 1
  PROVE  OneRuns' /\ permits' = MaxConcurrent
<1>1. step'[r] = label /\ \A s \in Requests : s # r => step'[s] = step[s]
  BY DEF DetectInv, DetectTypeOK, Reach
<1>2. \A s \in Requests : s # r => step[s] \notin Running
  BY DEF DetectInv, OneRuns, Infers, Running
<1>3. \A s \in Requests : s # r => step'[s] \notin Running
  BY <1>1, <1>2
<1>4. \A s \in Requests : ~Infers(s)'
  BY <1>1, <1>3 DEF Infers, Running
<1>5. permits' = MaxConcurrent
  BY DetectionAssumption DEF DetectInv, OneRuns
<1>. QED
  BY <1>3, <1>4, <1>5 DEF OneRuns

LEMMA DetectedStep == ASSUME DetectInv, NEW r \in Requests, Detected(r) PROVE DetectInv'
<1>1. Infers(r) /\ permits' = permits + 1 /\ Reach(r, "frame") /\ UNCHANGED <<kind, temp, stuck, media, answer>>
  BY DEF Detected, ReleasePermit, Infers
<1>2. DetectTypeOK /\ "frame" \in Running
  BY DEF DetectInv, Running
<1>3. OneRuns' /\ permits' = MaxConcurrent
  BY <1>1, <1>2, ReleaseOneRuns
<1>4. left' \in [Requests -> 0 .. MaxFrames]
  BY <1>1, <1>2, DetectionAssumption DEF Detected, DetectInv, OneRuns, DetectTypeOK
<1>5. found' \in [Requests -> [detections : BOOLEAN, stop : BOOLEAN]]
  BY <1>2 DEF Detected, DetectTypeOK
<1>6. /\ answer' \in [Requests -> Errors \cup {"none", "200"}]
      /\ step' \in [Requests -> {"upload", "over"} \cup Running]
      /\ step'[r] = "frame"
      /\ \A s \in Requests : s # r => step'[s] = step[s] /\ answer'[s] = answer[s]
  BY <1>1, <1>2, ReachType
<1>7. DetectTypeOK'
  BY <1>1, <1>2, <1>3, <1>4, <1>5, <1>6, DetectionAssumption DEF DetectTypeOK
<1>. QED
  BY <1>1, <1>2, <1>3, <1>6, <1>7, HeldStep DEF DetectInv, NeverTooMany

LEMMA DetectionFailsStep == ASSUME DetectInv, NEW r \in Requests, DetectionFails(r) PROVE DetectInv'
<1>1. Infers(r) /\ permits' = permits + 1 /\ UNCHANGED <<kind, left, found, temp, stuck, media>>
  BY DEF DetectionFails, ReleasePermit, Infers
<1>6. PICK e \in {"503", "500"} : Answer(r, e) /\ Reach(r, "over")
  BY DEF DetectionFails, Answer
<1>2. DetectTypeOK /\ e \in Errors
  BY DEF DetectInv, Errors
<1>3. OneRuns' /\ permits' = MaxConcurrent
  BY <1>1, <1>6, ReleaseOneRuns
<1>4. /\ answer' \in [Requests -> Errors \cup {"none", "200"}]
      /\ step' \in [Requests -> {"upload", "over"} \cup Running]
      /\ answer'[r] = e /\ e # "429"
      /\ \A s \in Requests : s # r => step'[s] = step[s] /\ answer'[s] = answer[s]
  BY <1>2, <1>6, AnswerType
<1>5. DetectTypeOK'
  BY <1>1, <1>2, <1>3, <1>4, DetectionAssumption DEF DetectTypeOK
<1>. QED
  BY <1>1, <1>2, <1>3, <1>4, <1>5, HeldStep DEF DetectInv

LEMMA DetectStep == ASSUME DetectInv, NEW r \in Requests, Detect(r) PROVE DetectInv'
<1>. USE DEF Running, Errors, Infers
<1>1. DetectTypeOK
  BY DEF DetectInv
<1>2. CASE Uploaded(r)
  <2>1. left' \in [Requests -> 0 .. MaxFrames] /\ \A s \in Requests : s # r => left'[s] = left[s]
    BY <1>1, <1>2, DetectionAssumption DEF Uploaded, DetectTypeOK
  <2>2. kind' \in [Requests -> {"video", "image"}]
    BY <1>1, <1>2 DEF Uploaded, DetectTypeOK
  <2>. QED
    BY <1>1, <1>2, <2>1, <2>2, GoOnStep DEF Uploaded, DetectTypeOK
<1>3. CASE Rejected(r)
  BY <1>3, AnswerStep DEF Rejected
<1>4. CASE Accepted(r)
  BY <1>1, <1>4, GoOnStep DEF Accepted, DetectTypeOK
<1>5. CASE VideoFails(r)
  BY <1>5, AnswerStep DEF VideoFails
<1>6. CASE TakePermit(r)
  BY <1>6, TakePermitStep
<1>7. CASE Detected(r)
  BY <1>7, DetectedStep
<1>8. CASE DetectionFails(r)
  BY <1>8, DetectionFailsStep
<1>9. CASE FramesDone(r)
  <2>1. PICK label \in {"image", "snapshot", "video"} : Reach(r, label)
    BY <1>9 DEF FramesDone
  <2>. QED
    BY <1>1, <1>9, <2>1, GoOnStep DEF FramesDone, DetectTypeOK
<1>10. CASE StopSnapshot(r)
  <2>1. media' \in [Requests -> SUBSET {"stop", "raw", "h264", "image"}]
    BY <1>1, <1>10 DEF StopSnapshot, Writes, DetectTypeOK
  <2>. QED
    BY <1>1, <1>10, <2>1, GoOnStep DEF StopSnapshot, DetectTypeOK
<1>11. CASE AnnotatedVideo(r)
  <2>1. media' \in [Requests -> SUBSET {"stop", "raw", "h264", "image"}]
    BY <1>1, <1>11 DEF AnnotatedVideo, Writes, DetectTypeOK
  <2>. QED
    BY <1>1, <1>11, <2>1, GoOnStep DEF AnnotatedVideo, DetectTypeOK
<1>12. CASE NoAnnotatedVideo(r)
  <2>1. PICK label \in {"clean", "image"} : Reach(r, label)
    BY <1>12 DEF NoAnnotatedVideo
  <2>. QED
    BY <1>1, <1>12, <2>1, GoOnStep DEF NoAnnotatedVideo, DetectTypeOK
<1>13. CASE AnnotatedImage(r)
  <2>1. media' \in [Requests -> SUBSET {"stop", "raw", "h264", "image"}]
    BY <1>1, <1>13 DEF AnnotatedImage, Writes, DetectTypeOK
  <2>. QED
    BY <1>1, <1>13, <2>1, GoOnStep DEF AnnotatedImage, DetectTypeOK
<1>14. CASE Complete(r)
  BY <1>14, AnswerStep DEF Complete, RemoveTemp
<1>. QED
  BY <1>2, <1>3, <1>4, <1>5, <1>6, <1>7, <1>8, <1>9, <1>10, <1>11, <1>12, <1>13, <1>14 DEF Detect

LEMMA DetectInvStays == ASSUME DetectInv, [DetectNext]_detectVars PROVE DetectInv'
<1>1. ASSUME UNCHANGED detectVars PROVE DetectInv'
  BY <1>1 DEF DetectInv, DetectTypeOK, OneRuns, Infers, NeverTooMany, NothingHeldAfterSuccess, detectVars
<1>. QED
  BY <1>1, DetectStep DEF DetectNext

\* For any requests and frames: the permits that are out and those of the semaphore
\* add up, so no more requests detect at once than it allows (main.py, detect).
THEOREM DetectionLimit == DetectSpec => []NeverTooMany
<1>1. DetectInv => NeverTooMany
  BY DEF DetectInv
<1>. QED
  BY DetectInitInv, DetectInvStays, <1>1, PTL DEF DetectSpec

\* For any requests and frames: no request that is over holds a permit, and one that
\* answered 200 left its temporary file only where the unlink failed (main.py, detect).
THEOREM DetectionReleases == DetectSpec => []NothingHeldAfterSuccess
<1>1. DetectInv => NothingHeldAfterSuccess
  BY DEF DetectInv
<1>. QED
  BY DetectInitInv, DetectInvStays, <1>1, PTL DEF DetectSpec

-----------------------------------------------------------------------------
(* Starting, stopping and viewing a camera *)

\* The handler is inside CameraRegistry.start_camera's lock.
HoldsRegistry(h) == op[h] # "stop" /\ pc[h] \in Stopping \cup {"create"}

\* Nothing comes of the worker any more, but boxes it may have shown.
Emptied(w) == cap[w] = "done" /\ inf[w] = "done" /\ waiting[w] = 0
Still(w) == Emptied(w) /\ boxes # w

\* How far a stop has come, and what a viewer knows of the worker it saw.
HandlerOk(h) ==
  /\ pc[h] \in Stopping => target[h] \in 1 .. made
  /\ HoldsRegistry(h) => target[h] = registry
  /\ op[h] = "stop" => pc[h] \in Stopping
  /\ pc[h] = "ijoin" => target[h] \in late \/ cap[target[h]] = "done"
  /\ pc[h] = "clear" => target[h] \in late \/ Emptied(target[h])
  /\ pc[h] = "create" => registry = NoWorker \/ registry \in stopped
  /\ op[h] = "view" /\ pc[h] \in {"lookup", "lock"} =>
       saw[h] = NoWorker \/ (saw[h] \in 1 .. made /\ cap[saw[h]] = "done")

OneHolder == \A g, h \in Handlers : HoldsRegistry(g) /\ HoldsRegistry(h) => g = h

WorkersOk ==
  /\ registry = made /\ stopped \subseteq 1 .. made
  /\ \A w \in 1 .. made : cap[w] # "none" /\ inf[w] # "none"
  /\ \A w \in Workers : w > made => cap[w] = "none" /\ inf[w] = "none"
  /\ \A w \in Workers : cap[w] = "done" => status[w].capture = "STOPPED"
  /\ \A w \in Workers : inf[w] = "done" => status[w].inference = "STOPPED"

\* A worker that was stopped or replaced is still, unless a join gave up on it.
GoneAreStill == \A w \in 1 .. made : (w \in stopped \/ w # made) /\ w \notin late => Still(w)

PipelineInv ==
  /\ TypeOK
  /\ WorkersOk
  /\ OneHolder
  /\ \A h \in Handlers : HandlerOk(h)
  /\ GoneAreStill

\* What a step may not undo.
Onward ==
  /\ \A w \in Workers : cap[w] = "done" => cap'[w] = "done"
  /\ \A w \in Workers : Emptied(w) => inf'[w] = "done" /\ waiting'[w] = 0
  /\ \A w \in Workers : Still(w) => boxes' # w
  /\ late \subseteq late' /\ stopped \subseteq stopped' /\ made <= made'

-----------------------------------------------------------------------------
LEMMA PipelineInitInv == Init => PipelineInv
<1>. SUFFICES ASSUME Init PROVE PipelineInv
  OBVIOUS
<1>1. made = 0 /\ registry = 0 /\ stopped = {} /\ late = {}
  BY DEF Init, NoWorker
<1>2. \A h \in Handlers : pc[h] = "idle" /\ op[h] = "none"
  BY DEF Init
<1>3. TypeOK
  BY PipelineAssumption DEF Init, TypeOK, NoWorker, Workers, Status, HandlerPc
<1>4. WorkersOk
  BY <1>1 DEF Init, WorkersOk
<1>5. OneHolder /\ \A h \in Handlers : HandlerOk(h)
  BY <1>2 DEF OneHolder, HandlerOk, HoldsRegistry, Stopping
<1>6. GoneAreStill
  BY <1>1 DEF GoneAreStill
<1>. QED
  BY <1>3, <1>4, <1>5, <1>6 DEF PipelineInv

LEMMA MadeAreWorkers == ASSUME TypeOK PROVE 1 .. made \subseteq Workers /\ made \in Nat
  BY PipelineAssumption DEF TypeOK, Workers

\* A handler that does nothing keeps what it counts on.
LEMMA HandlerStill ==
  ASSUME PipelineInv, TypeOK', Onward, NEW g \in Handlers,
         pc'[g] = pc[g], op'[g] = op[g], target'[g] = target[g], saw'[g] = saw[g],
         registry' = registry \/ ~HoldsRegistry(g)
  PROVE  HandlerOk(g)' /\ (HoldsRegistry(g)' <=> HoldsRegistry(g))
<1>1. HandlerOk(g) /\ TypeOK
  BY DEF PipelineInv
<1>2. 1 .. made \subseteq 1 .. made' /\ 1 .. made \subseteq Workers
  BY <1>1, MadeAreWorkers DEF TypeOK, Onward
<1>3. HoldsRegistry(g)' <=> HoldsRegistry(g)
  BY DEF HoldsRegistry
<1>4. pc[g] = "ijoin" => target[g] \in late' \/ cap'[target[g]] = "done"
  BY <1>1, <1>2 DEF HandlerOk, Onward, Stopping
<1>5. pc[g] = "clear" => target[g] \in late' \/ Emptied(target[g])'
  BY <1>1, <1>2 DEF HandlerOk, Onward, Stopping, Emptied
<1>6. pc[g] = "create" => registry' = NoWorker \/ registry' \in stopped'
  <2>1. ASSUME pc[g] = "create" PROVE op[g] # "stop"
    BY <1>1, <2>1 DEF HandlerOk, Stopping
  <2>2. ASSUME pc[g] = "create" PROVE registry' = registry
    BY <2>1, <2>2 DEF HoldsRegistry
  <2>. QED
    BY <1>1, <2>2 DEF HandlerOk, Onward
<1>7. op[g] = "view" /\ pc[g] \in {"lookup", "lock"} =>
        saw[g] = NoWorker \/ (saw[g] \in 1 .. made' /\ cap'[saw[g]] = "done")
  BY <1>1, <1>2 DEF HandlerOk, Onward
<1>8. HoldsRegistry(g) => target[g] = registry'
  BY <1>1 DEF HandlerOk
<1>9. pc[g] \in Stopping => target[g] \in 1 .. made'
  BY <1>1, <1>2 DEF HandlerOk
<1>10. op[g] = "stop" => pc[g] \in Stopping
  BY <1>1 DEF HandlerOk
<1>11. HandlerOk(g)'
  BY <1>3, <1>4, <1>5, <1>6, <1>7, <1>8, <1>9, <1>10 DEF HandlerOk
<1>. QED
  BY <1>3, <1>11

\* What is gone stays still.
LEMMA StillGone ==
  ASSUME PipelineInv, TypeOK', Onward,
         \A w \in 1 .. made' : w \in stopped' \ stopped => w \in late' \/ Still(w)',
         made' = made \/ (made' = made + 1 /\ (made = 0 \/ made \in stopped)),
         stopped' \subseteq 1 .. made
  PROVE  GoneAreStill'
<1>1. SUFFICES ASSUME NEW w \in 1 .. made', w \in stopped' \/ w # made', w \notin late'
               PROVE  Still(w)'
  BY DEF GoneAreStill
<1>2. TypeOK /\ made \in Nat /\ 1 .. made \subseteq Workers
  BY MadeAreWorkers DEF PipelineInv
<1>3. CASE w \in stopped' \ stopped
  BY <1>1, <1>3
<1>4. CASE w \notin stopped' \ stopped
  <2>1. w \in 1 .. made
    BY <1>1, <1>2, <1>4
  <2>2. w \in stopped \/ w # made
    BY <1>1, <1>2, <1>4, <2>1
  <2>3. w \notin late
    BY <1>1 DEF Onward
  <2>4. Still(w)
    BY <2>1, <2>2, <2>3 DEF PipelineInv, GoneAreStill
  <2>. QED
    BY <1>2, <2>1, <2>4 DEF Onward, Still, Emptied
<1>. QED
  BY <1>3, <1>4

-----------------------------------------------------------------------------
(* The threads *)

\* A thread's step leaves the handlers and the registry alone.
LEMMA ThreadStep ==
  ASSUME PipelineInv, TypeOK', UNCHANGED <<registryVars, handlerVars, history>>,
         \A w \in Workers : cap[w] = "done" => cap'[w] = "done",
         \A w \in Workers : Emptied(w) => inf'[w] = "done" /\ waiting'[w] = 0,
         \A w \in Workers : Still(w) => boxes' # w,
         WorkersOk'
  PROVE  PipelineInv'
<1>1. UNCHANGED <<registry, made, pc, op, target, saw, requests, stopped, late>>
  BY DEF registryVars, handlerVars, history
<1>2. Onward
  BY <1>1, MadeAreWorkers DEF Onward, PipelineInv
<1>3. \A h \in Handlers : HandlerOk(h)'
  BY <1>1, <1>2, HandlerStill
<1>4. OneHolder'
  BY <1>1 DEF PipelineInv, OneHolder, HoldsRegistry
<1>5. GoneAreStill'
  BY <1>1, <1>2, StillGone DEF PipelineInv, WorkersOk
<1>. QED
  BY <1>3, <1>4, <1>5 DEF PipelineInv

\* The status of one thread is set.
LEMMA SetStatusFacts ==
  ASSUME TypeOK, NEW w \in Workers, NEW s \in Status
  PROVE  /\ SetStatus(w, "capture", s) =>
              /\ status' \in [Workers -> [capture : Status, inference : Status]]
              /\ status'[w].capture = s /\ status'[w].inference = status[w].inference
              /\ \A v \in Workers : v # w => status'[v] = status[v]
         /\ SetStatus(w, "inference", s) =>
              /\ status' \in [Workers -> [capture : Status, inference : Status]]
              /\ status'[w].inference = s /\ status'[w].capture = status[w].capture
              /\ \A v \in Workers : v # w => status'[v] = status[v]
<1>1. status \in [Workers -> [capture : Status, inference : Status]]
  BY DEF TypeOK
<1>2. ASSUME SetStatus(w, "capture", s)
      PROVE  /\ status' \in [Workers -> [capture : Status, inference : Status]]
             /\ status'[w].capture = s /\ status'[w].inference = status[w].inference
             /\ \A v \in Workers : v # w => status'[v] = status[v]
  <2>1. status' = [status EXCEPT ![w] = [@ EXCEPT !.capture = s]]
    BY <1>2 DEF SetStatus
  <2>. QED
    BY <1>1, <2>1
<1>3. ASSUME SetStatus(w, "inference", s)
      PROVE  /\ status' \in [Workers -> [capture : Status, inference : Status]]
             /\ status'[w].inference = s /\ status'[w].capture = status[w].capture
             /\ \A v \in Workers : v # w => status'[v] = status[v]
  <2>1. status' = [status EXCEPT ![w] = [@ EXCEPT !.inference = s]]
    BY <1>3 DEF SetStatus
  <2>. QED
    BY <1>1, <2>1
<1>. QED
  BY <1>2, <1>3

LEMMA CaptureStep == ASSUME PipelineInv, NEW w \in 1 .. made, CaptureThread(w) PROVE PipelineInv'
<1>. DEFINE next == cap'[w]
<1>1. TypeOK /\ w \in Workers /\ "UP" \in Status /\ "STOPPED" \in Status
  BY MadeAreWorkers DEF PipelineInv, Status
<1>2. UNCHANGED <<registryVars, asked, inf, boxes, handlerVars, history>>
  BY DEF CaptureThread, CaptureOpen, CaptureLost, CaptureFrame, CaptureEnd
<1>3. /\ cap[w] \in {"connect", "grab"}
      /\ \E c \in {"connect", "grab", "done"} : cap' = [cap EXCEPT ![w] = c]
  BY DEF CaptureThread, CaptureOpen, CaptureLost, CaptureFrame, CaptureEnd, Again
<1>4. /\ cap' \in [Workers -> {"none", "connect", "grab", "done"}] /\ cap'[w] # "none"
      /\ \A v \in Workers : v # w => cap'[v] = cap[v]
  BY <1>1, <1>3 DEF TypeOK
<1>5. waiting' \in [Workers -> 0 .. QueueSize] /\ \A v \in Workers : v # w => waiting'[v] = waiting[v]
  <2>1. Pushed(waiting[w]) \in 0 .. QueueSize
    BY <1>1, PipelineAssumption DEF Pushed, TypeOK
  <2>2. UNCHANGED waiting \/ waiting' = [waiting EXCEPT ![w] = Pushed(waiting[w])]
    BY DEF CaptureThread, CaptureOpen, CaptureLost, CaptureFrame, CaptureEnd
  <2>. QED
    BY <1>1, <2>1, <2>2 DEF TypeOK
<1>6. /\ status' \in [Workers -> [capture : Status, inference : Status]]
      /\ status'[w].inference = status[w].inference
      /\ cap'[w] = "done" => status'[w].capture = "STOPPED"
      /\ \A v \in Workers : v # w => status'[v] = status[v]
  <2>1. CASE CaptureOpen(w) \/ CaptureLost(w)
    <3>1. SetStatus(w, "capture", "UP") /\ cap'[w] # "done"
      BY <1>1, <2>1 DEF CaptureOpen, CaptureLost, TypeOK
    <3>. QED
      BY <1>1, <3>1, SetStatusFacts
  <2>2. CASE CaptureFrame(w)
    BY <1>1, <2>2 DEF CaptureFrame, Again, TypeOK
  <2>3. CASE CaptureEnd(w)
    BY <1>1, <2>3, SetStatusFacts DEF CaptureEnd
  <2>. QED
    BY <2>1, <2>2, <2>3 DEF CaptureThread
<1>7. TypeOK'
  BY <1>1, <1>2, <1>4, <1>5, <1>6 DEF TypeOK, registryVars, handlerVars, history
<1>8. WorkersOk'
  <2>1. UNCHANGED <<registry, made, stopped, inf>> /\ WorkersOk /\ 1 .. made \subseteq Workers
    BY <1>1, <1>2, MadeAreWorkers DEF PipelineInv, registryVars, history
  <2>2. \A v \in 1 .. made : cap'[v] # "none"
    BY <1>4, <2>1 DEF WorkersOk
  <2>3. \A v \in Workers : v > made => cap'[v] = "none" /\ v # w
    BY <1>1, <1>4, <2>1, MadeAreWorkers DEF WorkersOk, Workers
  <2>4. \A v \in Workers : cap'[v] = "done" => status'[v].capture = "STOPPED"
    BY <1>4, <1>6, <2>1 DEF WorkersOk
  <2>5. \A v \in Workers : inf[v] = "done" => status'[v].inference = "STOPPED"
    BY <1>6, <2>1 DEF WorkersOk
  <2>. QED
    BY <2>1, <2>2, <2>3, <2>4, <2>5 DEF WorkersOk
<1>9. cap[w] # "done"
  BY <1>3
<1>10. /\ \A v \in Workers : cap[v] = "done" => cap'[v] = "done"
       /\ \A v \in Workers : Emptied(v) => inf'[v] = "done" /\ waiting'[v] = 0
       /\ \A v \in Workers : Still(v) => boxes' # v
  BY <1>2, <1>4, <1>5, <1>9 DEF Emptied, Still
<1>. QED
  BY <1>2, <1>7, <1>8, <1>10, ThreadStep

LEMMA InferenceStep == ASSUME PipelineInv, NEW w \in 1 .. made, InferenceThread(w) PROVE PipelineInv'
<1>1. TypeOK /\ w \in Workers /\ "UP" \in Status /\ "STOPPED" \in Status
  BY MadeAreWorkers DEF PipelineInv, Status
<1>2. UNCHANGED <<registryVars, asked, cap, handlerVars, history>>
  BY DEF InferenceThread, InferencePop, InferenceDetect, InferenceEnd
<1>3. /\ inf[w] \in {"pop", "detect", "end"}
      /\ \E i \in {"pop", "detect", "end", "done"} : inf' = [inf EXCEPT ![w] = i]
  BY DEF InferenceThread, InferencePop, InferenceDetect, InferenceEnd, Resume
<1>4. /\ inf' \in [Workers -> {"none", "pop", "detect", "end", "done"}] /\ inf'[w] # "none"
      /\ \A v \in Workers : v # w => inf'[v] = inf[v]
  BY <1>1, <1>3 DEF TypeOK
<1>5. waiting' \in [Workers -> 0 .. QueueSize] /\ \A v \in Workers : v # w => waiting'[v] = waiting[v]
  BY <1>1, PipelineAssumption DEF InferenceThread, InferencePop, InferenceDetect, InferenceEnd, TypeOK
<1>6. boxes' \in {w, boxes} /\ boxes' \in 0 .. MaxWorkers
  BY <1>1, PipelineAssumption DEF InferenceThread, InferencePop, InferenceDetect, InferenceEnd, TypeOK, Workers
<1>7. /\ status' \in [Workers -> [capture : Status, inference : Status]]
      /\ status'[w].capture = status[w].capture
      /\ inf'[w] = "done" => status'[w].inference = "STOPPED"
      /\ \A v \in Workers : v # w => status'[v] = status[v]
  <2>1. CASE InferenceDetect(w)
    <3>1. SetStatus(w, "inference", "UP") /\ inf'[w] # "done"
      BY <1>1, <2>1 DEF InferenceDetect, Resume, TypeOK
    <3>. QED
      BY <1>1, <3>1, SetStatusFacts
  <2>2. CASE InferencePop(w)
    BY <1>1, <2>2 DEF InferencePop, TypeOK
  <2>3. CASE InferenceEnd(w)
    <3>1. SetStatus(w, "inference", "STOPPED")
      BY <2>3 DEF InferenceEnd
    <3>. QED
      BY <1>1, <3>1, SetStatusFacts
  <2>. QED
    BY <2>1, <2>2, <2>3 DEF InferenceThread
<1>8. TypeOK'
  BY <1>1, <1>2, <1>4, <1>5, <1>6, <1>7 DEF TypeOK, registryVars, handlerVars, history
<1>9. WorkersOk'
  <2>1. UNCHANGED <<registry, made, stopped, cap>> /\ WorkersOk /\ 1 .. made \subseteq Workers
    BY <1>1, <1>2, MadeAreWorkers DEF PipelineInv, registryVars, history
  <2>2. \A v \in 1 .. made : inf'[v] # "none"
    BY <1>4, <2>1 DEF WorkersOk
  <2>3. \A v \in Workers : v > made => inf'[v] = "none" /\ v # w
    BY <1>1, <1>4, <2>1, MadeAreWorkers DEF WorkersOk, Workers
  <2>4. \A v \in Workers : cap[v] = "done" => status'[v].capture = "STOPPED"
    BY <1>7, <2>1 DEF WorkersOk
  <2>5. \A v \in Workers : inf'[v] = "done" => status'[v].inference = "STOPPED"
    BY <1>4, <1>7, <2>1 DEF WorkersOk
  <2>. QED
    BY <2>1, <2>2, <2>3, <2>4, <2>5 DEF WorkersOk
<1>10. inf[w] # "done"
  BY <1>3
<1>11. /\ \A v \in Workers : cap[v] = "done" => cap'[v] = "done"
       /\ \A v \in Workers : Emptied(v) => inf'[v] = "done" /\ waiting'[v] = 0
       /\ \A v \in Workers : Still(v) => boxes' # v
  BY <1>2, <1>4, <1>5, <1>6, <1>10 DEF Emptied, Still
<1>. QED
  BY <1>2, <1>8, <1>9, <1>11, ThreadStep

-----------------------------------------------------------------------------
(* The handlers *)

\* One handler goes on; the others' requests stay as they are.
Only(h) ==
  \A g \in Handlers \ {h} : pc'[g] = pc[g] /\ op'[g] = op[g] /\ target'[g] = target[g] /\ saw'[g] = saw[g]

LEMMA HandlerStep ==
  ASSUME PipelineInv, TypeOK', Onward, NEW h \in Handlers, Only(h), HandlerOk(h)', WorkersOk',
         registry' = registry \/ HoldsRegistry(h),
         HoldsRegistry(h)' => HoldsRegistry(h) \/ ~RegistryLocked,
         \A w \in 1 .. made' : w \in stopped' \ stopped => w \in late' \/ Still(w)',
         made' = made \/ (made' = made + 1 /\ (made = 0 \/ made \in stopped)),
         stopped' \subseteq 1 .. made
  PROVE  PipelineInv'
<1>1. \A g, k \in Handlers : HoldsRegistry(g) /\ HoldsRegistry(k) => g = k
  BY DEF PipelineInv, OneHolder
<1>2. \A g \in Handlers \ {h} : HandlerOk(g)' /\ (HoldsRegistry(g)' <=> HoldsRegistry(g))
  BY <1>1, HandlerStill DEF Only
<1>3. \A g \in Handlers : HandlerOk(g)'
  BY <1>2
<1>4. \A g \in Handlers : HoldsRegistry(g) => RegistryLocked
  BY DEF HoldsRegistry, RegistryLocked
<1>5. OneHolder'
  BY <1>1, <1>2, <1>4 DEF OneHolder
<1>6. GoneAreStill'
  BY StillGone
<1>. QED
  BY <1>3, <1>5, <1>6 DEF PipelineInv

\* A handler's step that leaves the workers alone.
LEMMA QuietStep ==
  ASSUME PipelineInv, NEW h \in Handlers, Only(h), HandlerOk(h)',
         UNCHANGED <<registryVars, threadVars, waiting, boxes, history>>,
         pc' \in [Handlers -> HandlerPc], op' \in [Handlers -> {"none", "start", "view", "stop"}],
         target' \in [Handlers -> 0 .. MaxWorkers], saw' \in [Handlers -> 0 .. MaxWorkers],
         requests' \in 0 .. MaxRequests,
         HoldsRegistry(h)' => HoldsRegistry(h) \/ ~RegistryLocked
  PROVE  PipelineInv'
<1>1. UNCHANGED <<registry, made, asked, cap, inf, status, waiting, boxes, stopped, late>>
  BY DEF registryVars, threadVars, history
<1>2. TypeOK'
  BY <1>1 DEF PipelineInv, TypeOK
<1>3. Onward
  BY <1>1, MadeAreWorkers DEF Onward, Emptied, Still, PipelineInv
<1>4. WorkersOk'
  BY <1>1 DEF PipelineInv, WorkersOk
<1>. QED
  BY <1>1, <1>2, <1>3, <1>4, HandlerStep DEF PipelineInv, WorkersOk

\* Types of what a handler writes of its own.
LEMMA Labels == ASSUME NEW l \in {"idle", "view", "lookup", "lock", "create", "flag", "join", "ijoin", "clear"}
                PROVE  l \in HandlerPc
  BY DEF HandlerPc, Stopping

LEMMA FinishFacts ==
  ASSUME TypeOK, NEW h \in Handlers, Finish(h)
  PROVE  /\ pc' \in [Handlers -> HandlerPc] /\ op' \in [Handlers -> {"none", "start", "view", "stop"}]
         /\ target' \in [Handlers -> 0 .. MaxWorkers] /\ saw' \in [Handlers -> 0 .. MaxWorkers]
         /\ pc'[h] = "idle" /\ op'[h] = "none" /\ Only(h)
         /\ HandlerOk(h)' /\ ~HoldsRegistry(h)'
<1>1. pc' = [pc EXCEPT ![h] = "idle"] /\ op' = [op EXCEPT ![h] = "none"]
      /\ target' = [target EXCEPT ![h] = 0] /\ saw' = [saw EXCEPT ![h] = 0]
  BY DEF Finish, Goto, NoWorker
<1>2. "idle" \in HandlerPc /\ 0 \in 0 .. MaxWorkers
  BY Labels, PipelineAssumption
<1>3. /\ pc' \in [Handlers -> HandlerPc] /\ op' \in [Handlers -> {"none", "start", "view", "stop"}]
      /\ target' \in [Handlers -> 0 .. MaxWorkers] /\ saw' \in [Handlers -> 0 .. MaxWorkers]
      /\ pc'[h] = "idle" /\ op'[h] = "none" /\ Only(h)
  BY <1>1, <1>2 DEF TypeOK, Only
<1>4. HandlerOk(h)' /\ ~HoldsRegistry(h)'
  BY <1>3 DEF HandlerOk, HoldsRegistry, Stopping
<1>. QED
  BY <1>3, <1>4

LEMMA GotoFacts ==
  ASSUME TypeOK, NEW h \in Handlers,
         NEW l \in {"idle", "view", "lookup", "lock", "create", "flag", "join", "ijoin", "clear"}, Goto(h, l)
  PROVE  /\ pc' \in [Handlers -> HandlerPc] /\ pc'[h] = l
         /\ \A g \in Handlers \ {h} : pc'[g] = pc[g]
  BY Labels DEF TypeOK, Goto

LEMMA RequestFacts ==
  ASSUME TypeOK, NEW h \in Handlers, NEW what \in {"start", "view", "stop"}, Request(h, what)
  PROVE  /\ op' \in [Handlers -> {"none", "start", "view", "stop"}] /\ op'[h] = what
         /\ \A g \in Handlers \ {h} : op'[g] = op[g]
         /\ requests' \in 0 .. MaxRequests
  BY PipelineAssumption DEF TypeOK, Request

LEMMA StartRequestStep == ASSUME PipelineInv, NEW h \in Handlers, StartRequest(h) PROVE PipelineInv'
<1>1. TypeOK /\ Request(h, "start") /\ Goto(h, "lock")
      /\ UNCHANGED <<registryVars, threadVars, waiting, boxes, target, saw, history>>
  BY DEF PipelineInv, StartRequest
<1>2. pc'[h] = "lock" /\ op'[h] = "start" /\ Only(h)
  BY <1>1, GotoFacts, RequestFacts DEF Only
<1>3. HandlerOk(h)' /\ ~HoldsRegistry(h)'
  BY <1>2 DEF HandlerOk, HoldsRegistry, Stopping
<1>. QED
  BY <1>1, <1>2, <1>3, GotoFacts, RequestFacts, QuietStep DEF TypeOK

LEMMA ViewRequestStep == ASSUME PipelineInv, NEW h \in Handlers, ViewRequest(h) PROVE PipelineInv'
<1>1. TypeOK /\ Request(h, "view") /\ Goto(h, "view")
      /\ UNCHANGED <<registryVars, threadVars, waiting, boxes, target, saw, history>>
  BY DEF PipelineInv, ViewRequest
<1>2. pc'[h] = "view" /\ op'[h] = "view" /\ Only(h)
  BY <1>1, GotoFacts, RequestFacts DEF Only
<1>3. HandlerOk(h)' /\ ~HoldsRegistry(h)'
  BY <1>2 DEF HandlerOk, HoldsRegistry, Stopping
<1>. QED
  BY <1>1, <1>2, <1>3, GotoFacts, RequestFacts, QuietStep DEF TypeOK

\* A viewer's lock is no lock of the registry.
LEMMA FinishStep ==
  ASSUME PipelineInv, NEW h \in Handlers, Finish(h),
         UNCHANGED <<registryVars, threadVars, waiting, boxes, history, requests>>
  PROVE  PipelineInv'
  BY FinishFacts, QuietStep DEF PipelineInv, TypeOK

LEMMA ViewLockedStep == ASSUME PipelineInv, NEW h \in Handlers, ViewLocked(h) PROVE PipelineInv'
<1>1. TypeOK /\ pc[h] = "view" /\ UNCHANGED <<registryVars, threadVars, waiting, boxes, history, requests>>
  BY DEF PipelineInv, ViewLocked
<1>2. CASE Finish(h)
  BY <1>1, <1>2, FinishStep
<1>3. CASE ~IsRunning(registry) /\ Goto(h, "lookup") /\ saw' = [saw EXCEPT ![h] = registry] /\ UNCHANGED <<op, target>>
  <2>1. pc'[h] = "lookup" /\ saw'[h] = registry /\ Only(h) /\ saw' \in [Handlers -> 0 .. MaxWorkers]
    BY <1>1, <1>3, GotoFacts DEF TypeOK, Only
  <2>2. registry = NoWorker \/ (registry \in 1 .. made /\ cap[registry] = "done")
    <3>1. registry # NoWorker => registry \in 1 .. made
      BY <1>1, MadeAreWorkers DEF PipelineInv, WorkersOk, NoWorker
    <3>2. registry # NoWorker => cap[registry] \in Ended /\ cap[registry] # "none"
      BY <1>3, <3>1 DEF IsRunning, PipelineInv, WorkersOk
    <3>. QED
      BY <3>1, <3>2 DEF Ended
  <2>3. op[h] # "stop"
    BY <1>1 DEF PipelineInv, HandlerOk, Stopping
  <2>4. HandlerOk(h)' /\ ~HoldsRegistry(h)'
    BY <1>1, <1>3, <2>1, <2>2, <2>3 DEF HandlerOk, HoldsRegistry, Stopping, registryVars, threadVars
  <2>. QED
    BY <1>1, <1>3, <2>1, <2>4, GotoFacts, QuietStep DEF TypeOK
<1>. QED
  BY <1>2, <1>3 DEF ViewLocked

LEMMA ViewLookupStep == ASSUME PipelineInv, NEW h \in Handlers, ViewLookup(h) PROVE PipelineInv'
<1>1. TypeOK /\ pc[h] = "lookup" /\ UNCHANGED <<registryVars, threadVars, waiting, boxes, history, requests>>
  BY DEF PipelineInv, ViewLookup
<1>2. CASE Finish(h)
  BY <1>1, <1>2, FinishStep
<1>3. CASE Goto(h, "lock") /\ UNCHANGED <<op, target, saw>>
  <2>1. pc'[h] = "lock" /\ Only(h)
    BY <1>1, <1>3, GotoFacts DEF Only
  <2>2. HandlerOk(h)
    BY DEF PipelineInv
  <2>3. HandlerOk(h)' /\ ~HoldsRegistry(h)'
    BY <1>1, <1>3, <2>1, <2>2 DEF HandlerOk, HoldsRegistry, Stopping, registryVars, threadVars
  <2>. QED
    BY <1>1, <1>3, <2>1, <2>3, GotoFacts, QuietStep DEF TypeOK
<1>. QED
  BY <1>2, <1>3 DEF ViewLookup

LEMMA StartLockedStep == ASSUME PipelineInv, NEW h \in Handlers, StartLocked(h) PROVE PipelineInv'
<1>1. TypeOK /\ pc[h] = "lock" /\ ~RegistryLocked
      /\ UNCHANGED <<registryVars, threadVars, waiting, boxes, history, requests>>
  BY DEF PipelineInv, StartLocked
<1>2. CASE Finish(h)
  BY <1>1, <1>2, FinishStep
<1>3. ASSUME NEW l \in {"create", "flag"}, l = (IF registry = NoWorker THEN "create" ELSE "flag"),
             Goto(h, l), target' = [target EXCEPT ![h] = registry], UNCHANGED <<op, saw>>
      PROVE  PipelineInv'
  <2>1. pc'[h] = l /\ target'[h] = registry /\ Only(h) /\ target' \in [Handlers -> 0 .. MaxWorkers]
    BY <1>1, <1>3, GotoFacts DEF TypeOK, Only
  <2>2. l = "flag" => registry \in 1 .. made
    BY <1>1, <1>3, MadeAreWorkers DEF PipelineInv, WorkersOk, NoWorker
  <2>3. op[h] # "stop"
    BY <1>1 DEF PipelineInv, HandlerOk, Stopping
  <2>4. HandlerOk(h)'
    BY <1>1, <1>3, <2>1, <2>2, <2>3 DEF HandlerOk, HoldsRegistry, Stopping, registryVars, threadVars
  <2>. QED
    BY <1>1, <1>3, <2>1, <2>4, GotoFacts, QuietStep DEF TypeOK
<1>. QED
  BY <1>2, <1>3 DEF StartLocked

LEMMA StopRequestStep == ASSUME PipelineInv, NEW h \in Handlers, StopRequest(h) PROVE PipelineInv'
<1>1. /\ TypeOK /\ Request(h, "stop") /\ Goto(h, "flag") /\ registry # NoWorker
      /\ target' = [target EXCEPT ![h] = registry]
      /\ UNCHANGED <<registryVars, threadVars, waiting, boxes, saw, history>>
  BY DEF PipelineInv, StopRequest
<1>2. /\ pc'[h] = "flag" /\ op'[h] = "stop" /\ target'[h] = registry /\ Only(h)
      /\ target' \in [Handlers -> 0 .. MaxWorkers]
  BY <1>1, GotoFacts, RequestFacts DEF TypeOK, Only
<1>3. registry \in 1 .. made
  BY <1>1, MadeAreWorkers DEF PipelineInv, WorkersOk, NoWorker
<1>4. HandlerOk(h)' /\ ~HoldsRegistry(h)'
  BY <1>1, <1>2, <1>3 DEF HandlerOk, HoldsRegistry, Stopping, registryVars
<1>. QED
  BY <1>1, <1>2, <1>4, GotoFacts, RequestFacts, QuietStep DEF TypeOK

-----------------------------------------------------------------------------
(* CameraWorker.stop and start *)

\* A handler that is inside a stop goes to its next step.
LEMMA StopGoesOn ==
  ASSUME PipelineInv, NEW h \in Handlers, pc[h] \in Stopping,
         NEW l \in {"join", "ijoin", "clear"}, Goto(h, l), UNCHANGED <<registryVars, op, target, saw, stopped, requests, boxes, inf, cap>>,
         asked' \in [Workers -> [capture : BOOLEAN, inference : BOOLEAN]],
         status' \in [Workers -> [capture : Status, inference : Status]],
         waiting' \in [Workers -> 0 .. QueueSize], \A w \in Workers : waiting[w] = 0 => waiting'[w] = 0,
         late' \subseteq Workers, late \subseteq late', WorkersOk',
         l = "ijoin" => target[h] \in late' \/ cap[target[h]] = "done",
         l = "clear" => target[h] \in late' \/ Emptied(target[h])'
  PROVE  PipelineInv'
<1>1. TypeOK /\ HandlerOk(h) /\ UNCHANGED <<registry, made>>
  BY DEF PipelineInv, registryVars
<1>2. pc' \in [Handlers -> HandlerPc] /\ pc'[h] = l /\ \A g \in Handlers \ {h} : pc'[g] = pc[g]
  BY <1>1, GotoFacts
<1>3. TypeOK'
  BY <1>1, <1>2 DEF TypeOK
<1>4. Onward
  BY <1>1, MadeAreWorkers DEF Onward, Emptied, Still
<1>5. Only(h)
  BY <1>2 DEF Only
<1>6. HoldsRegistry(h)' <=> HoldsRegistry(h)
  BY <1>2 DEF HoldsRegistry, Stopping
<1>7. HandlerOk(h)'
  BY <1>1, <1>2, <1>6 DEF HandlerOk, Stopping
<1>. QED
  BY <1>1, <1>3, <1>4, <1>5, <1>6, <1>7, HandlerStep DEF PipelineInv, WorkersOk

LEMMA TargetIsWorker ==
  ASSUME PipelineInv, NEW h \in Handlers, pc[h] \in Stopping
  PROVE  TypeOK /\ target[h] \in 1 .. made /\ target[h] \in Workers
  BY MadeAreWorkers DEF PipelineInv, HandlerOk

LEMMA StopFlagStep == ASSUME PipelineInv, NEW h \in Handlers, StopFlag(h) PROVE PipelineInv'
<1>. DEFINE w == target[h]
<1>1. TypeOK /\ w \in 1 .. made /\ w \in Workers /\ pc[h] \in Stopping
  BY TargetIsWorker DEF StopFlag, Stopping
<1>2. /\ asked' = [asked EXCEPT ![w].capture = TRUE] /\ SetStatus(w, "capture", "STOPPED") /\ Goto(h, "join")
      /\ UNCHANGED <<registryVars, cap, inf, waiting, boxes, op, target, saw, history, requests>>
  BY DEF StopFlag
<1>3. UNCHANGED <<registry, made, stopped, late>>
  BY <1>2 DEF registryVars, history
<1>4. asked' \in [Workers -> [capture : BOOLEAN, inference : BOOLEAN]]
  BY <1>1, <1>2 DEF TypeOK
<1>5. /\ status' \in [Workers -> [capture : Status, inference : Status]]
      /\ status'[w].capture = "STOPPED" /\ status'[w].inference = status[w].inference
      /\ \A v \in Workers : v # w => status'[v] = status[v]
  BY <1>1, <1>2, SetStatusFacts DEF Status
<1>6. WorkersOk'
  BY <1>1, <1>2, <1>3, <1>5 DEF PipelineInv, WorkersOk
<1>. QED
  BY <1>1, <1>2, <1>3, <1>4, <1>5, <1>6, StopGoesOn DEF TypeOK

LEMMA StopJoinStep == ASSUME PipelineInv, NEW h \in Handlers, StopJoin(h) PROVE PipelineInv'
<1>. DEFINE w == target[h]
<1>1. TypeOK /\ w \in 1 .. made /\ w \in Workers /\ pc[h] \in Stopping
  BY TargetIsWorker DEF StopJoin, Stopping
<1>2. /\ asked' = [asked EXCEPT ![w].inference = TRUE] /\ Joined(w, cap[w] \in Ended) /\ Goto(h, "ijoin")
      /\ UNCHANGED <<registryVars, cap, inf, status, waiting, boxes, op, target, saw, stopped, requests>>
  BY DEF StopJoin
<1>3. asked' \in [Workers -> [capture : BOOLEAN, inference : BOOLEAN]]
  BY <1>1, <1>2 DEF TypeOK
<1>4. late \subseteq late' /\ late' \subseteq Workers /\ (w \in late' \/ cap[w] = "done")
  BY <1>1, <1>2 DEF Joined, TypeOK, Ended, PipelineInv, WorkersOk
<1>5. WorkersOk'
  BY <1>2 DEF PipelineInv, WorkersOk, registryVars
<1>. QED
  BY <1>1, <1>2, <1>3, <1>4, <1>5, StopGoesOn DEF TypeOK

LEMMA StopInferenceStep == ASSUME PipelineInv, NEW h \in Handlers, StopInference(h) PROVE PipelineInv'
<1>. DEFINE w == target[h]
<1>1. TypeOK /\ w \in 1 .. made /\ w \in Workers /\ pc[h] \in Stopping /\ pc[h] = "ijoin"
  BY TargetIsWorker DEF StopInference, Stopping
<1>2. /\ Joined(w, inf[w] \in Ended) /\ SetStatus(w, "inference", "STOPPED")
      /\ waiting' = [waiting EXCEPT ![w] = 0] /\ Goto(h, "clear")
      /\ UNCHANGED <<registryVars, asked, cap, inf, boxes, op, target, saw, stopped, requests>>
  BY DEF StopInference
<1>3. /\ status' \in [Workers -> [capture : Status, inference : Status]]
      /\ status'[w].inference = "STOPPED" /\ status'[w].capture = status[w].capture
      /\ \A v \in Workers : v # w => status'[v] = status[v]
  BY <1>1, <1>2, SetStatusFacts DEF Status
<1>4. /\ waiting' \in [Workers -> 0 .. QueueSize] /\ waiting'[w] = 0
      /\ \A v \in Workers : waiting[v] = 0 => waiting'[v] = 0
  BY <1>1, <1>2, PipelineAssumption DEF TypeOK
<1>5. late \subseteq late' /\ late' \subseteq Workers /\ (w \in late' \/ inf[w] = "done")
  BY <1>1, <1>2 DEF Joined, TypeOK, Ended, PipelineInv, WorkersOk
<1>6. w \in late' \/ Emptied(w)'
  <2>1. w \in late \/ cap[w] = "done"
    BY <1>1 DEF PipelineInv, HandlerOk
  <2>. QED
    BY <1>2, <1>4, <1>5, <2>1 DEF Emptied
<1>7. WorkersOk'
  BY <1>1, <1>2, <1>3 DEF PipelineInv, WorkersOk, registryVars
<1>. QED
  BY <1>1, <1>2, <1>3, <1>4, <1>5, <1>6, <1>7, StopGoesOn DEF TypeOK

LEMMA StopClearStep == ASSUME PipelineInv, NEW h \in Handlers, StopClear(h) PROVE PipelineInv'
<1>. DEFINE w == target[h]
<1>1. TypeOK /\ w \in 1 .. made /\ w \in Workers /\ pc[h] = "clear" /\ HandlerOk(h)
  BY TargetIsWorker DEF StopClear, Stopping, PipelineInv
<1>2. /\ boxes' = NoWorker /\ stopped' = stopped \cup {w}
      /\ UNCHANGED <<registry, made, asked, cap, inf, status, waiting, late, requests>>
  BY DEF StopClear, registryVars, threadVars
<1>3. Onward
  BY <1>1, <1>2, MadeAreWorkers DEF Onward, Emptied, Still, NoWorker, Workers
<1>4. WorkersOk' /\ stopped' \subseteq 1 .. made /\ stopped' \subseteq Workers
  BY <1>1, <1>2, MadeAreWorkers DEF PipelineInv, WorkersOk
<1>5. \A v \in 1 .. made' : v \in stopped' \ stopped => v \in late' \/ Still(v)'
  BY <1>1, <1>2 DEF HandlerOk, Still, Emptied, NoWorker
<1>6. CASE op[h] = "stop" /\ Finish(h)
  <2>1. TypeOK'
    BY <1>1, <1>2, <1>4, <1>6, FinishFacts, PipelineAssumption DEF TypeOK, NoWorker
  <2>. QED
    BY <1>1, <1>2, <1>3, <1>4, <1>5, <1>6, <2>1, FinishFacts, HandlerStep
<1>7. CASE op[h] # "stop" /\ Goto(h, "create") /\ UNCHANGED <<op, target, saw>>
  <2>1. pc' \in [Handlers -> HandlerPc] /\ pc'[h] = "create" /\ \A g \in Handlers \ {h} : pc'[g] = pc[g]
    BY <1>1, <1>7, GotoFacts
  <2>2. TypeOK'
    BY <1>1, <1>2, <1>4, <1>7, <2>1, PipelineAssumption DEF TypeOK, NoWorker
  <2>3. Only(h) /\ HoldsRegistry(h) /\ w = registry
    BY <1>1, <1>7, <2>1 DEF Only, HoldsRegistry, HandlerOk, Stopping
  <2>4. HandlerOk(h)'
    BY <1>2, <1>7, <2>1, <2>3 DEF HandlerOk, Stopping, HoldsRegistry
  <2>. QED
    BY <1>2, <1>3, <1>4, <1>5, <2>2, <2>3, <2>4, HandlerStep
<1>. QED
  BY <1>6, <1>7 DEF StopClear

LEMMA StartWorkerStep == ASSUME PipelineInv, NEW h \in Handlers, StartWorker(h) PROVE PipelineInv'
<1>. DEFINE w == made + 1
<1>1. /\ TypeOK /\ HandlerOk(h) /\ pc[h] = "create" /\ made < MaxWorkers /\ made' = w /\ registry' = w
      /\ cap' = [cap EXCEPT ![w] = "connect"] /\ inf' = [inf EXCEPT ![w] = "pop"]
      /\ boxes' = NoWorker /\ Finish(h)
      /\ UNCHANGED <<asked, status, waiting, stopped, late, requests>>
  BY DEF PipelineInv, StartWorker, history
<1>2. made \in Nat /\ w \in Workers /\ w \in 0 .. MaxWorkers /\ 0 \in 0 .. MaxWorkers
  BY <1>1, PipelineAssumption DEF TypeOK, Workers
<1>3. /\ cap' \in [Workers -> {"none", "connect", "grab", "done"}] /\ cap'[w] = "connect"
      /\ inf' \in [Workers -> {"none", "pop", "detect", "end", "done"}] /\ inf'[w] = "pop"
      /\ \A v \in Workers : v # w => cap'[v] = cap[v] /\ inf'[v] = inf[v]
  BY <1>1, <1>2 DEF TypeOK
<1>4. TypeOK'
  BY <1>1, <1>2, <1>3, FinishFacts DEF TypeOK, NoWorker
<1>5. HoldsRegistry(h) /\ (made = 0 \/ made \in stopped)
  BY <1>1 DEF HoldsRegistry, HandlerOk, Stopping, PipelineInv, WorkersOk, NoWorker
<1>6. cap[w] = "none" /\ inf[w] = "none"
  BY <1>2 DEF PipelineInv, WorkersOk
<1>7. WorkersOk'
  <2>1. \A v \in 1 .. w : v # w => v \in 1 .. made /\ v \in Workers
    BY <1>2, MadeAreWorkers, <1>1
  <2>2. \A v \in Workers : v > w => v > made /\ v # w
    BY <1>2 DEF Workers
  <2>3. stopped \subseteq 1 .. w
    BY <1>2 DEF PipelineInv, WorkersOk
  <2>. QED
    BY <1>1, <1>2, <1>3, <2>1, <2>2, <2>3 DEF PipelineInv, WorkersOk
<1>8. Onward
  <2>1. \A v \in Workers : Still(v) => boxes' # v
    BY <1>1 DEF NoWorker, Workers
  <2>. QED
    BY <1>1, <1>2, <1>3, <1>6, <2>1 DEF Onward, Emptied
<1>. QED
  BY <1>1, <1>2, <1>4, <1>5, <1>7, <1>8, FinishFacts, HandlerStep DEF PipelineInv, WorkersOk

-----------------------------------------------------------------------------
LEMMA PipelineNext == PipelineInv /\ [Next]_vars => PipelineInv'
<1>. SUFFICES ASSUME PipelineInv, [Next]_vars PROVE PipelineInv'
  OBVIOUS
<1>1. CASE UNCHANGED vars
  <2>1. UNCHANGED <<registry, made, asked, cap, inf, status, waiting, boxes, pc, op, target, saw, requests, stopped, late>>
    BY <1>1 DEF vars, registryVars, threadVars, handlerVars, history
  <2>2. TypeOK' /\ WorkersOk' /\ GoneAreStill'
    BY <2>1 DEF PipelineInv, TypeOK, WorkersOk, GoneAreStill, Still, Emptied
  <2>3. OneHolder' /\ \A h \in Handlers : HandlerOk(h)'
    BY <2>1 DEF PipelineInv, OneHolder, HandlerOk, HoldsRegistry, Emptied
  <2>. QED
    BY <2>2, <2>3 DEF PipelineInv
<1>2. ASSUME NEW w \in 1 .. made, CaptureThread(w) \/ InferenceThread(w) PROVE PipelineInv'
  BY <1>2, CaptureStep, InferenceStep
<1>3. ASSUME NEW h \in Handlers, Handler(h) PROVE PipelineInv'
  BY <1>3, StartRequestStep, ViewRequestStep, ViewLockedStep, ViewLookupStep, StartLockedStep, StopRequestStep,
     StopFlagStep, StopJoinStep, StopInferenceStep, StopClearStep, StartWorkerStep
  DEF Handler, StopStep
<1>. QED
  BY <1>1, <1>2, <1>3 DEF Next

\* For any handlers, queue and number of starts: a worker that was stopped or replaced
\* is still unless a join gave up on it.
THEOREM PipelineSafety == Spec => []StoppedCameraIsStill
<1>1. PipelineInv => StoppedCameraIsStill
  <2>. SUFFICES ASSUME PipelineInv, NEW w \in 1 .. made, w \in stopped \/ w # registry, w \notin late
                PROVE  /\ cap[w] = "done" /\ inf[w] = "done"
                       /\ status[w] = [capture |-> "STOPPED", inference |-> "STOPPED"]
                       /\ waiting[w] = 0 /\ boxes # w
    BY DEF StoppedCameraIsStill
  <2>1. Still(w)
    BY DEF PipelineInv, WorkersOk, GoneAreStill
  <2>2. w \in Workers /\ status[w] \in [capture : Status, inference : Status]
    BY MadeAreWorkers DEF PipelineInv, TypeOK
  <2>3. status[w].capture = "STOPPED" /\ status[w].inference = "STOPPED"
    BY <2>1, <2>2 DEF Still, Emptied, PipelineInv, WorkersOk
  <2>. QED
    BY <2>1, <2>2, <2>3 DEF Still, Emptied
<1>. QED
  BY PipelineInitInv, PipelineNext, <1>1, PTL DEF Spec

\* For any handlers and starts: a viewer replaces a running worker only if it is not
\* the one it found not to run.
THEOREM ViewersReplace == Spec => ViewersReplaceOnlyNewcomers
<1>1. PipelineInv /\ [Next]_vars =>
        [\A h \in Handlers :
           op[h] = "view" /\ pc[h] = "lock" /\ pc'[h] = "flag" /\ IsRunning(registry) => registry # saw[h]]_vars
  BY DEF PipelineInv, HandlerOk, IsRunning, Ended
<1>. QED
  BY PipelineInitInv, PipelineNext, <1>1, PTL DEF Spec, ViewersReplaceOnlyNewcomers

-----------------------------------------------------------------------------
(* The slots of the streams *)

USE SlotsAssumption DEF NoCamera

Held == {c \in Clients : Holding(c)}

\* A client has a camera's slot exactly while it has a request; with the exact
\* counters, this is inductive.
SlotInv ==
  /\ StreamTypeOK
  /\ \A c \in Clients : phase[c] = "none" <=> slot[c] = NoCamera
  /\ CountersMatchSlots

\* One member more, one member less.
LEMMA OneMore ==
  ASSUME NEW S, NEW T, NEW c, IsFiniteSet(S), c \notin S, T = S \cup {c}
  PROVE  Cardinality(T) = Cardinality(S) + 1
  BY FS_AddElement

LEMMA OneLess ==
  ASSUME NEW S, NEW T, NEW c, IsFiniteSet(S), c \in S, T = S \ {c}
  PROVE  /\ Cardinality(T) = Cardinality(S) - 1
         /\ Cardinality(S) > 0
<1>1. Cardinality(T) = Cardinality(S) - 1
  BY FS_RemoveElement
<1>2. Cardinality(S) \in Nat /\ Cardinality(T) \in Nat
  BY FS_CardinalityType, FS_RemoveElement
<1>. QED
  BY <1>1, <1>2

LEMMA HoldersFinite ==
  /\ IsFiniteSet(Held)
  /\ \A k \in Cameras : IsFiniteSet(HoldersOf(k))
<1>1. Held \subseteq Clients
  BY DEF Held
<1>2. \A k \in Cameras : HoldersOf(k) \subseteq Clients
  BY DEF HoldersOf
<1>. QED
  BY <1>1, <1>2, FS_Subset

LEMMA InitSlots == StreamInit => SlotInv
<1> SUFFICES ASSUME StreamInit PROVE SlotInv
  OBVIOUS
<1>1. StreamTypeOK
  BY DEF StreamInit, StreamTypeOK
<1>2. Held = {} /\ \A k \in Cameras : HoldersOf(k) = {}
  BY DEF StreamInit, Held, HoldersOf, Holding
<1>3. CountersMatchSlots
  BY <1>2, FS_EmptySet DEF StreamInit, CountersMatchSlots, Held
<1>. QED
  BY <1>1, <1>3 DEF StreamInit, SlotInv

\* What a granted claim does to the slots and to the counters.
LEMMA ClaimStep ==
  ASSUME SlotInv, NEW c \in Clients, NEW k \in Cameras, NEW paths \in ReleasePaths, Claim(c, k, paths)
  PROVE  SlotInv' /\ ~Holding(c) /\ Held' = Held \cup {c}
<1>1. ~Holding(c)
  BY DEF Claim, SlotInv, Holding
<1>2. \A d \in Clients : Holding(d)' <=> (Holding(d) \/ d = c)
  BY DEF Claim, SlotInv, StreamTypeOK, Holding
<1>3. Held' = Held \cup {c} /\ c \notin Held
  BY <1>1, <1>2 DEF Held
<1>4. HoldersOf(k)' = HoldersOf(k) \cup {c} /\ c \notin HoldersOf(k)
  BY <1>1, <1>2 DEF HoldersOf, Claim, SlotInv, StreamTypeOK
<1>5. ASSUME NEW j \in Cameras, j # k PROVE HoldersOf(j)' = HoldersOf(j)
  BY <1>1, <1>2, <1>5 DEF HoldersOf, Claim, SlotInv, StreamTypeOK
<1>6. StreamTypeOK'
  BY DEF Claim, SlotInv, StreamTypeOK, ReleasePaths, Releases
<1>7. \A d \in Clients : phase'[d] = "none" <=> slot'[d] = NoCamera
  BY DEF Claim, SlotInv, StreamTypeOK
<1>8. total' = Cardinality(Held')
  BY <1>3, HoldersFinite, OneMore DEF Claim, SlotInv, CountersMatchSlots, Held
<1>9. byCamera'[k] = Cardinality(HoldersOf(k)')
  BY <1>4, HoldersFinite, OneMore DEF Claim, SlotInv, CountersMatchSlots, StreamTypeOK
<1>10. ASSUME NEW j \in Cameras, j # k PROVE byCamera'[j] = Cardinality(HoldersOf(j)')
  BY <1>5, <1>10 DEF Claim, SlotInv, CountersMatchSlots, StreamTypeOK
<1>11. CountersMatchSlots'
  BY <1>8, <1>9, <1>10 DEF CountersMatchSlots, Held
<1>. QED
  BY <1>1, <1>3, <1>6, <1>7, <1>11 DEF SlotInv

\* A release, the first of its slot or a later one.
LEMMA ReleaseStep ==
  ASSUME SlotInv, NEW c \in Clients, NEW p \in Releases, Release(c, p)
  PROVE  /\ SlotInv'
         /\ \A d \in Clients : Holding(d)' <=> (Holding(d) /\ d # c)
         /\ \A d \in Clients : d # c => slot'[d] = slot[d]
<1>1. PICK k \in Cameras : slot[c] = k
  BY DEF Release, SlotInv, StreamTypeOK
<1>2. released'[c] /\ \A d \in Clients : d # c => released'[d] = released[d]
  BY DEF Release, GiveBack, SlotInv, StreamTypeOK
<1>3. \A d \in Clients : d # c => slot'[d] = slot[d]
  BY DEF Release, SlotInv, StreamTypeOK
<1>4. \A d \in Clients : Holding(d)' <=> (Holding(d) /\ d # c)
  BY <1>2, <1>3 DEF Holding
<1>5. Held' = Held \ {c}
  BY <1>4 DEF Held
<1>6. \A j \in Cameras : HoldersOf(j)' = HoldersOf(j) \ {c}
  BY <1>3, <1>4 DEF HoldersOf
<1>7. total \in Nat /\ \A j \in Cameras : byCamera[j] \in Nat
  BY DEF SlotInv, StreamTypeOK
<1>8. StreamTypeOK'
  <2>0. total' \in Nat
    BY <1>7 DEF Release, GiveBack
  <2>1. released' \in [Clients -> BOOLEAN]
    BY DEF Release, GiveBack, SlotInv, StreamTypeOK
  <2>2. byCamera' \in [Cameras -> Nat]
    <3>1. byCamera' = byCamera \/ byCamera' = [byCamera EXCEPT ![k] = IF @ > 1 THEN @ - 1 ELSE 0]
      BY <1>1 DEF Release, GiveBack
    <3>2. (IF byCamera[k] > 1 THEN byCamera[k] - 1 ELSE 0) \in Nat
      BY <1>7
    <3>. QED
      BY <3>1, <3>2 DEF SlotInv, StreamTypeOK
  <2>. QED
    BY <2>0, <2>1, <2>2 DEF Release, SlotInv, StreamTypeOK, Releases
<1>9. \A d \in Clients : phase'[d] = "none" <=> slot'[d] = NoCamera
  BY <1>1 DEF Release, SlotInv, StreamTypeOK
<1>10. CountersMatchSlots'
  <2>1. CASE released[c]
    <3>1. Held' = Held /\ \A j \in Cameras : HoldersOf(j)' = HoldersOf(j)
      BY <2>1, <1>5, <1>6 DEF Held, HoldersOf, Holding
    <3>. QED
      BY <2>1, <3>1 DEF Release, GiveBack, SlotInv, CountersMatchSlots, Held
  <2>2. CASE ~released[c]
    <3>1. c \in Held /\ c \in HoldersOf(k)
      BY <2>2, <1>1 DEF Held, HoldersOf, Holding
    <3>2. total' = Cardinality(Held')
      <4>1. total = Cardinality(Held)
        BY DEF SlotInv, CountersMatchSlots, Held
      <4>2. Cardinality(Held') = Cardinality(Held) - 1 /\ Cardinality(Held) > 0
        BY <1>5, <3>1, HoldersFinite, OneLess
      <4>. QED
        BY <2>2, <4>1, <4>2 DEF Release, GiveBack
    <3>3. byCamera'[k] = Cardinality(HoldersOf(k)')
      <4>1. byCamera[k] = Cardinality(HoldersOf(k))
        BY <1>1 DEF SlotInv, CountersMatchSlots
      <4>2. Cardinality(HoldersOf(k) \ {c}) = Cardinality(HoldersOf(k)) - 1 /\ Cardinality(HoldersOf(k)) > 0
        BY <1>1, <3>1, HoldersFinite, OneLess
      <4>3. Cardinality(HoldersOf(k)') = Cardinality(HoldersOf(k) \ {c})
        BY <1>1, <1>3, <1>4 DEF HoldersOf
      <4>4. byCamera'[k] = IF byCamera[k] > 1 THEN byCamera[k] - 1 ELSE 0
        BY <1>1, <2>2 DEF Release, GiveBack, SlotInv, StreamTypeOK
      <4>. QED
        BY <1>1, <1>7, <4>1, <4>2, <4>3, <4>4
    <3>4. ASSUME NEW j \in Cameras, j # k PROVE byCamera'[j] = Cardinality(HoldersOf(j)')
      <4>1. c \notin HoldersOf(j)
        BY <1>1, <3>4 DEF HoldersOf
      <4>2. HoldersOf(j)' = HoldersOf(j)
        BY <1>6, <4>1
      <4>. QED
        BY <4>2, <1>1, <2>2, <3>4 DEF Release, GiveBack, SlotInv, StreamTypeOK, CountersMatchSlots
    <3>. QED
      BY <3>2, <3>3, <3>4 DEF CountersMatchSlots, Held
  <2>. QED
    BY <2>1, <2>2
<1>. QED
  BY <1>3, <1>4, <1>8, <1>9, <1>10 DEF SlotInv

\* The steps that touch no slot.
LEMMA OtherStep ==
  ASSUME SlotInv,
         \/ \E k \in Cameras : CameraStarts(k) \/ CameraEnds(k)
         \/ \E c \in Clients : EndStream(c)
         \/ UNCHANGED streamVars
  PROVE  SlotInv' /\ UNCHANGED <<slot, released>>
<1>1. UNCHANGED <<total, byCamera, slot, released, calls>>
  BY DEF CameraStarts, CameraEnds, EndStream, streamVars, slotVars
<1>2. CountersMatchSlots'
  BY <1>1 DEF SlotInv, CountersMatchSlots, HoldersOf, Holding
<1>3. StreamTypeOK'
  BY <1>1 DEF SlotInv, StreamTypeOK, CameraStarts, CameraEnds, EndStream, streamVars, slotVars
<1>4. \A c \in Clients : phase'[c] = "none" <=> slot'[c] = NoCamera
  BY <1>1 DEF SlotInv, StreamTypeOK, CameraStarts, CameraEnds, EndStream, streamVars, slotVars
<1>. QED
  BY <1>1, <1>2, <1>3, <1>4 DEF SlotInv

LEMMA SlotStep == SlotInv /\ [StreamNext]_streamVars => SlotInv'
<1> SUFFICES ASSUME SlotInv, [StreamNext]_streamVars PROVE SlotInv'
  OBVIOUS
<1>1. ASSUME NEW c \in Clients, NEW k \in Cameras, NEW paths \in ReleasePaths, Claim(c, k, paths)
      PROVE  SlotInv'
  BY <1>1, ClaimStep
<1>2. ASSUME NEW c \in Clients, NEW p \in Releases, Release(c, p) PROVE SlotInv'
  BY <1>2, ReleaseStep
<1>3. ASSUME \/ \E k \in Cameras : CameraStarts(k) \/ CameraEnds(k)
             \/ \E c \in Clients : EndStream(c)
             \/ UNCHANGED streamVars
      PROVE  SlotInv'
  BY <1>3, OtherStep
<1>. QED
  BY <1>1, <1>2, <1>3 DEF StreamNext, Close

\* Every variable of the slots stays in its range.
THEOREM SlotTypeCorrect == StreamSpec => []StreamTypeOK
<1>1. SlotInv => StreamTypeOK
  BY DEF SlotInv
<1>. QED
  BY <1>1, InitSlots, SlotStep, PTL DEF StreamSpec

\* The two counters that admit viewers are the numbers of the slots held, in every
\* reachable state, however the releases of one slot are ordered or repeated.
THEOREM CountersExact == StreamSpec => []CountersMatchSlots
<1>1. SlotInv => CountersMatchSlots
  BY DEF SlotInv
<1>. QED
  BY <1>1, InitSlots, SlotStep, PTL DEF StreamSpec

-----------------------------------------------------------------------------
\* No more viewers than the limits say, in all and at one camera.
WithinLimits ==
  /\ MaxTotal > 0 => total <= MaxTotal
  /\ MaxPerCamera > 0 => \A k \in Cameras : byCamera[k] <= MaxPerCamera

LEMMA LimitStep == SlotInv /\ WithinLimits /\ [StreamNext]_streamVars => WithinLimits'
<1> SUFFICES ASSUME SlotInv, WithinLimits, [StreamNext]_streamVars PROVE WithinLimits'
  OBVIOUS
<1>0. total \in Nat /\ byCamera \in [Cameras -> Nat]
  BY DEF SlotInv, StreamTypeOK
<1>1. ASSUME NEW c \in Clients, NEW k \in Cameras, NEW paths \in ReleasePaths, Claim(c, k, paths)
      PROVE  WithinLimits'
  BY <1>0, <1>1 DEF WithinLimits, Claim, RoomFor
<1>2. ASSUME NEW c \in Clients, NEW p \in Releases, Release(c, p) PROVE WithinLimits'
  <2>1. total' \in Nat /\ total' <= total
    BY <1>0, <1>2 DEF Release, GiveBack
  <2>2. \A k \in Cameras : byCamera'[k] <= byCamera[k] /\ byCamera'[k] \in Nat
    BY <1>0, <1>2 DEF Release, GiveBack
  <2>. QED
    BY <1>0, <2>1, <2>2 DEF WithinLimits
<1>3. ASSUME \/ \E k \in Cameras : CameraStarts(k) \/ CameraEnds(k)
             \/ \E c \in Clients : EndStream(c)
             \/ UNCHANGED streamVars
      PROVE  WithinLimits'
  BY <1>3 DEF WithinLimits, CameraStarts, CameraEnds, EndStream, streamVars, slotVars
<1>. QED
  BY <1>1, <1>2, <1>3 DEF StreamNext, Close

\* The limits hold in every reachable state.
THEOREM LimitsHold == StreamSpec => []WithinLimits
<1>1. StreamInit => WithinLimits
  BY DEF StreamInit, WithinLimits
<1>. QED
  BY <1>1, InitSlots, SlotStep, LimitStep, PTL DEF StreamSpec

-----------------------------------------------------------------------------
Place == [c \in Clients |-> IF Holding(c) THEN slot[c] ELSE NoCamera]

LEMMA PoolCardinality == \A S : Pool!Cardinality(S) = Cardinality(S)
  BY DEF Pool!Cardinality, Cardinality

LEMMA PlaceInside ==
  ASSUME SlotInv
  PROVE  Pool!Inside = Held /\ \A k \in Cameras : Pool!InGroup(k) = HoldersOf(k)
  BY DEF Pool!Inside, Pool!InGroup, Pool!NoPlace, Held, HoldersOf, Holding, SlotInv, StreamTypeOK

\* A claim enters the pool, the first release of a slot leaves it, and everything
\* else is invisible to it.
LEMMA PoolStep ==
  SlotInv /\ [StreamNext]_streamVars => [Pool!Admit]_Place
<1> SUFFICES ASSUME SlotInv, [StreamNext]_streamVars PROVE [Pool!Admit]_Place
  OBVIOUS
<1>1. ASSUME NEW c \in Clients, NEW k \in Cameras, NEW paths \in ReleasePaths, Claim(c, k, paths)
      PROVE  Pool!Enter(c, k)
  <2>1. ~Holding(c)
    BY <1>1, ClaimStep
  <2>2. Pool!Room(k)
    BY <1>1, PlaceInside, PoolCardinality DEF Pool!Room, Claim, RoomFor, SlotInv, CountersMatchSlots, Held
  <2>3. Place' = [Place EXCEPT ![c] = k]
    BY <1>1 DEF Place, Holding, Claim, SlotInv, StreamTypeOK
  <2>. QED
    BY <2>1, <2>2, <2>3 DEF Pool!Enter, Pool!NoPlace, Place
<1>2. ASSUME NEW c \in Clients, NEW p \in Releases, Release(c, p)
      PROVE  Pool!Leave(c) \/ Place' = Place
  <2>1. Place' = [Place EXCEPT ![c] = NoCamera]
    BY <1>2, ReleaseStep DEF Place
  <2>2. CASE Holding(c)
    BY <2>1, <2>2 DEF Pool!Leave, Pool!NoPlace, Place, Holding
  <2>3. CASE ~Holding(c)
    BY <2>1, <2>3 DEF Place
  <2>. QED
    BY <2>2, <2>3
<1>3. ASSUME \/ \E k \in Cameras : CameraStarts(k) \/ CameraEnds(k)
             \/ \E c \in Clients : EndStream(c)
             \/ UNCHANGED streamVars
      PROVE  Place' = Place
  BY <1>3, OtherStep DEF Place, Holding
<1>. QED
  BY <1>1, <1>2, <1>3 DEF StreamNext, Close, Pool!Admit

\* The counters and the releases implement the pool, which knows neither.
THEOREM SlotsImplementPool == StreamSpec => ImplementsPool
<1>1. StreamInit => Pool!Empty
  BY DEF StreamInit, Pool!Empty, Pool!NoPlace, Holding
<1>2. SlotInv /\ [StreamNext]_streamVars => [Pool!Admit]_([c \in Clients |-> IF Holding(c) THEN slot[c] ELSE NoCamera])
  BY PoolStep DEF Place
<1>. QED
  BY <1>1, <1>2, InitSlots, SlotStep, PTL DEF StreamSpec, ImplementsPool, Pool!AdmissionSpec

=============================================================================

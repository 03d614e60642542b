---------------------------- MODULE CameraPipeline ----------------------------
(***************************************************************************)
(* One camera of the AI server (ai-vm/app/cameras.py, camera_worker.py,    *)
(* inference_worker.py, analysis_queue.py, bbox_store.py and the camera    *)
(* endpoints of main.py).                                                  *)
(*                                                                         *)
(* Each start of the camera makes a new CameraWorker with a capture thread *)
(* and an inference thread.  stop() asks both to end and waits two seconds *)
(* for each; a thread blocked in a read or in a detection outlives it.     *)
(* The latest boxes are kept per camera, not per worker.                   *)
(*                                                                         *)
(* A worker is the number of its start; a queue is the number of its       *)
(* frames.  Whether the URL and rates asked for are those of the running   *)
(* worker may go either way: the capture thread replaces its URL by what   *)
(* the source's directory says at any reconnection.  Left out: the latest  *)
(* image (LatestImage), the ring buffer and the clips (EventClips), frames *)
(* and detections, counters that are only shown.                           *)
(***************************************************************************)
EXTENDS Integers

CONSTANTS
  Handlers,    \* request threads
  QueueSize,   \* analysis_queue_size
  MaxWorkers,  \* bound: workers made
  MaxRequests  \* bound: requests

ASSUME PipelineAssumption ==
  /\ QueueSize \in Nat \ {0}
  /\ MaxWorkers \in Nat \ {0}
  /\ MaxRequests \in Nat

Workers == 1 .. MaxWorkers
NoWorker == 0
\* CameraStatus and InferenceStatus, where UP is any of theirs but STOPPED.
Status == {"UP", "STOPPED"}

VARIABLES
  registry,  \* the worker CameraRegistry holds for the camera
  made,      \* workers made so far
  asked,     \* [capture, inference]: the two stop events of each worker
  cap,       \* where each capture thread is
  inf,       \* where each inference thread is
  status,    \* [capture, inference]: what each worker shows
  waiting,   \* how many frames each analysis queue holds
  boxes,     \* the worker whose boxes the camera shows (_latest_bbox_metadata)
  pc,        \* where each handler is
  op,        \* what each handler was asked: "start", "view", "stop" or "none"
  target,    \* the worker a handler is stopping
  saw,       \* the worker a viewer found not to run
  requests,  \* requests so far
  stopped,   \* workers whose stop() has returned
  late       \* workers with a thread that outlived a join

registryVars == <<registry, made>>
threadVars == <<asked, cap, inf, status>>
handlerVars == <<pc, op, target, saw, requests>>
history == <<stopped, late>>
vars == <<registryVars, threadVars, waiting, boxes, handlerVars, history>>

Init ==
  /\ registry = NoWorker
  /\ made = 0
  /\ asked = [w \in Workers |-> [capture |-> FALSE, inference |-> FALSE]]
  /\ cap = [w \in Workers |-> "none"]
  /\ inf = [w \in Workers |-> "none"]
  /\ status = [w \in Workers |-> [capture |-> "UP", inference |-> "UP"]]
  /\ waiting = [w \in Workers |-> 0]
  /\ boxes = NoWorker
  /\ pc = [h \in Handlers |-> "idle"]
  /\ op = [h \in Handlers |-> "none"]
  /\ target = [h \in Handlers |-> NoWorker]
  /\ saw = [h \in Handlers |-> NoWorker]
  /\ requests = 0
  /\ stopped = {}
  /\ late = {}

Ended == {"none", "done"}
\* is_running: the capture thread is alive.
IsRunning(w) == w # NoWorker /\ cap[w] \notin Ended

-----------------------------------------------------------------------------
(* The capture thread: CameraWorker._capture_loop *)

SetStatus(w, field, s) == status' = [status EXCEPT ![w][field] = s]

\* The inner loop goes on, or is left for the top, by its test of the stop event.
Again(w) == IF asked[w].capture THEN "connect" ELSE "grab"

\* The top of the outer loop: the source is looked up again and opened, or not.
CaptureOpen(w) ==
  /\ cap[w] = "connect"
  /\ ~asked[w].capture
  /\ SetStatus(w, "capture", "UP")
  /\ \E next \in {"connect", "grab"} : cap' = [cap EXCEPT ![w] = next]
  /\ UNCHANGED <<registryVars, asked, inf, waiting, boxes, handlerVars, history>>

\* capture.read() fails: the segment ended, nothing came for too long, or it raised.
CaptureLost(w) ==
  /\ cap[w] = "grab"
  /\ SetStatus(w, "capture", "UP")
  /\ cap' = [cap EXCEPT ![w] = "connect"]
  /\ UNCHANGED <<registryVars, asked, inf, waiting, boxes, handlerVars, history>>

\* AnalysisQueue.push: a full queue gives up its oldest frame.
Pushed(n) == IF n < QueueSize THEN n + 1 ELSE n

\* A frame is read and shared (LatestImage, EventClips) and goes to the analysis,
\* unless its interval has not passed.
CaptureFrame(w) ==
  /\ cap[w] = "grab"
  /\ \/ waiting' = [waiting EXCEPT ![w] = Pushed(@)]
     \/ UNCHANGED waiting
  /\ cap' = [cap EXCEPT ![w] = Again(w)]
  /\ UNCHANGED <<registryVars, asked, inf, status, boxes, handlerVars, history>>

\* Mutant: the thread ends without a word.
CaptureEndSilently(w) ==
  /\ cap[w] = "connect"
  /\ asked[w].capture
  /\ cap' = [cap EXCEPT ![w] = "done"]
  /\ UNCHANGED <<registryVars, asked, inf, status, waiting, boxes, handlerVars, history>>

CaptureEnd(w) ==
  /\ cap[w] = "connect"
  /\ asked[w].capture
  /\ SetStatus(w, "capture", "STOPPED")
  /\ cap' = [cap EXCEPT ![w] = "done"]
  /\ UNCHANGED <<registryVars, asked, inf, waiting, boxes, handlerVars, history>>

CaptureThread(w) ==
  \/ CaptureOpen(w) \/ CaptureLost(w)
  \/ CaptureFrame(w) \/ CaptureEnd(w)

-----------------------------------------------------------------------------
(* The inference thread: InferenceWorker._inference_loop *)

Resume(w) == IF asked[w].inference THEN "end" ELSE "pop"

\* A pop that found the stop event clear may still take a frame after it is set.
InferencePop(w) ==
  /\ inf[w] = "pop"
  /\ waiting[w] > 0
  /\ waiting' = [waiting EXCEPT ![w] = @ - 1]
  /\ inf' = [inf EXCEPT ![w] = "detect"]
  /\ UNCHANGED <<registryVars, asked, cap, status, boxes, handlerVars, history>>

\* Detection, filter and event detector return, the boxes are published, the
\* events handed over and the status set; an exception may come before the boxes.
InferenceDetect(w) ==
  /\ inf[w] = "detect"
  /\ boxes' \in {w, boxes}
  /\ SetStatus(w, "inference", "UP")
  /\ inf' = [inf EXCEPT ![w] = Resume(w)]
  /\ UNCHANGED <<registryVars, asked, cap, waiting, handlerVars, history>>

InferenceEnd(w) ==
  /\ \/ inf[w] = "end"
     \/ inf[w] = "pop" /\ waiting[w] = 0 /\ asked[w].inference
  /\ SetStatus(w, "inference", "STOPPED")
  /\ inf' = [inf EXCEPT ![w] = "done"]
  /\ UNCHANGED <<registryVars, asked, cap, waiting, boxes, handlerVars, history>>

InferenceThread(w) ==
  \/ InferencePop(w) \/ InferenceDetect(w) \/ InferenceEnd(w)

-----------------------------------------------------------------------------
(* Requests: POST /internal/cameras/<id>/start and /stop, and the viewers  *)
(* (stream, snapshot, detections) that start a configured camera on demand *)

Goto(h, label) == pc' = [pc EXCEPT ![h] = label]
Stopping == {"flag", "join", "ijoin", "clear"}

\* start_camera holds the registry lock while it stops the old worker;
\* stop_camera has let it go.
RegistryLocked == \E h \in Handlers : op[h] # "stop" /\ pc[h] \in Stopping \cup {"create"}
\* _configured_its_camera_lock
CameraLocked == \E h \in Handlers : op[h] = "view" /\ pc[h] \notin {"idle", "view"}

Request(h, what) ==
  /\ pc[h] = "idle"
  /\ requests < MaxRequests
  /\ requests' = requests + 1
  /\ op' = [op EXCEPT ![h] = what]

Finish(h) ==
  /\ Goto(h, "idle")
  /\ op' = [op EXCEPT ![h] = "none"]
  /\ target' = [target EXCEPT ![h] = NoWorker]
  /\ saw' = [saw EXCEPT ![h] = NoWorker]

StartRequest(h) ==
  /\ Request(h, "start")
  /\ Goto(h, "lock")
  /\ UNCHANGED <<registryVars, threadVars, waiting, boxes, target, saw, history>>

\* _ensure_configured_its_camera_worker finds no running worker.
ViewRequest(h) ==
  /\ Request(h, "view")
  /\ ~IsRunning(registry)
  /\ Goto(h, "view")
  /\ UNCHANGED <<registryVars, threadVars, waiting, boxes, target, saw, history>>

\* Mutant: the viewer that waited for the lock does not look again.
ViewWithoutLook(h) ==
  /\ pc[h] = "view"
  /\ ~CameraLocked
  /\ Goto(h, "lookup")
  /\ saw' = [saw EXCEPT ![h] = registry]
  /\ UNCHANGED <<registryVars, threadVars, waiting, boxes, op, target, history, requests>>

\* Under the camera's lock it looks again.
ViewLocked(h) ==
  /\ pc[h] = "view"
  /\ ~CameraLocked
  /\ \/ /\ IsRunning(registry)
        /\ Finish(h)
     \/ /\ ~IsRunning(registry)
        /\ Goto(h, "lookup")
        /\ saw' = [saw EXCEPT ![h] = registry]
        /\ UNCHANGED <<op, target>>
  /\ UNCHANGED <<registryVars, threadVars, waiting, boxes, history, requests>>

\* The source is looked up by its name, or is not found.
ViewLookup(h) ==
  /\ pc[h] = "lookup"
  /\ \/ Finish(h)
     \/ /\ Goto(h, "lock")
        /\ UNCHANGED <<op, target, saw>>
  /\ UNCHANGED <<registryVars, threadVars, waiting, boxes, history, requests>>

\* CameraRegistry.start_camera: reuse, or stop the old worker first.
StartLocked(h) ==
  /\ pc[h] = "lock"
  /\ ~RegistryLocked
  /\ \/ /\ IsRunning(registry)
        /\ Finish(h)
     \/ /\ Goto(h, IF registry = NoWorker THEN "create" ELSE "flag")
        /\ target' = [target EXCEPT ![h] = registry]
        /\ UNCHANGED <<op, saw>>
  /\ UNCHANGED <<registryVars, threadVars, waiting, boxes, history, requests>>

\* stop_camera takes the worker under the lock and stops it outside.
StopRequest(h) ==
  /\ Request(h, "stop")
  /\ ~RegistryLocked
  /\ registry # NoWorker
  /\ Goto(h, "flag")
  /\ target' = [target EXCEPT ![h] = registry]
  /\ UNCHANGED <<registryVars, threadVars, waiting, boxes, saw, history>>

\* CameraWorker.stop, in its steps
StopFlag(h) ==
  /\ pc[h] = "flag"
  /\ asked' = [asked EXCEPT ![target[h]].capture = TRUE]
  /\ SetStatus(target[h], "capture", "STOPPED")
  /\ Goto(h, "join")
  /\ UNCHANGED <<registryVars, cap, inf, waiting, boxes, op, target, saw, history, requests>>

\* The join of a thread returns when it has ended or after two seconds.
Joined(w, ended) == late' = IF ended THEN late ELSE late \cup {w}

StopJoin(h) ==
  /\ pc[h] = "join"
  /\ Joined(target[h], cap[target[h]] \in Ended)
  /\ asked' = [asked EXCEPT ![target[h]].inference = TRUE]
  /\ Goto(h, "ijoin")
  /\ UNCHANGED <<registryVars, cap, inf, status, waiting, boxes, op, target, saw, stopped, requests>>

\* Mutant: the queue keeps its frames.
StopWithoutClear(h) ==
  /\ pc[h] = "ijoin"
  /\ Joined(target[h], inf[target[h]] \in Ended)
  /\ SetStatus(target[h], "inference", "STOPPED")
  /\ Goto(h, "clear")
  /\ UNCHANGED <<registryVars, asked, cap, inf, waiting, boxes, op, target, saw, stopped, requests>>

StopInference(h) ==
  /\ pc[h] = "ijoin"
  /\ Joined(target[h], inf[target[h]] \in Ended)
  /\ SetStatus(target[h], "inference", "STOPPED")
  /\ waiting' = [waiting EXCEPT ![target[h]] = 0]
  /\ Goto(h, "clear")
  /\ UNCHANGED <<registryVars, asked, cap, inf, boxes, op, target, saw, stopped, requests>>

\* The boxes of the camera go, whichever worker they are from.
StopClear(h) ==
  /\ pc[h] = "clear"
  /\ boxes' = NoWorker
  /\ stopped' = stopped \cup {target[h]}
  /\ IF op[h] = "stop"
       THEN Finish(h)
       ELSE Goto(h, "create") /\ UNCHANGED <<op, target, saw>>
  /\ UNCHANGED <<registryVars, threadVars, waiting, late, requests>>

\* A new worker is registered and started: CameraWorker.start.
StartWorker(h) ==
  /\ pc[h] = "create"
  /\ made < MaxWorkers
  /\ LET w == made + 1 IN
     /\ made' = w
     /\ registry' = w
     /\ cap' = [cap EXCEPT ![w] = "connect"]
     /\ inf' = [inf EXCEPT ![w] = "pop"]
  /\ boxes' = NoWorker
  /\ Finish(h)
  /\ UNCHANGED <<asked, status, waiting, history, requests>>

-----------------------------------------------------------------------------
StopStep(h) == StopFlag(h) \/ StopJoin(h) \/ StopInference(h) \/ StopClear(h) \/ StartWorker(h)

Handler(h) ==
  \/ StartRequest(h)
  \/ ViewRequest(h) \/ ViewLocked(h) \/ ViewLookup(h)
  \/ StartLocked(h) \/ StopRequest(h) \/ StopStep(h)

Next ==
  \/ \E w \in 1 .. made : CaptureThread(w) \/ InferenceThread(w)
  \/ \E h \in Handlers : Handler(h)

\* The threads run and their calls into OpenCV and the detector return; a
\* stop() that has begun goes on.
Fairness ==
  /\ \A w \in Workers : WF_vars(w <= made /\ CaptureThread(w)) /\ WF_vars(w <= made /\ InferenceThread(w))
  /\ \A h \in Handlers : WF_vars(StopStep(h))

Spec == Init /\ [][Next]_vars /\ Fairness

-----------------------------------------------------------------------------
HandlerPc == {"idle", "view", "lookup", "lock", "create"} \cup Stopping

\* Every variable keeps its type, and the analysis queue its bound.
TypeOK ==
  /\ registry \in 0 .. MaxWorkers
  /\ made \in 0 .. MaxWorkers
  /\ asked \in [Workers -> [capture : BOOLEAN, inference : BOOLEAN]]
  /\ cap \in [Workers -> {"none", "connect", "grab", "done"}]
  /\ inf \in [Workers -> {"none", "pop", "detect", "end", "done"}]
  /\ status \in [Workers -> [capture : Status, inference : Status]]
  /\ waiting \in [Workers -> 0 .. QueueSize]
  /\ boxes \in 0 .. MaxWorkers
  /\ pc \in [Handlers -> HandlerPc]
  /\ op \in [Handlers -> {"none", "start", "view", "stop"}]
  /\ target \in [Handlers -> 0 .. MaxWorkers]
  /\ saw \in [Handlers -> 0 .. MaxWorkers]
  /\ requests \in 0 .. MaxRequests
  /\ stopped \subseteq Workers
  /\ late \subseteq Workers

\* A camera whose stop() has returned, and a worker another one has replaced,
\* is still: both threads have ended and say so, no frame waits for analysis
\* and none of its boxes are shown.  Only a worker with a thread that outlived
\* the two seconds of a join may differ (CameraWorker.stop, InferenceWorker.stop).
StoppedCameraIsStill ==
  \A w \in 1 .. made :
    (w \in stopped \/ w # registry) /\ w \notin late =>
      /\ cap[w] = "done" /\ inf[w] = "done"
      /\ status[w] = [capture |-> "STOPPED", inference |-> "STOPPED"]
      /\ waiting[w] = 0
      /\ boxes # w

\* A viewer replaces a running worker only if it was not running when the
\* viewer looked under the camera's lock: another start came in between
\* (_ensure_configured_its_camera_worker takes a lock /start does not take).
ViewersReplaceOnlyNewcomers ==
  [][\A h \in Handlers :
       op[h] = "view" /\ pc[h] = "lock" /\ pc'[h] = "flag" /\ IsRunning(registry)
         => registry # saw[h]]_vars

\* What was asked to stop stops, and reads STOPPED, even after a join gave up.
StopTakesEffect ==
  \A w \in Workers :
    asked[w].capture ~>
      /\ cap[w] = "done" /\ inf[w] = "done"
      /\ status[w] = [capture |-> "STOPPED", inference |-> "STOPPED"]
=============================================================================

------------------------------ MODULE EventClips ------------------------------
(***************************************************************************)
(* The event clips of one camera (ai-vm/app/event_clip_worker.py,          *)
(* ring_buffer.py and the part of camera_worker.py that feeds them).       *)
(*                                                                         *)
(* The capture thread puts each frame into the ring buffer and then into   *)
(* the clips being collected.  The inference thread and the requests for a *)
(* manual event copy the ring, and only then make their clip one of those  *)
(* being collected.  Whoever finds a clip complete puts it into a bounded  *)
(* queue; a writer thread writes the clip and sends the event.             *)
(*                                                                         *)
(* Time is counted in frames: frame n has timestamp n.  The ring buffer is *)
(* the last RingSize frames.  Left out: pixels, files, the overlay.        *)
(***************************************************************************)
EXTENDS Integers, Sequences, FiniteSets

CONSTANTS
  Events,     \* events of this camera
  RingSize,   \* max_frames of the ring buffer
  Pre, Post,  \* pre_seconds and post_seconds, in frames
  ClipQueue,  \* EVENT_CLIP_WRITE_QUEUE_SIZE
  MaxTime     \* bound: frames read

None == "no event"

ASSUME ClipAssumption ==
  /\ RingSize \in Nat \ {0}
  /\ ClipQueue \in Nat \ {0}
  /\ Pre \in Nat /\ Post \in Nat /\ MaxTime \in Nat
  /\ None \notin Events

Frames == 1 .. MaxTime
\* The threads that make events, and all that hand clips over.
Detectors == {"inference", "request"}
Threads == Detectors \cup {"capture", "stopper"}
NewClip == [at |-> 0, frames |-> {}, seen |-> 0, since |-> 0, until |-> 0]

VARIABLES
  time,     \* frames in the ring buffer so far
  passed,   \* frames on_frame has begun with
  clip,     \* of each event: its timestamp and its frames; the newest frame of its
            \*   copy of the ring, and `passed' when it became and ceased to be active
  active,   \* _active_clips
  making,   \* the event each detector is enqueueing
  hands,    \* the complete clips each thread holds
  queue,    \* _write_queue
  writer,   \* the write loop: "test", "get", "write", "resend" or "done"
  job,      \* the event being written
  stop,     \* stop(): "no", "asked" or "done"
  sent,     \* events given to the relay client
  dropped   \* events whose clip found the queue full

clipVars == <<time, passed, clip, active, making, hands, queue, writer, job,
              stop, sent, dropped>>

ClipInit ==
  /\ time = 0 /\ passed = 0
  /\ clip = [e \in Events |-> NewClip]
  /\ active = {}
  /\ making = [d \in Detectors |-> None]
  /\ hands = [t \in Threads |-> {}]
  /\ queue = <<>>
  /\ writer = "test"
  /\ job = None
  /\ stop = "no"
  /\ sent = {} /\ dropped = {}

writerVars == <<writer, job, sent>>

\* RingBuffer.append and snapshot
Ring == {f \in 1 .. time : f > time - RingSize}

-----------------------------------------------------------------------------
(* The capture thread *)

\* A frame is read and goes into the ring buffer.
AppendFrame ==
  /\ time < MaxTime
  /\ passed = time /\ hands["capture"] = {}
  /\ time' = time + 1
  /\ UNCHANGED <<passed, clip, active, making, hands, queue, stop, dropped, writerVars>>

\* Those of the active clips whose window is over at t.
Complete(t) == {e \in active : t - clip[e].at >= Post}

\* on_frame: the frame goes into the clips it belongs to; the ones it completes
\* are taken off the list.
OnFrame ==
  /\ passed < time
  /\ passed' = time
  /\ clip' = [e \in Events |->
       IF e \in active
         THEN [clip[e] EXCEPT !.frames = @ \cup ({time} \cap clip[e].at .. clip[e].at + Post),
                              !.until = IF e \in Complete(time) THEN time ELSE 0]
         ELSE clip[e]]
  /\ active' = active \ Complete(time)
  /\ hands' = [hands EXCEPT !["capture"] = Complete(time)]
  /\ UNCHANGED <<time, making, queue, stop, dropped, writerVars>>

-----------------------------------------------------------------------------
(* enqueue_event, by the inference thread or a request *)

\* Mutant: only the frames before the event are taken from the ring.
SelectBefore(t) == {f \in Ring : -Pre <= f - t /\ f <= t}

\* _select_clip_frames
SelectClipFrames(t) == {f \in Ring : -Pre <= f - t /\ f - t <= Post}

\* An event of time t; the ring buffer is copied.
Detected(d, e, t) ==
  /\ making[d] = None /\ hands[d] = {}
  /\ clip[e].at = 0
  /\ making' = [making EXCEPT ![d] = e]
  /\ clip' = [clip EXCEPT ![e] =
       [at |-> t, frames |-> SelectClipFrames(t), seen |-> time, since |-> 0, until |-> 0]]
  /\ UNCHANGED <<time, passed, active, hands, queue, stop, dropped, writerVars>>

\* The inference thread's event has the time of a frame it analysed, which was
\* read some time ago; a manual event has the present time.
AutoEvent(e) == \E t \in 1 .. time : Detected("inference", e, t)
ManualEvent(e) == time > 0 /\ Detected("request", e, time)

Ended(clips, es) == [e \in Events |-> IF e \in es THEN [clips[e] EXCEPT !.until = passed] ELSE clips[e]]

\* The clip becomes active; if the ring held its whole window it is complete.
Activate(d) ==
  LET e == making[d]
      now == active \cup {e}
      over == {f \in now : clip[e].seen - clip[f].at >= Post}
  IN
  /\ e # None
  /\ making' = [making EXCEPT ![d] = None]
  /\ IF e \in over
       THEN /\ active' = now \ over
            /\ hands' = [hands EXCEPT ![d] = over]
            /\ clip' = Ended([clip EXCEPT ![e].since = passed], over)
       ELSE /\ active' = now
            /\ clip' = [clip EXCEPT ![e].since = passed]
            /\ UNCHANGED hands
  /\ UNCHANGED <<time, passed, queue, stop, dropped, writerVars>>

-----------------------------------------------------------------------------
(* The write queue and the writer *)

\* Mutant: a full queue drops the event and nothing tells of it.
PutSilently(t, e) ==
  /\ e \in hands[t]
  /\ hands' = [hands EXCEPT ![t] = @ \ {e}]
  /\ queue' = IF Len(queue) < ClipQueue THEN Append(queue, e) ELSE queue
  /\ UNCHANGED <<time, passed, clip, active, making, stop, dropped, writerVars>>

\* _enqueue_write_job: a full queue drops the clip and its event.
Put(t, e) ==
  /\ e \in hands[t]
  /\ hands' = [hands EXCEPT ![t] = @ \ {e}]
  /\ IF Len(queue) < ClipQueue
       THEN queue' = Append(queue, e) /\ UNCHANGED dropped
       ELSE dropped' = dropped \cup {e} /\ UNCHANGED queue
  /\ UNCHANGED <<time, passed, clip, active, making, stop, writerVars>>

\* The loop's condition: not stopped, or something left.
TestLoop ==
  /\ writer = "test"
  /\ writer' = IF stop # "no" /\ queue = <<>> THEN "done" ELSE "get"
  /\ UNCHANGED <<time, passed, clip, active, making, hands, queue, stop, dropped, job, sent>>

\* get() returns a job, or Empty.
GetJob ==
  /\ writer = "get"
  /\ IF queue = <<>>
       THEN writer' = "test" /\ UNCHANGED <<queue, job>>
       ELSE writer' = "write" /\ job' = Head(queue) /\ queue' = Tail(queue)
  /\ UNCHANGED <<time, passed, clip, active, making, hands, stop, dropped, sent>>

\* The clip is written and the event sent with it; a clip without frames, and any
\* error on the way, sends the event without it.
WriteClip ==
  /\ writer \in {"write", "resend"}
  /\ \/ /\ writer = "resend" \/ clip[job].frames # {}
        /\ sent' = sent \cup {job}
        /\ job' = None
        /\ writer' = "test"
     \/ /\ writer = "write"
        /\ writer' = "resend"
        /\ UNCHANGED <<sent, job>>
  /\ UNCHANGED <<time, passed, clip, active, making, hands, queue, stop, dropped>>

\* stop(): the flag first, then the active clips are handed over.
StopClips ==
  /\ stop = "no"
  /\ stop' = "asked"
  /\ UNCHANGED <<time, passed, clip, active, making, hands, queue, dropped, writerVars>>

FinalizeAll ==
  /\ stop = "asked"
  /\ stop' = "done"
  /\ hands' = [hands EXCEPT !["stopper"] = active]
  /\ clip' = Ended(clip, active)
  /\ active' = {}
  /\ UNCHANGED <<time, passed, making, queue, dropped, writerVars>>

-----------------------------------------------------------------------------
Capture == AppendFrame \/ OnFrame
Writer == TestLoop \/ GetJob \/ WriteClip
HandOver(t) == \E e \in Events : Put(t, e)

ClipNext ==
  \/ Capture \/ Writer
  \/ \E e \in Events : AutoEvent(e) \/ ManualEvent(e)
  \/ \E d \in Detectors : Activate(d)
  \/ \E t \in Threads : HandOver(t)
  \/ StopClips \/ FinalizeAll

\* The threads run: the source gives frames until the camera is stopped (its
\* capture thread ends first), ffmpeg and the relay return, stop() goes on.
ClipFairness ==
  /\ WF_clipVars(stop = "no" /\ Capture)
  /\ WF_clipVars(Writer)
  /\ WF_clipVars(FinalizeAll)
  /\ \A d \in Detectors : WF_clipVars(Activate(d))
  /\ \A t \in Threads : WF_clipVars(HandOver(t))

ClipSpec == ClipInit /\ [][ClipNext]_clipVars /\ ClipFairness

-----------------------------------------------------------------------------
ClipTypeOK ==
  /\ time \in 0 .. MaxTime /\ passed \in 0 .. MaxTime
  /\ clip \in [Events -> [at : 0 .. MaxTime, frames : SUBSET Frames, seen : 0 .. MaxTime,
                          since : 0 .. MaxTime, until : 0 .. MaxTime]]
  /\ active \subseteq Events
  /\ making \in [Detectors -> Events \cup {None}]
  /\ hands \in [Threads -> SUBSET Events]
  /\ queue \in Seq(Events) /\ Len(queue) <= ClipQueue
  /\ writer \in {"test", "get", "write", "resend", "done"}
  /\ job \in Events \cup {None}
  /\ stop \in {"no", "asked", "done"}
  /\ sent \subseteq Events /\ dropped \subseteq Events

\* The events whose clip has left the list.
HandedOver == {e \in Events : clip[e].at > 0} \ (active \cup {making[d] : d \in Detectors})

\* A clip that is handed over has every frame of its window that the ring still
\* held or that came later, but for those that passed while its thread was
\* between the copy of the ring and the list (enqueue_event, lines 118 to 134).
\* Without a stop() it lacks at most the last frame of its window at its end.
ClipKeepsItsWindow ==
  \A e \in HandedOver :
    LET c == clip[e] IN
    /\ \A f \in Frames :
         /\ c.at - Pre <= f /\ f <= c.at + Post
         /\ c.seen - RingSize < f /\ f <= c.until
         => f \in c.frames \/ (c.seen < f /\ f <= c.since)
    /\ stop = "no" => c.until >= c.at + Post - 1

Queued(e) == \E i \in 1 .. Len(queue) : queue[i] = e

\* The frames ended before the window of the event, or before its clip was active.
CutShort(e) == passed = MaxTime /\ (clip[e].at + Post > MaxTime \/ clip[e].since = MaxTime)

\* The clip became active after stop() had handed the others over, or came into the
\* queue after the writer had found it empty and ended.
CameAfterStop(e) ==
  \/ stop = "done" /\ e \in active
  \/ writer = "done" /\ Queued(e)

\* Every event that reaches the write queue while the writer runs is sent, stop()
\* or not.  Every event that is made is in the end sent, or its loss counted by
\* failed_clips, unless the frames ended too early for its clip or stop() overtook
\* it: frames that come after its window complete it, and no hand-over loses it.
EventsLeave ==
  \A e \in Events :
    /\ Queued(e) /\ writer # "done" ~> e \in sent
    /\ clip[e].at > 0 ~> e \in sent \cup dropped \/ CutShort(e) \/ CameAfterStop(e)
=============================================================================

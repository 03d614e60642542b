---------------------------- MODULE Events_proofs ----------------------------
(*****************************************************************************)
(* Events, from the clip of a detection to the history of its incident, for any *)
(* events, codes, threads, operators and bounds, and whatever is lost,       *)
(* repeated, given up or restarted.                                          *)
(*                                                                           *)
(* A clip's invariant says which frames of its window it has: those the ring *)
(* still held when it was copied, and those that passed since it is active.  *)
(*                                                                           *)
(* The relay's says what each request may rely on although it read long ago. *)
(* Rows are only added, so what it found is still there; what it did not find *)
(* is caught by a unique key when it commits.  Hence one request at most tells *)
(* of an incident, the one that made it.                                     *)
(*                                                                           *)
(* A track's, in a report's video, says where the stop it is in began: at the *)
(* first sighting since the vehicle moved last.                              *)
(*                                                                           *)
(* The incident's says that what an update has loaded is still so unless another *)
(* one has committed since.                                                  *)
(*****************************************************************************)
EXTENDS EventClips, EventRelay, IncidentStatus, StopAnalyzer, SequenceTheorems, TLAPS

-----------------------------------------------------------------------------
(* Clips and the ring buffer *)

ClipRecord == [at : 0 .. MaxTime, frames : SUBSET Frames, seen : 0 .. MaxTime,
               since : 0 .. MaxTime, until : 0 .. MaxTime]

Window(c) == {f \in Frames : c.at - Pre <= f /\ f <= c.at + Post}

\* The clip has what the ring held of its window when it was copied, and what passed
\* after it became active.
FromRing(c) == \A f \in Window(c) : c.seen - RingSize < f /\ f <= c.seen => f \in c.frames
FromThere(c, end) == \A f \in Window(c) : c.since < f /\ f <= end => f \in c.frames

ClipsTyped ==
  /\ time \in 0 .. MaxTime /\ passed \in 0 .. MaxTime
  /\ time = passed \/ time = passed + 1
  /\ clip \in [Events -> ClipRecord]
  /\ active \subseteq Events
  /\ making \in [Detectors -> Events \cup {None}]

\* An event is new, in the making by one thread, active, or handed over.
OnePlace ==
  /\ \A e \in Events : clip[e].at = 0 => e \notin active /\ \A d \in Detectors : making[d] # e
  /\ \A d \in Detectors : making[d] \notin active
  /\ \A d, b \in Detectors : making[d] # None /\ making[d] = making[b] => d = b

ClipOk(e) ==
  /\ clip[e].at > 0 => clip[e].at <= clip[e].seen /\ clip[e].seen <= time /\ FromRing(clip[e])
  /\ e \in active => FromThere(clip[e], passed)
  /\ e \in HandedOver => FromThere(clip[e], clip[e].until) /\ (stop = "no" => clip[e].until >= clip[e].at + Post - 1)

ClipInv == ClipsTyped /\ OnePlace /\ \A e \in Events : ClipOk(e)

LEMMA ClipInitInv == ClipInit => ClipInv
<1>. SUFFICES ASSUME ClipInit PROVE ClipInv
  OBVIOUS
<1>1. NewClip \in ClipRecord /\ NewClip.at = 0
  BY ClipAssumption DEF NewClip, ClipRecord, Frames
<1>2. \A e \in Events : clip[e].at = 0 /\ clip[e] \in ClipRecord
  BY <1>1 DEF ClipInit
<1>3. clip \in [Events -> ClipRecord]
  BY <1>1, Zenon DEF ClipInit
<1>4. ClipsTyped
  BY <1>3, ClipAssumption DEF ClipInit, ClipsTyped
<1>5. OnePlace
  BY ClipAssumption DEF ClipInit, OnePlace
<1>6. \A e \in Events : ClipOk(e)
  BY <1>2 DEF ClipInit, ClipOk, HandedOver
<1>. QED
  BY <1>4, <1>5, <1>6 DEF ClipInv

\* The writer, its queue and the stop event touch no clip.
LEMMA QuietClips ==
  ASSUME ClipInv, UNCHANGED <<time, passed, clip, active, making>>, stop' = "no" => stop = "no"
  PROVE  ClipInv'
<1>1. ClipsTyped' /\ OnePlace'
  BY DEF ClipInv, ClipsTyped, OnePlace
<1>2. HandedOver' = HandedOver
  BY DEF HandedOver
<1>3. \A e \in Events : ClipOk(e)'
  BY <1>2 DEF ClipInv, ClipOk
<1>. QED
  BY <1>1, <1>3 DEF ClipInv

LEMMA AppendStep == ASSUME ClipInv, AppendFrame PROVE ClipInv'
<1>1. time' = time + 1 /\ passed = time /\ time < MaxTime /\ UNCHANGED <<passed, clip, active, making, stop>>
  BY DEF AppendFrame
<1>2. ClipsTyped' /\ OnePlace'
  BY <1>1, ClipAssumption DEF ClipInv, ClipsTyped, OnePlace
<1>3. HandedOver' = HandedOver
  BY <1>1 DEF HandedOver
<1>4. \A e \in Events : clip[e].seen \in Nat /\ time \in Nat
  BY ClipAssumption DEF ClipInv, ClipsTyped, ClipRecord
<1>5. \A e \in Events : ClipOk(e)'
  BY <1>1, <1>3, <1>4 DEF ClipInv, ClipOk
<1>. QED
  BY <1>2, <1>5 DEF ClipInv

LEMMA ClipFields ==
  ASSUME ClipInv, NEW e \in Events
  PROVE  /\ clip[e].at \in 0 .. MaxTime /\ clip[e].seen \in 0 .. MaxTime
         /\ clip[e].since \in 0 .. MaxTime /\ clip[e].until \in 0 .. MaxTime
         /\ clip[e].frames \subseteq Frames
         /\ clip[e].at \in Int /\ clip[e].seen \in Int /\ clip[e].since \in Int /\ clip[e].until \in Int
         /\ Post \in Nat /\ Pre \in Nat /\ RingSize \in Nat /\ MaxTime \in Nat /\ time \in Int /\ passed \in Int
         /\ e # None
  BY ClipAssumption DEF ClipInv, ClipsTyped, ClipRecord

LEMMA OnFrameStep == ASSUME ClipInv, OnFrame PROVE ClipInv'
<1>. DEFINE Grown(e) == [clip[e] EXCEPT !.frames = @ \cup ({time} \cap clip[e].at .. clip[e].at + Post),
                                        !.until = IF e \in Complete(time) THEN time ELSE 0]
<1>1. /\ passed < time /\ passed' = time /\ active' = active \ Complete(time)
      /\ clip' = [e \in Events |-> IF e \in active THEN Grown(e) ELSE clip[e]]
      /\ UNCHANGED <<time, making, stop>>
  BY DEF OnFrame
<1>2. ClipsTyped /\ time = passed + 1 /\ time \in Frames /\ MaxTime \in Nat
  <2>1. passed < time
    BY <1>1
  <2>2. ClipsTyped
    BY DEF ClipInv
  <2>3. time \in 0 .. MaxTime /\ passed \in 0 .. MaxTime /\ (time = passed \/ time = passed + 1)
    BY <2>2 DEF ClipsTyped
  <2>. QED
    BY <2>1, <2>2, <2>3, ClipAssumption DEF Frames
<1>3. ASSUME NEW e \in Events, e \in active
      PROVE  /\ clip'[e].at = clip[e].at /\ clip'[e].seen = clip[e].seen /\ clip'[e].since = clip[e].since
             /\ clip'[e].frames = clip[e].frames \cup ({time} \cap clip[e].at .. clip[e].at + Post)
             /\ clip'[e].until = IF e \in Complete(time) THEN time ELSE 0
             /\ clip'[e] \in ClipRecord
  <2>1. clip'[e] = Grown(e) /\ clip[e] \in ClipRecord
    BY <1>1, <1>2, <1>3 DEF ClipsTyped
  <2>2. clip[e].frames \cup ({time} \cap clip[e].at .. clip[e].at + Post) \in SUBSET Frames
    BY <1>2, <2>1 DEF ClipRecord
  <2>3. (IF e \in Complete(time) THEN time ELSE 0) \in 0 .. MaxTime
    BY <1>2 DEF ClipsTyped
  <2>. QED
    BY <2>1, <2>2, <2>3 DEF ClipRecord
<1>4. \A e \in Events : e \notin active => clip'[e] = clip[e]
  BY <1>1
<1>5. ClipsTyped'
  <2>1. \A e \in Events : clip'[e] \in ClipRecord
    BY <1>2, <1>3, <1>4 DEF ClipsTyped
  <2>2. clip' \in [Events -> ClipRecord]
    BY <1>1, <2>1
  <2>. QED
    BY <1>1, <1>2, <2>2 DEF ClipsTyped
<1>6. OnePlace'
  BY <1>1, <1>3, <1>4 DEF ClipInv, OnePlace
<1>7. ASSUME NEW e \in Events PROVE ClipOk(e)'
  <2>. DEFINE c == clip[e]
              b == clip'[e]
  <2>1. ClipOk(e)
    BY DEF ClipInv
  <2>2. CASE e \in active
    <3>1. c.at > 0 /\ c.at <= c.seen /\ c.seen <= time /\ FromRing(c) /\ FromThere(c, passed)
      BY <2>1, <2>2, ClipFields DEF ClipOk, ClipInv, OnePlace
    <3>2. b.at = c.at /\ b.seen = c.seen /\ b.since = c.since
          /\ b.frames = c.frames \cup ({time} \cap c.at .. c.at + Post)
          /\ b.until = IF e \in Complete(time) THEN time ELSE 0
      BY <1>3, <2>2
    <3>3. FromRing(b)
      BY <3>1, <3>2 DEF FromRing, Window
    <3>4. FromThere(b, time)
      BY <1>2, <3>1, <3>2, ClipFields DEF FromThere, Window, Frames
    <3>5. e \in HandedOver' => e \in Complete(time)
      BY <1>1, <2>2 DEF HandedOver
    <3>6. e \in Complete(time) => b.until = time /\ time - c.at >= Post
      BY <3>2 DEF Complete
    <3>7. e \in HandedOver' => FromThere(b, b.until) /\ b.until >= b.at + Post - 1
      BY <3>2, <3>4, <3>5, <3>6, ClipFields
    <3>. QED
      BY <1>1, <3>1, <3>2, <3>3, <3>4, <3>7 DEF ClipOk
  <2>3. CASE e \notin active
    <3>1. b = c /\ e \notin active' /\ (e \in HandedOver' <=> e \in HandedOver)
      BY <1>1, <1>4, <2>3 DEF HandedOver
    <3>. QED
      BY <1>1, <2>1, <3>1 DEF ClipOk
  <2>. QED
    BY <2>2, <2>3
<1>. QED
  BY <1>5, <1>6, <1>7 DEF ClipInv

LEMMA DetectedStep ==
  ASSUME ClipInv, NEW d \in Detectors, NEW e \in Events, NEW t \in 1 .. time, Detected(d, e, t)
  PROVE  ClipInv'
<1>. DEFINE fresh == [at |-> t, frames |-> SelectClipFrames(t), seen |-> time, since |-> 0, until |-> 0]
<1>1. /\ making[d] = None /\ clip[e].at = 0 /\ making' = [making EXCEPT ![d] = e]
      /\ clip' = [clip EXCEPT ![e] = fresh] /\ UNCHANGED <<time, passed, active, stop>>
  BY DEF Detected
<1>2. ClipsTyped /\ OnePlace /\ MaxTime \in Nat /\ t \in 0 .. MaxTime /\ time \in 0 .. MaxTime
  BY ClipAssumption DEF ClipInv, ClipsTyped
<1>3. SelectClipFrames(t) \subseteq Frames /\ SelectClipFrames(t) \subseteq 1 .. time
  BY <1>2 DEF SelectClipFrames, Ring, Frames
<1>4. fresh \in ClipRecord
  BY <1>2, <1>3 DEF ClipRecord
<1>5. clip'[e] = fresh /\ clip' \in [Events -> ClipRecord] /\ \A g \in Events : g # e => clip'[g] = clip[g]
  BY <1>1, <1>2, <1>4 DEF ClipsTyped
<1>6. /\ making' \in [Detectors -> Events \cup {None}] /\ making'[d] = e
      /\ \A b \in Detectors : b # d => making'[b] = making[b]
  BY <1>1, <1>2 DEF ClipsTyped
<1>7. ClipsTyped'
  BY <1>1, <1>2, <1>5, <1>6 DEF ClipsTyped
<1>8. e \notin active /\ \A b \in Detectors : making[b] # e
  BY <1>1, <1>2 DEF OnePlace
<1>9. OnePlace'
  <2>1. clip'[e].at > 0
    BY <1>2, <1>5
  <2>2. \A g \in Events : clip'[g].at = 0 => g \notin active /\ \A b \in Detectors : making'[b] # g
    BY <1>2, <1>5, <1>6, <2>1 DEF OnePlace
  <2>3. \A b \in Detectors : making'[b] \notin active
    BY <1>2, <1>6, <1>8 DEF OnePlace
  <2>4. \A a, b \in Detectors : making'[a] # None /\ making'[a] = making'[b] => a = b
    BY <1>2, <1>6, <1>8 DEF OnePlace
  <2>. QED
    BY <1>1, <2>2, <2>3, <2>4 DEF OnePlace
<1>10. ASSUME NEW g \in Events PROVE ClipOk(g)'
  <2>1. CASE g = e
    <3>1. e \notin active' /\ e \notin HandedOver'
      BY <1>1, <1>6, <1>8 DEF HandedOver
    <3>2. FromRing(fresh)
      <4>1. ASSUME NEW f \in Frames, t - Pre <= f, f <= t + Post, time - RingSize < f, f <= time
            PROVE  f \in SelectClipFrames(t)
        <5>1. f \in 1 .. time /\ t \in Int /\ Pre \in Int /\ Post \in Int
          BY <1>2, <4>1, ClipAssumption DEF Frames
        <5>2. -Pre <= f - t /\ f - t <= Post
          BY <4>1, <5>1
        <5>. QED
          BY <4>1, <5>1, <5>2 DEF SelectClipFrames, Ring
      <4>. QED
        BY <4>1 DEF FromRing, Window
    <3>3. t <= time
      BY <1>2
    <3>4. clip'[g] = fresh /\ time' = time
      BY <1>1, <1>5, <2>1
    <3>5. fresh.at <= fresh.seen /\ fresh.seen <= time
      <4>1. fresh.at = t /\ fresh.seen = time
        OBVIOUS
      <4>2. t <= time /\ time <= time
        BY <1>2
      <4>. QED
        BY <4>1, <4>2
    <3>6. clip'[g].at <= clip'[g].seen /\ clip'[g].seen <= time' /\ FromRing(clip'[g])
      BY <3>2, <3>4, <3>5
    <3>. HIDE DEF fresh
    <3>. QED
      BY <2>1, <3>1, <3>6 DEF ClipOk
  <2>2. CASE g # e
    <3>1. clip'[g] = clip[g] /\ (g \in HandedOver' => g \in HandedOver)
      BY <1>1, <1>5, <1>6, <2>2, ClipFields DEF HandedOver
    <3>. QED
      BY <1>1, <3>1 DEF ClipInv, ClipOk
  <2>. QED
    BY <2>1, <2>2
<1>. QED
  BY <1>7, <1>9, <1>10 DEF ClipInv

\* A clip that leaves the list ends where on_frame had come.
LEMMA EndedClips ==
  ASSUME NEW clips \in [Events -> ClipRecord], NEW es, passed \in 0 .. MaxTime, NEW e \in Events
  PROVE  /\ Ended(clips, es) \in [Events -> ClipRecord]
         /\ Ended(clips, es)[e].at = clips[e].at /\ Ended(clips, es)[e].seen = clips[e].seen
         /\ Ended(clips, es)[e].since = clips[e].since /\ Ended(clips, es)[e].frames = clips[e].frames
         /\ Ended(clips, es)[e].until = IF e \in es THEN passed ELSE clips[e].until
  BY DEF Ended, ClipRecord

LEMMA FinalizeStep == ASSUME ClipInv, FinalizeAll PROVE ClipInv'
<1>1. /\ stop' = "done" /\ clip' = Ended(clip, active) /\ active' = {} /\ UNCHANGED <<time, passed, making>>
  BY DEF FinalizeAll
<1>2. clip \in [Events -> ClipRecord] /\ passed \in 0 .. MaxTime
  BY DEF ClipInv, ClipsTyped
<1>3. ASSUME NEW e \in Events
      PROVE  /\ clip'[e].at = clip[e].at /\ clip'[e].seen = clip[e].seen /\ clip'[e].since = clip[e].since
             /\ clip'[e].frames = clip[e].frames /\ clip'[e].until = IF e \in active THEN passed ELSE clip[e].until
  BY <1>1, <1>2, EndedClips
<1>4. ClipsTyped'
  BY <1>1, <1>2, EndedClips DEF ClipInv, ClipsTyped, Ended
<1>5. OnePlace'
  BY <1>1, <1>3 DEF ClipInv, OnePlace
<1>6. ASSUME NEW e \in Events PROVE ClipOk(e)'
  <2>1. ClipOk(e)
    BY DEF ClipInv
  <2>2. clip'[e].at > 0 => clip'[e].at <= clip'[e].seen /\ clip'[e].seen <= time' /\ FromRing(clip'[e])
    BY <1>1, <1>3, <2>1 DEF ClipOk, FromRing, Window
  <2>3. e \in HandedOver' => FromThere(clip'[e], clip'[e].until)
    <3>1. CASE e \in active
      BY <1>3, <2>1, <3>1 DEF ClipOk, FromThere, Window
    <3>2. CASE e \notin active
      <4>1. e \in HandedOver' => e \in HandedOver
        BY <1>1, <1>3, <3>2 DEF HandedOver
      <4>. QED
        BY <1>3, <2>1, <3>2, <4>1 DEF ClipOk, FromThere, Window
    <3>. QED
      BY <3>1, <3>2
  <2>. QED
    BY <1>1, <2>2, <2>3 DEF ClipOk
<1>. QED
  BY <1>4, <1>5, <1>6 DEF ClipInv

LEMMA ActivateStep == ASSUME ClipInv, NEW d \in Detectors, Activate(d) PROVE ClipInv'
<1>. DEFINE e == making[d]
            now == active \cup {e}
            begun == [clip EXCEPT ![e].since = passed]
<1>1. e # None /\ making' = [making EXCEPT ![d] = None] /\ UNCHANGED <<time, passed, stop>>
  BY DEF Activate
<1>2. ClipsTyped /\ OnePlace /\ e \in Events /\ e \notin active
  BY <1>1 DEF ClipInv, ClipsTyped, OnePlace
<1>4. /\ begun \in [Events -> ClipRecord]
      /\ begun[e].at = clip[e].at /\ begun[e].seen = clip[e].seen /\ begun[e].since = passed
      /\ begun[e].frames = clip[e].frames
      /\ \A g \in Events : g # e => begun[g] = clip[g]
  BY <1>2 DEF ClipsTyped, ClipRecord
\* Those that are complete leave the list: none, if the new one is not among them.
<1>3. PICK es \in SUBSET now :
        /\ active' = now \ es /\ clip' = Ended(begun, es)
        /\ \A g \in es : clip[e].seen - clip[g].at >= Post
  <2>. DEFINE over == {f \in now : clip[e].seen - clip[f].at >= Post}
  <2>1. CASE e \in over
    <3>1. active' = now \ over /\ clip' = Ended(begun, over)
      BY <2>1 DEF Activate
    <3>. QED
      BY SMTT(30), <3>1
  <2>2. CASE e \notin over
    <3>1. active' = now /\ clip' = begun
      BY <2>2 DEF Activate
    <3>2. Ended(begun, {}) = begun
      BY <1>4 DEF Ended
    <3>. QED
      BY <3>1, <3>2
  <2>. QED
    BY <2>1, <2>2
<1>. HIDE DEF begun
<1>5. ASSUME NEW g \in Events
      PROVE  /\ clip'[g].at = clip[g].at /\ clip'[g].seen = clip[g].seen
             /\ clip'[g].since = IF g = e THEN passed ELSE clip[g].since
             /\ clip'[g].frames = clip[g].frames
             /\ g \in es => clip'[g].until = passed
             /\ g \notin now => clip'[g].until = clip[g].until
  <2>1. passed \in 0 .. MaxTime
    BY <1>2 DEF ClipsTyped
  <2>2. /\ clip'[g].at = begun[g].at /\ clip'[g].seen = begun[g].seen
        /\ clip'[g].since = begun[g].since /\ clip'[g].frames = begun[g].frames
        /\ clip'[g].until = IF g \in es THEN passed ELSE begun[g].until
    BY <1>3, <1>4, <2>1, EndedClips
  <2>3. begun[g].at = clip[g].at /\ begun[g].seen = clip[g].seen /\ begun[g].frames = clip[g].frames
        /\ begun[g].since = (IF g = e THEN passed ELSE clip[g].since)
    BY <1>4
  <2>4. g \notin now => g \notin es /\ begun[g].until = clip[g].until
    BY <1>3, <1>4
  <2>. QED
    BY <2>2, <2>3, <2>4
<1>6. clip' \in [Events -> ClipRecord]
  <2>1. passed \in 0 .. MaxTime
    BY <1>2 DEF ClipsTyped
  <2>. QED
    BY <1>2, <1>3, <1>4, <2>1, EndedClips
<1>7. /\ making' \in [Detectors -> Events \cup {None}] /\ making'[d] = None
      /\ \A b \in Detectors : b # d => making'[b] = making[b] /\ making[b] # e
  BY <1>1, <1>2 DEF ClipsTyped, OnePlace
<1>8. ClipsTyped'
  BY <1>1, <1>2, <1>3, <1>6, <1>7 DEF ClipsTyped
<1>9. clip[e].at # 0
  BY <1>2 DEF OnePlace
<1>10. OnePlace'
  <2>1. \A g \in Events : clip'[g].at = 0 => g \notin active' /\ \A b \in Detectors : making'[b] # g
    BY <1>2, <1>3, <1>5, <1>7, <1>9, ClipFields DEF OnePlace
  <2>2. \A b \in Detectors : making'[b] \notin active'
    BY <1>2, <1>3, <1>7, ClipAssumption DEF OnePlace, ClipsTyped
  <2>. QED
    BY <1>2, <1>7, <2>1, <2>2 DEF OnePlace
<1>11. ASSUME NEW g \in Events PROVE ClipOk(g)'
  <2>1. ClipOk(g) /\ ClipOk(e)
    BY <1>2 DEF ClipInv
  <2>2. clip'[g].at > 0 => clip'[g].at <= clip'[g].seen /\ clip'[g].seen <= time' /\ FromRing(clip'[g])
    BY <1>1, <1>5, <2>1 DEF ClipOk, FromRing, Window
  <2>3. g \in now => FromThere(clip'[g], passed)
    <3>1. CASE g = e
      BY <1>5, <3>1, ClipFields DEF FromThere, Window, Frames
    <3>2. CASE g # e
      BY <1>5, <2>1, <3>2 DEF ClipOk, FromThere, Window
    <3>. QED
      BY <3>1, <3>2
  <2>4. g \in HandedOver' /\ g \notin es => g \in HandedOver /\ g \notin now
    BY <1>3, <1>5, <1>7 DEF HandedOver
  <2>5. g \in es => clip'[g].until = passed /\ passed >= clip[g].at + Post - 1
    <3>1. ASSUME g \in es PROVE clip[e].seen - clip[g].at >= Post
      BY <1>3, <3>1
    <3>2. clip[e].seen <= time /\ time <= passed + 1
      BY <1>2, <1>9, <2>1, ClipFields DEF ClipOk, ClipsTyped
    <3>3. clip[e].seen \in Int
      BY <1>2, ClipFields
    <3>. QED
      BY <1>5, <3>1, <3>2, <3>3, ClipFields
  <2>6. g \in HandedOver' => FromThere(clip'[g], clip'[g].until)
                            /\ (stop' = "no" => clip'[g].until >= clip'[g].at + Post - 1)
    <3>1. CASE g \in es
      BY <1>5, <2>3, <2>5, <3>1
    <3>2. CASE g \notin es
      <4>1. SUFFICES ASSUME g \in HandedOver' PROVE FromThere(clip'[g], clip'[g].until)
                            /\ (stop' = "no" => clip'[g].until >= clip'[g].at + Post - 1)
        OBVIOUS
      <4>2. g \in HandedOver /\ g # e /\ g \notin now
        BY <2>4, <3>2, <4>1
      <4>. QED
        BY <1>1, <1>5, <2>1, <4>2 DEF ClipOk, FromThere, Window
    <3>. QED
      BY <3>1, <3>2
  <2>. QED
    BY <1>1, <1>3, <2>2, <2>3, <2>6 DEF ClipOk
<1>. QED
  BY <1>8, <1>10, <1>11 DEF ClipInv

\* For any events, ring, window and queue: a clip that is handed over has all its window
\* but for what the ring had lost and what passed before it became active.
THEOREM ClipSafety == ClipSpec => []ClipKeepsItsWindow
<1>1. ClipInv /\ [ClipNext]_clipVars => ClipInv'
  <2>. SUFFICES ASSUME ClipInv, [ClipNext]_clipVars PROVE ClipInv'
    OBVIOUS
  <2>1. CASE UNCHANGED clipVars
    BY <2>1, QuietClips DEF clipVars
  <2>2. CASE Capture
    BY <2>2, AppendStep, OnFrameStep DEF Capture
  <2>3. CASE Writer
    BY <2>3, QuietClips DEF Writer, TestLoop, GetJob, WriteClip
  <2>4. ASSUME NEW e \in Events, AutoEvent(e) \/ ManualEvent(e) PROVE ClipInv'
    BY <2>4, DetectedStep, ClipFields DEF AutoEvent, ManualEvent, Detectors
  <2>5. ASSUME NEW d \in Detectors, Activate(d) PROVE ClipInv'
    BY <2>5, ActivateStep
  <2>6. ASSUME NEW t \in Threads, HandOver(t) PROVE ClipInv'
    BY <2>6, QuietClips DEF HandOver, Put
  <2>7. CASE StopClips
    BY <2>7, QuietClips DEF StopClips
  <2>8. CASE FinalizeAll
    BY <2>8, FinalizeStep
  <2>. QED
    BY <2>1, <2>2, <2>3, <2>4, <2>5, <2>6, <2>7, <2>8 DEF ClipNext
<1>2. ClipInv => ClipKeepsItsWindow
  <2>. SUFFICES ASSUME ClipInv, NEW e \in HandedOver
                PROVE  /\ \A f \in Frames :
                            /\ clip[e].at - Pre <= f /\ f <= clip[e].at + Post
                            /\ clip[e].seen - RingSize < f /\ f <= clip[e].until
                            => f \in clip[e].frames \/ (clip[e].seen < f /\ f <= clip[e].since)
                       /\ stop = "no" => clip[e].until >= clip[e].at + Post - 1
    BY DEF ClipKeepsItsWindow
  <2>1. e \in Events /\ clip[e].at > 0 /\ ClipOk(e)
    BY DEF ClipInv, HandedOver
  <2>. QED
    BY <2>1, ClipFields DEF ClipOk, FromRing, FromThere, Window, Frames
<1>. QED
  BY ClipInitInv, <1>1, <1>2, PTL DEF ClipSpec

-----------------------------------------------------------------------------
(* The relay, its incidents and announcements *)

Tells(r) == web[r].at \in {"emit", "mark"}
CodeAt(r) == Code[web[r].event]

\* The rows of recent incidents, beside the events that are stored.
RowsOf(rows, events) ==
  /\ rows \in Seq(AllEvents \cup {Other})
  /\ \A e \in AllEvents : (\E k \in 1 .. Len(rows) : rows[k] = e) <=> e \in events
  /\ \A k \in 1 .. Len(rows) :
       rows[k] # Other /\ (\E j \in 1 .. k - 1 : rows[j] = rows[k]) => k > SearchLimit + 1

\* The rows agree with one another and with what browsers heard.
RowsAgree ==
  /\ \A i \in Codes : i \notin incidents <=> notice[i] = "none"
  /\ \A i \in Codes :
       /\ notice[i] = "SENT" => heard[i] = 1
       /\ notice[i] \in {"FAILED", "none"} => heard[i] = 0
  /\ RowsOf(recent, aiEvents)

\* What a request found in its snapshot is still there, what it missed it missed
\* for the limit, and its client's event is stored once it has committed.
FoundIsThere ==
  \A r \in WebThreads :
    /\ web[r].at = "commit" =>
         /\ web[r].sawEvent => web[r].event \in aiEvents
         /\ web[r].sawRow => web[r].event \in aiEvents
         /\ web[r].kind = "relay" /\ web[r].sawEvent /\ ~web[r].sawRow => Len(recent) > SearchLimit
         /\ web[r].sawIncident => CodeAt(r) \in incidents
    /\ web[r].at \in {"read", "commit"} /\ web[r].client => web[r].kind = "relay"
    /\ web[r].at \in {"emit", "mark", "answer"} /\ web[r].client => web[r].event \in aiEvents

\* An incident is told of by the request that made it alone, and has not been
\* told of before.
OneTells ==
  /\ \A r \in WebThreads :
       Tells(r) =>
         /\ CodeAt(r) \in incidents
         /\ notice[CodeAt(r)] = "PENDING"
         /\ heard[CodeAt(r)] = IF web[r].at = "mark" /\ web[r].works THEN 1 ELSE 0
  /\ \A r, s \in WebThreads : Tells(r) /\ Tells(s) /\ CodeAt(r) = CodeAt(s) => r = s

RelayInv == RelayTypeOK /\ RowsAgree /\ FoundIsThere /\ OneTells

LEMMA RelayInitInv == RelayInit => RelayInv
<1>1. RelayInit => RowsOf(recent, aiEvents)
  BY DEF RelayInit, RowsOf
<1>. QED
  BY RelayAssumption, <1>1
  DEF RelayInit, RelayInv, RelayTypeOK, RowsAgree, FoundIsThere, OneTells, Tells, Idle, Requests

\* A row of an event: it is new, or the rows are more than the search looks through.
LEMMA EventRow ==
  ASSUME NEW rows, NEW events, NEW e \in AllEvents, RowsOf(rows, events),
         e \in events => Len(rows) > SearchLimit
  PROVE  RowsOf(Append(rows, e), events \cup {e})
<1>. DEFINE new == Append(rows, e)
<1>1. rows \in Seq(AllEvents \cup {Other}) /\ Len(rows) \in Nat /\ SearchLimit \in Nat
  BY RelayAssumption DEF RowsOf
<1>2. /\ new \in Seq(AllEvents \cup {Other}) /\ Len(new) = Len(rows) + 1
      /\ new[Len(rows) + 1] = e /\ \A k \in 1 .. Len(rows) : new[k] = rows[k]
  BY <1>1
<1>. HIDE DEF new
<1>3. ASSUME NEW f \in AllEvents
      PROVE  (\E k \in 1 .. Len(new) : new[k] = f) <=> f \in events \cup {e}
  <2>1. (\E k \in 1 .. Len(rows) : rows[k] = f) <=> f \in events
    BY DEF RowsOf
  <2>. QED
    BY <1>1, <1>2, <2>1
<1>4. ASSUME NEW k \in 1 .. Len(new), new[k] # Other, NEW j \in 1 .. k - 1, new[j] = new[k]
      PROVE  k > SearchLimit + 1
  <2>1. CASE k \in 1 .. Len(rows)
    BY <1>1, <1>2, <1>4, <2>1 DEF RowsOf
  <2>2. CASE k = Len(rows) + 1
    <3>1. j \in 1 .. Len(rows) /\ rows[j] = e
      BY <1>1, <1>2, <1>4, <2>2
    <3>2. e \in events
      BY <3>1 DEF RowsOf
    <3>. QED
      BY <1>1, <2>2, <3>2
  <2>. QED
    BY <1>1, <1>2, <2>1, <2>2
<1>5. RowsOf(new, events \cup {e})
  BY <1>2, <1>3, <1>4 DEF RowsOf
<1>. QED
  BY <1>5 DEF new

\* A row of an incident or a report.
LEMMA OtherRow ==
  ASSUME NEW rows, NEW events, RowsOf(rows, events)
  PROVE  RowsOf(Append(rows, Other), events)
<1>. DEFINE new == Append(rows, Other)
<1>1. rows \in Seq(AllEvents \cup {Other}) /\ Len(rows) \in Nat /\ Other \notin AllEvents
  BY RelayAssumption DEF RowsOf
<1>2. /\ new \in Seq(AllEvents \cup {Other}) /\ Len(new) = Len(rows) + 1
      /\ new[Len(rows) + 1] = Other /\ \A k \in 1 .. Len(rows) : new[k] = rows[k]
  BY <1>1
<1>. HIDE DEF new
<1>3. ASSUME NEW f \in AllEvents
      PROVE  (\E k \in 1 .. Len(new) : new[k] = f) <=> f \in events
  <2>1. (\E k \in 1 .. Len(rows) : rows[k] = f) <=> f \in events
    BY DEF RowsOf
  <2>. QED
    BY <1>1, <1>2, <2>1
<1>4. ASSUME NEW k \in 1 .. Len(new), new[k] # Other, NEW j \in 1 .. k - 1, new[j] = new[k]
      PROVE  k > SearchLimit + 1
  BY <1>1, <1>2, <1>4 DEF RowsOf
<1>5. RowsOf(new, events)
  BY <1>2, <1>3, <1>4 DEF RowsOf
<1>. QED
  BY <1>5 DEF new

\* A step that leaves the rows and what was heard alone, and gives a thread a
\* request that tells of nothing, keeps the invariant if the request may rely on
\* what it found.
LEMMA QuietStep ==
  ASSUME RelayInv, RelayTypeOK', UNCHANGED <<dbVars, heard>>, FoundIsThere',
         \A r \in WebThreads : web'[r] = web[r] \/ ~Tells(r)'
  PROVE  RelayInv'
<1>1. RowsAgree'
  BY DEF RelayInv, RowsAgree, dbVars
<1>2. OneTells'
  BY DEF RelayInv, OneTells, Tells, CodeAt, dbVars
<1>. QED
  BY <1>1, <1>2 DEF RelayInv

\* A request that ends.
LEMMA AnswerTypes ==
  ASSUME RelayInv, NEW r \in WebThreads, NEW v \in {"ok", "failed"}, Answer(r, v)
  PROVE  /\ web' = [web EXCEPT ![r] = Idle]
         /\ client' \in [AllEvents -> {"none", "waiting", "ok", "failed"}]
  BY DEF RelayInv, RelayTypeOK, Answer, Become

LEMMA AnswerStep ==
  ASSUME RelayInv, NEW r \in WebThreads, NEW v \in {"ok", "failed"}, Answer(r, v),
         UNCHANGED <<dbVars, heard>>
  PROVE  RelayInv'
<1>0. /\ web' = [web EXCEPT ![r] = Idle]
      /\ client' \in [AllEvents -> {"none", "waiting", "ok", "failed"}]
  BY AnswerTypes
<1>1. RelayTypeOK'
  <2>1. Idle \in Requests
    BY DEF Idle, Requests
  <2>2. web' \in [WebThreads -> Requests]
    BY <1>0, <2>1 DEF RelayInv, RelayTypeOK
  <2>. QED
    BY <1>0, <2>2 DEF RelayInv, RelayTypeOK, dbVars
<1>2. FoundIsThere'
  <2>1. web'[r].at = "idle" /\ \A s \in WebThreads : s # r => web'[s] = web[s]
    BY <1>0 DEF RelayInv, RelayTypeOK, Idle
  <2>. QED
    BY <2>1 DEF RelayInv, FoundIsThere, CodeAt, dbVars
<1>3. \A s \in WebThreads : web'[s] = web[s] \/ ~Tells(s)'
  BY AnswerTypes DEF RelayInv, RelayTypeOK, Tells, Idle
<1>. QED
  BY <1>1, <1>2, <1>3, QuietStep

LEMMA RequestStep ==
  ASSUME RelayInv, NEW r \in WebThreads, NEW e \in AllEvents, NEW kind \in {"relay", "its"},
         NEW b \in BOOLEAN, b => kind = "relay", Request(r, kind, e, b),
         client' \in [AllEvents -> {"none", "waiting", "ok", "failed"}], UNCHANGED <<dbVars, heard>>
  PROVE  RelayInv'
<1>1. web' = [web EXCEPT ![r] = [at |-> "read", kind |-> kind, event |-> e, client |-> b]]
  BY DEF Request, Become
<1>2. RelayTypeOK'
  BY <1>1 DEF RelayInv, RelayTypeOK, Requests, dbVars
<1>3. FoundIsThere'
  BY <1>1 DEF RelayInv, RelayTypeOK, FoundIsThere, CodeAt, dbVars
<1>4. \A s \in WebThreads : web'[s] = web[s] \/ ~Tells(s)'
  BY <1>1 DEF RelayInv, RelayTypeOK, Tells
<1>. QED
  BY <1>2, <1>3, <1>4, QuietStep

\* What a request is, by where it is.
LEMMA RequestFields ==
  ASSUME RelayInv, NEW r \in WebThreads, web[r].at # "idle"
  PROVE  /\ web[r].event \in AllEvents /\ web[r].client \in BOOLEAN
         /\ web[r].at \in {"read", "commit", "emit", "mark", "answer"}
         /\ web[r].at \in {"read", "commit"} => web[r].kind \in {"relay", "its"}
         /\ web[r].at = "commit" =>
              /\ web[r].sawEvent \in BOOLEAN /\ web[r].sawRow \in BOOLEAN
              /\ web[r].sawIncident \in BOOLEAN
         /\ web[r].at = "mark" => web[r].works \in BOOLEAN
         /\ CodeAt(r) \in Codes
<1>1. web[r] \in Requests
  BY DEF RelayInv, RelayTypeOK
<1>. QED
  BY <1>1, RelayAssumption DEF Requests, CodeAt

LEMMA ReadStep ==
  ASSUME RelayInv, NEW r \in WebThreads, ReadRows(r)
  PROVE  RelayInv'
<1>0. PICK found \in RowFound(web[r]) :
        web' = [web EXCEPT ![r] = [at |-> "commit", kind |-> web[r].kind, event |-> web[r].event,
                                   client |-> web[r].client,
                                   sawEvent |-> web[r].event \in aiEvents,
                                   sawRow |-> found,
                                   sawIncident |-> Code[web[r].event] \in incidents]]
  BY DEF ReadRows, Become
<1>. DEFINE q == [at |-> "commit", kind |-> web[r].kind, event |-> web[r].event,
                  client |-> web[r].client,
                  sawEvent |-> web[r].event \in aiEvents,
                  sawRow |-> found,
                  sawIncident |-> Code[web[r].event] \in incidents]
<1>1. /\ web' = [web EXCEPT ![r] = q] /\ UNCHANGED <<dbVars, heard, client>> /\ web[r].at = "read"
      /\ found \in BOOLEAN
  BY <1>0 DEF ReadRows, RowFound
<1>2. web' \in [WebThreads -> Requests]
  <2>1. q \in Requests
    BY <1>1, RequestFields DEF Requests
  <2>. QED
    BY <1>1, <2>1 DEF RelayInv, RelayTypeOK
<1>3. RelayTypeOK'
  BY <1>1, <1>2 DEF RelayInv, RelayTypeOK, dbVars
<1>4. web'[r] = q /\ \A s \in WebThreads : s # r => web'[s] = web[s]
  BY <1>1 DEF RelayInv, RelayTypeOK
<1>5. /\ found => web[r].event \in aiEvents
      /\ web[r].kind = "relay" /\ web[r].event \in aiEvents /\ ~found => Len(recent) > SearchLimit
  <2>1. HasRow(web[r].event) <=> web[r].event \in aiEvents
    BY <1>1, RequestFields DEF RelayInv, RowsAgree, RowsOf, HasRow
  <2>. QED
    BY <1>0, <2>1 DEF RowFound
<1>6. FoundIsThere'
  <2>1. /\ aiEvents' = aiEvents /\ incidents' = incidents /\ recent' = recent
        /\ web[r].client => web[r].kind = "relay"
    BY <1>1 DEF RelayInv, FoundIsThere, dbVars
  <2>2. ASSUME NEW s \in WebThreads, s # r PROVE web'[s] = web[s]
    BY <2>2, <1>4
  <2>3. /\ q.at = "commit" /\ q.kind = web[r].kind /\ q.event = web[r].event
        /\ q.client = web[r].client
    OBVIOUS
  <2>4. /\ q.sawRow => web[r].event \in aiEvents
        /\ web[r].kind = "relay" /\ q.sawEvent /\ ~q.sawRow => Len(recent) > SearchLimit
    BY <1>5
  <2>5. /\ q.sawEvent => web[r].event \in aiEvents
        /\ q.sawIncident => Code[web[r].event] \in incidents
    OBVIOUS
  <2>. HIDE DEF q
  <2>6. ASSUME NEW s \in WebThreads
        PROVE  /\ web'[s].at = "commit" =>
                    /\ web'[s].sawEvent => web'[s].event \in aiEvents
                    /\ web'[s].sawRow => web'[s].event \in aiEvents
                    /\ web'[s].kind = "relay" /\ web'[s].sawEvent /\ ~web'[s].sawRow =>
                         Len(recent) > SearchLimit
                    /\ web'[s].sawIncident => Code[web'[s].event] \in incidents
               /\ web'[s].at \in {"read", "commit"} /\ web'[s].client => web'[s].kind = "relay"
               /\ web'[s].at \in {"emit", "mark", "answer"} /\ web'[s].client =>
                    web'[s].event \in aiEvents
    <3>1. CASE s = r
      BY <3>1, <1>4, <2>1, <2>3, <2>4, <2>5
    <3>2. CASE s # r
      BY <3>2, <2>2 DEF RelayInv, FoundIsThere, CodeAt
    <3>. QED
      BY <3>1, <3>2
  <2>. QED
    BY <2>1, <2>6 DEF FoundIsThere, CodeAt
<1>7. \A s \in WebThreads : web'[s] = web[s] \/ ~Tells(s)'
  BY <1>4 DEF Tells
<1>. QED
  BY <1>1, <1>3, <1>6, <1>7, QuietStep

\* The commit: what the request did not find, and nobody else has inserted since.
LEMMA CommitStep ==
  ASSUME RelayInv, NEW r \in WebThreads, Commit(r)
  PROVE  RelayInv'
<1>. DEFINE e == web[r].event
            i == CodeAt(r)
            new == [at |-> IF web[r].sawIncident THEN "answer" ELSE "emit",
                    event |-> e, client |-> web[r].client]
<1>1. CASE Clash(web[r])
  BY <1>1, AnswerStep DEF Commit
<1>2. CASE ~Clash(web[r])
  <2>1. /\ web[r].at = "commit" /\ web' = [web EXCEPT ![r] = new]
        /\ client' = client /\ heard' = heard
        /\ StoreEvent(web[r]) /\ CreateIncident(web[r])
        /\ recent' = WithIncidentRow(WithEventRow(recent, web[r]), web[r])
    BY <1>2 DEF Commit, Become
  <2>2. /\ e \in AllEvents /\ i \in Codes /\ web[r].client \in BOOLEAN
        /\ web[r].kind \in {"relay", "its"}
        /\ web[r].sawEvent \in BOOLEAN /\ web[r].sawIncident \in BOOLEAN
        /\ web[r].sawRow \in BOOLEAN
    BY <2>1, RequestFields
  <2>3. /\ web[r].sawIncident <=> i \in incidents
        /\ web[r].kind = "relay" => (web[r].sawEvent <=> e \in aiEvents)
        /\ web[r].sawRow => e \in aiEvents
        /\ web[r].kind = "relay" /\ web[r].sawEvent /\ ~web[r].sawRow => Len(recent) > SearchLimit
        /\ web[r].client => web[r].kind = "relay"
    BY <1>2, <2>1, <2>2 DEF RelayInv, FoundIsThere, Clash, CodeAt
  <2>4. /\ incidents' = incidents \cup {i}
        /\ notice' = IF i \in incidents THEN notice ELSE [notice EXCEPT ![i] = "PENDING"]
    BY <2>1, <2>3 DEF CreateIncident, CodeAt
  <2>5. /\ aiEvents \subseteq aiEvents' /\ aiEvents' \subseteq AllEvents
        /\ web[r].client => e \in aiEvents'
    BY <2>1, <2>2, <2>3 DEF StoreEvent, RelayInv, RelayTypeOK
  <2>6. RowsOf(recent', aiEvents') /\ Len(recent') >= Len(recent)
    <3>. DEFINE rows == WithEventRow(recent, web[r])
    <3>1. RowsOf(recent, aiEvents) /\ recent \in Seq(AllEvents \cup {Other})
      BY DEF RelayInv, RowsAgree, RowsOf
    <3>2. RowsOf(rows, aiEvents') /\ Len(rows) >= Len(recent)
      <4>1. CASE web[r].kind = "its" \/ web[r].sawRow
        <5>1. rows = recent /\ aiEvents' = aiEvents
          BY <2>1, <2>2, <2>3, <4>1 DEF WithEventRow, StoreEvent
        <5>. QED
          BY <3>1, <5>1
      <4>2. CASE web[r].kind = "relay" /\ ~web[r].sawRow
        <5>1. rows = Append(recent, e) /\ aiEvents' = aiEvents \cup {e}
          BY <2>1, <4>2 DEF WithEventRow, StoreEvent
        <5>2. e \in aiEvents => Len(recent) > SearchLimit
          BY <2>2, <2>3, <4>2
        <5>3. RowsOf(rows, aiEvents')
          BY <2>2, <3>1, <5>1, <5>2, EventRow
        <5>4. Len(rows) = Len(recent) + 1
          BY <2>2, <3>1, <5>1
        <5>. QED
          BY <3>1, <5>3, <5>4
      <4>. QED
        BY <2>2, <4>1, <4>2
    <3>. HIDE DEF rows
    <3>3. CASE web[r].sawIncident
      BY <2>1, <3>2, <3>3 DEF WithIncidentRow, rows
    <3>4. CASE ~web[r].sawIncident
      <4>1. recent' = Append(rows, Other)
        BY <2>1, <3>4 DEF WithIncidentRow, rows
      <4>2. RowsOf(recent', aiEvents')
        BY <3>2, <4>1, OtherRow
      <4>3. rows \in Seq(AllEvents \cup {Other}) /\ Len(recent') = Len(rows) + 1
        BY <3>2, <4>1 DEF RowsOf
      <4>. QED
        BY <3>1, <3>2, <4>2, <4>3
    <3>. QED
      BY <2>2, <3>3, <3>4
  <2>7. /\ web'[r] = new /\ new \in Requests
        /\ \A s \in WebThreads : s # r => web'[s] = web[s]
    BY <2>1, <2>2 DEF RelayInv, RelayTypeOK, Requests
  <2>8. RelayTypeOK'
    BY <2>1, <2>2, <2>4, <2>5, <2>6, <2>7 DEF RelayInv, RelayTypeOK, RowsOf
  <2>9. RowsAgree'
    BY <2>1, <2>2, <2>4, <2>6 DEF RelayInv, RelayTypeOK, RowsAgree
  <2>10. FoundIsThere'
    <3>1. ASSUME NEW s \in WebThreads, s # r
          PROVE  /\ web[s].at = "commit" =>
                      /\ web[s].sawEvent => web[s].event \in aiEvents'
                      /\ web[s].sawRow => web[s].event \in aiEvents'
                      /\ web[s].kind = "relay" /\ web[s].sawEvent /\ ~web[s].sawRow =>
                           Len(recent') > SearchLimit
                      /\ web[s].sawIncident => Code[web[s].event] \in incidents'
                 /\ web[s].at \in {"read", "commit"} /\ web[s].client => web[s].kind = "relay"
                 /\ web[s].at \in {"emit", "mark", "answer"} /\ web[s].client =>
                      web[s].event \in aiEvents'
      <4>1. Len(recent) > SearchLimit => Len(recent') > SearchLimit
        <5>1. Len(recent) \in Nat /\ Len(recent') \in Nat /\ SearchLimit \in Nat
          BY <2>6, RelayAssumption DEF RelayInv, RowsAgree, RowsOf
        <5>. QED
          BY <2>6, <5>1
      <4>. QED
        BY <2>4, <2>5, <4>1 DEF RelayInv, FoundIsThere, CodeAt
    <3>2. /\ web'[r].at \in {"answer", "emit"}
          /\ web'[r].client => web'[r].event \in aiEvents'
      BY <2>5, <2>7
    <3>. QED
      BY <2>7, <3>1, <3>2 DEF FoundIsThere, CodeAt
  <2>11. OneTells'
    <3>1. /\ web'[r].event = e
          /\ web'[r].at = "emit" => ~web[r].sawIncident
          /\ web'[r].at \in {"answer", "emit"}
      BY <2>7
    <3>2. web'[r].at = "emit" => i \notin incidents /\ notice'[i] = "PENDING" /\ heard[i] = 0
      BY <2>2, <2>3, <2>4, <3>1 DEF RelayInv, RelayTypeOK, RowsAgree
    <3>3. ASSUME NEW s \in WebThreads, s # r, Tells(s)
          PROVE  /\ CodeAt(s) \in incidents /\ CodeAt(s) \in Codes
                 /\ notice'[CodeAt(s)] = "PENDING"
                 /\ heard[CodeAt(s)] = IF web[s].at = "mark" /\ web[s].works THEN 1 ELSE 0
      BY <2>2, <2>4, <3>3 DEF RelayInv, RelayTypeOK, OneTells
    <3>4. \A s \in WebThreads : s # r => (Tells(s)' <=> Tells(s)) /\ CodeAt(s)' = CodeAt(s)
      BY <2>7 DEF Tells, CodeAt
    <3>5. CodeAt(r)' = i
      BY <3>1 DEF CodeAt
    <3>6. ASSUME NEW s \in WebThreads, Tells(s)'
          PROVE  /\ CodeAt(s)' \in incidents'
                 /\ notice'[CodeAt(s)'] = "PENDING"
                 /\ heard'[CodeAt(s)'] = IF web'[s].at = "mark" /\ web'[s].works THEN 1 ELSE 0
      <4>1. CASE s = r
        BY <2>1, <2>4, <3>1, <3>2, <3>5, <3>6, <4>1 DEF Tells
      <4>2. CASE s # r
        BY <2>1, <2>4, <2>7, <3>3, <3>4, <3>6, <4>2
      <4>. QED
        BY <4>1, <4>2
    <3>7. ASSUME NEW s \in WebThreads, NEW t \in WebThreads, Tells(s)', Tells(t)',
                 CodeAt(s)' = CodeAt(t)'
          PROVE  s = t
      <4>1. CASE s # r /\ t # r
        BY <3>4, <3>7, <4>1 DEF RelayInv, OneTells
      <4>2. CASE s = r /\ t # r
        BY <3>1, <3>2, <3>3, <3>4, <3>5, <3>7, <4>2 DEF Tells
      <4>3. CASE s # r /\ t = r
        BY <3>1, <3>2, <3>3, <3>4, <3>5, <3>7, <4>3 DEF Tells
      <4>. QED
        BY <4>1, <4>2, <4>3
    <3>. QED
      BY <3>6, <3>7 DEF OneTells
  <2>. QED
    BY <2>8, <2>9, <2>10, <2>11 DEF RelayInv
<1>. QED
  BY <1>1, <1>2

\* The announcement: nobody else tells of this incident.
LEMMA EmitStep ==
  ASSUME RelayInv, NEW r \in WebThreads, Emit(r)
  PROVE  RelayInv'
<1>. DEFINE i == CodeAt(r)
<1>1. PICK works \in BOOLEAN :
        /\ heard' = [heard EXCEPT ![i] = IF works THEN @ + 1 ELSE @]
        /\ web' = [web EXCEPT ![r] = [at |-> "mark", event |-> web[r].event,
                                      client |-> web[r].client, works |-> works]]
  BY DEF Emit, Become, CodeAt
<1>2. web[r].at = "emit" /\ UNCHANGED <<dbVars, client>>
  BY DEF Emit
<1>3. /\ web[r].event \in AllEvents /\ web[r].client \in BOOLEAN /\ i \in Codes
      /\ i \in incidents /\ notice[i] = "PENDING" /\ heard[i] = 0
  BY <1>2, RequestFields DEF RelayInv, OneTells, Tells
<1>4. RelayTypeOK'
  BY <1>1, <1>2, <1>3 DEF RelayInv, RelayTypeOK, Requests, dbVars
<1>5. RowsAgree'
  BY <1>1, <1>2, <1>3 DEF RelayInv, RelayTypeOK, RowsAgree, dbVars
<1>6. /\ web'[r].at = "mark" /\ web'[r].event = web[r].event /\ web'[r].client = web[r].client
      /\ web'[r].works = works
      /\ \A s \in WebThreads : s # r => web'[s] = web[s]
  BY <1>1 DEF RelayInv, RelayTypeOK
<1>7. FoundIsThere'
  BY <1>2, <1>6 DEF RelayInv, FoundIsThere, CodeAt, dbVars
<1>8. \A s \in WebThreads : (Tells(s)' <=> Tells(s)) /\ CodeAt(s)' = CodeAt(s)
  BY <1>2, <1>6 DEF Tells, CodeAt
<1>9. OneTells'
  <2>1. ASSUME NEW s \in WebThreads, Tells(s)'
        PROVE  /\ CodeAt(s)' \in incidents'
               /\ notice'[CodeAt(s)'] = "PENDING"
               /\ heard'[CodeAt(s)'] = IF web'[s].at = "mark" /\ web'[s].works THEN 1 ELSE 0
    <3>1. CASE s = r
      BY <1>1, <1>2, <1>3, <1>6, <1>8, <3>1 DEF RelayInv, RelayTypeOK, dbVars
    <3>2. CASE s # r
      <4>1. CodeAt(s) # i /\ CodeAt(s) \in Codes
        BY <1>2, <1>8, <2>1, <3>2 DEF RelayInv, RelayTypeOK, OneTells, Tells
      <4>2. heard'[CodeAt(s)] = heard[CodeAt(s)]
        BY <1>1, <4>1 DEF RelayInv, RelayTypeOK
      <4>. QED
        BY <1>2, <1>6, <1>8, <2>1, <3>2, <4>2 DEF RelayInv, OneTells, dbVars
    <3>. QED
      BY <3>1, <3>2
  <2>. QED
    BY <1>8, <2>1 DEF RelayInv, OneTells
<1>. QED
  BY <1>4, <1>5, <1>7, <1>9 DEF RelayInv

\* What the announcement came to is noted, or its commit failed.
LEMMA MarkStep ==
  ASSUME RelayInv, NEW r \in WebThreads, Mark(r)
  PROVE  RelayInv'
<1>. DEFINE i == CodeAt(r)
<1>1. /\ web[r].at = "mark" /\ UNCHANGED <<aiEvents, incidents, recent, heard, client>>
      /\ web' = [web EXCEPT ![r] = [at |-> "answer", event |-> web[r].event,
                                    client |-> web[r].client]]
      /\ notice' \in {notice, [notice EXCEPT ![i] = IF web[r].works THEN "SENT" ELSE "FAILED"]}
  BY DEF Mark, Become, CodeAt, SendStatus
<1>2. /\ web[r].event \in AllEvents /\ web[r].client \in BOOLEAN /\ web[r].works \in BOOLEAN
      /\ i \in Codes /\ i \in incidents /\ notice[i] = "PENDING"
      /\ heard[i] = IF web[r].works THEN 1 ELSE 0
  BY <1>1, RequestFields DEF RelayInv, OneTells, Tells
<1>3. RelayTypeOK'
  BY <1>1, <1>2 DEF RelayInv, RelayTypeOK, Requests
<1>4. RowsAgree'
  BY <1>1, <1>2 DEF RelayInv, RelayTypeOK, RowsAgree
<1>5. /\ web'[r].at = "answer" /\ web'[r].event = web[r].event /\ web'[r].client = web[r].client
      /\ \A s \in WebThreads : s # r => web'[s] = web[s]
  BY <1>1 DEF RelayInv, RelayTypeOK
<1>6. FoundIsThere'
  BY <1>1, <1>5 DEF RelayInv, FoundIsThere, CodeAt
<1>7. \A s \in WebThreads : Tells(s)' => s # r /\ Tells(s) /\ CodeAt(s)' = CodeAt(s)
  BY <1>5 DEF Tells, CodeAt
<1>8. ASSUME NEW s \in WebThreads, Tells(s)'
      PROVE  notice'[CodeAt(s)] = "PENDING"
  <2>1. CodeAt(s) # i /\ CodeAt(s) \in Codes /\ notice[CodeAt(s)] = "PENDING"
    BY <1>1, <1>7, <1>8 DEF RelayInv, RelayTypeOK, OneTells, Tells
  <2>. QED
    BY <1>1, <2>1 DEF RelayInv, RelayTypeOK
<1>9. OneTells'
  BY <1>1, <1>5, <1>7, <1>8 DEF RelayInv, OneTells
<1>. QED
  BY <1>3, <1>4, <1>6, <1>9 DEF RelayInv

\* A report's row is nobody's event.
LEMMA RecordStep ==
  ASSUME RelayInv, RecordReport
  PROVE  RelayInv'
<1>1. recent' = Append(recent, Other) /\ UNCHANGED <<aiEvents, incidents, notice, heard, web, client>>
  BY DEF RecordReport
<1>2. RowsOf(recent', aiEvents')
  BY <1>1, OtherRow DEF RelayInv, RowsAgree
<1>3. /\ recent \in Seq(AllEvents \cup {Other}) /\ recent' \in Seq(AllEvents \cup {Other})
      /\ Len(recent') = Len(recent) + 1 /\ Len(recent) \in Nat /\ SearchLimit \in Nat
  BY <1>1, <1>2, RelayAssumption DEF RelayInv, RelayTypeOK, RowsOf
<1>4. RelayTypeOK'
  BY <1>1, <1>3 DEF RelayInv, RelayTypeOK
<1>5. RowsAgree'
  BY <1>1, <1>2 DEF RelayInv, RowsAgree
<1>6. FoundIsThere'
  <2>1. Len(recent) > SearchLimit => Len(recent') > SearchLimit
    BY <1>3
  <2>. QED
    BY <1>1, <2>1 DEF RelayInv, FoundIsThere, CodeAt
<1>7. OneTells'
  BY <1>1 DEF RelayInv, OneTells, Tells, CodeAt
<1>. QED
  BY <1>4, <1>5, <1>6, <1>7 DEF RelayInv

LEMMA RestartStep ==
  ASSUME RelayInv, Restart
  PROVE  RelayInv'
<1>1. RelayTypeOK'
  BY DEF RelayInv, RelayTypeOK, Restart, Requests, Idle, dbVars
<1>2. FoundIsThere' /\ \A r \in WebThreads : ~Tells(r)'
  BY DEF Restart, FoundIsThere, Tells, Idle
<1>. QED
  BY <1>1, <1>2, QuietStep DEF Restart

\* Every action of RelayNext, then a stuttering step.
LEMMA RelayStep ==
  ASSUME RelayInv, [RelayNext]_relayVars
  PROVE  RelayInv'
<1>1. ASSUME NEW e \in AllEvents, SendEvent(e) PROVE RelayInv'
  <2>1. /\ UNCHANGED <<dbVars, heard>>
        /\ client' \in [AllEvents -> {"none", "waiting", "ok", "failed"}]
    BY <1>1 DEF SendEvent, RelayInv, RelayTypeOK
  <2>2. CASE UNCHANGED web
    <3>1. RelayTypeOK' /\ FoundIsThere'
      BY <2>1, <2>2 DEF RelayInv, RelayTypeOK, FoundIsThere, CodeAt, dbVars
    <3>. QED
      BY <2>1, <2>2, <3>1, QuietStep
  <2>3. CASE \E r \in WebThreads : Request(r, "relay", e, TRUE)
    BY <2>1, <2>3, RequestStep
  <2>. QED
    BY <1>1, <2>2, <2>3 DEF SendEvent
<1>2. ASSUME NEW e \in AllEvents, GiveUp(e) PROVE RelayInv'
  <2>1. RelayTypeOK' /\ FoundIsThere' /\ UNCHANGED <<dbVars, heard, web>>
    BY <1>2 DEF GiveUp, RelayInv, RelayTypeOK, FoundIsThere, CodeAt, dbVars
  <2>. QED
    BY <2>1, QuietStep
<1>3. ASSUME NEW r \in WebThreads, NEW e \in AllEvents, NEW kind \in {"relay", "its"},
             PostEvent(r, e, kind)
      PROVE  RelayInv'
  BY <1>3, RequestStep DEF PostEvent, RelayInv, RelayTypeOK
<1>4. ASSUME NEW r \in WebThreads, Refuse(r) \/ Reply(r) PROVE RelayInv'
  BY <1>4, AnswerStep DEF Refuse, Reply
<1>5. CASE UNCHANGED relayVars
  <2>1. RelayTypeOK' /\ FoundIsThere' /\ UNCHANGED <<dbVars, heard, web>>
    BY <1>5 DEF relayVars, RelayInv, RelayTypeOK, FoundIsThere, CodeAt, dbVars
  <2>. QED
    BY <2>1, QuietStep
<1>. QED
  BY <1>1, <1>2, <1>3, <1>4, <1>5, ReadStep, CommitStep, EmitStep, MarkStep,
     RecordStep, RestartStep
  DEF RelayNext, Serve

\* For any limit of the search: the table of realtime events says of every
\* announcement what the browsers got, and every stored event has a row of recent
\* incidents, a second one only if it was sent again when there were more rows than
\* the search looks through (emit_realtime_event_by_id, _sync_realtime_event).
THEOREM NoticesHold == RelaySpec => []NoticesAreTrue
<1>1. RelayInv => NoticesAreTrue
  BY DEF RelayInv, RowsAgree, RowsOf, HasRow, NoticesAreTrue
<1>. QED
  BY <1>1, RelayInitInv, RelayStep, PTL DEF RelaySpec

\* The relay stores an event with its incident, announces an incident once at
\* most and after its commit, and acknowledges what is stored (create_event,
\* create_its_event, RelayClient.send_event).
THEOREM RelayImplementsDelivery == RelaySpec => ImplementsDelivery
<1>. DEFINE acked == {e \in AllEvents : client[e] = "ok"}
<1>1. RelayInit => Delivery!DeliveryInit
  BY DEF RelayInit, Delivery!DeliveryInit
<1>2. ASSUME RelayInv, [RelayNext]_relayVars
      PROVE  [Delivery!DeliveryNext]_(Delivery!deliveryVars)
  <2>. DEFINE Same == UNCHANGED <<aiEvents, incidents, heard, acked>>
  <2>. USE DEF Delivery!deliveryVars
  <2>1. ASSUME NEW e \in AllEvents, SendEvent(e) \/ GiveUp(e) PROVE Same
    BY <1>2, <2>1 DEF SendEvent, GiveUp, RelayInv, RelayTypeOK, dbVars
  <2>2. ASSUME NEW r \in WebThreads, NEW e \in AllEvents, NEW kind \in {"relay", "its"},
               PostEvent(r, e, kind)
        PROVE  Same
    BY <2>2 DEF PostEvent, dbVars
  <2>3. ASSUME NEW r \in WebThreads, Answer(r, "failed"), UNCHANGED <<dbVars, heard>> PROVE Same
    BY <1>2, <2>3 DEF Answer, RelayInv, RelayTypeOK, dbVars
  <2>4. ASSUME NEW r \in WebThreads, ReadRows(r) \/ Mark(r) PROVE Same
    BY <2>4 DEF ReadRows, Mark, dbVars
  <2>5. ASSUME NEW r \in WebThreads, Commit(r) PROVE Delivery!DeliveryNext \/ Same
    <3>. DEFINE e == web[r].event
                i == CodeAt(r)
    <3>1. CASE Clash(web[r])
      BY <2>3, <2>5, <3>1 DEF Commit
    <3>2. CASE ~Clash(web[r])
      <4>1. /\ client' = client /\ heard' = heard /\ web[r].at = "commit"
            /\ StoreEvent(web[r]) /\ CreateIncident(web[r])
        BY <2>5, <3>2 DEF Commit
      <4>2. e \in AllEvents /\ i \in Codes /\ i = Code[e]
        BY <1>2, <4>1, RequestFields DEF CodeAt
      <4>3. web[r].sawIncident => i \in incidents
        BY <1>2, <4>1 DEF RelayInv, FoundIsThere
      <4>4. incidents' = incidents \cup {i}
        BY <4>1, <4>3 DEF CreateIncident, CodeAt
      <4>5. CASE web[r].kind = "relay"
        <5>1. Delivery!Store(e)
          BY <4>1, <4>2, <4>4, <4>5 DEF StoreEvent, Delivery!Store
        <5>. QED
          BY <4>2, <5>1 DEF Delivery!DeliveryNext
      <4>6. CASE web[r].kind # "relay" /\ i \notin incidents
        <5>1. Delivery!File(i)
          BY <4>1, <4>4, <4>6 DEF StoreEvent, Delivery!File
        <5>. QED
          BY <4>2, <5>1 DEF Delivery!DeliveryNext
      <4>7. CASE web[r].kind # "relay" /\ i \in incidents
        BY <4>1, <4>4, <4>7 DEF StoreEvent
      <4>. QED
        BY <4>5, <4>6, <4>7
    <3>. QED
      BY <3>1, <3>2
  <2>6. ASSUME NEW r \in WebThreads, Emit(r) PROVE Delivery!DeliveryNext \/ Same
    <3>. DEFINE i == CodeAt(r)
    <3>1. /\ web[r].at = "emit" /\ UNCHANGED <<dbVars, client>>
          /\ \E works \in BOOLEAN : heard' = [heard EXCEPT ![i] = IF works THEN @ + 1 ELSE @]
      BY <2>6 DEF Emit, CodeAt
    <3>2. i \in Codes /\ i \in incidents /\ heard[i] = 0
      BY <1>2, <3>1, RequestFields DEF RelayInv, OneTells, Tells
    <3>3. heard' = heard \/ heard' = [heard EXCEPT ![i] = 1]
      <4>1. PICK works \in BOOLEAN : heard' = [heard EXCEPT ![i] = IF works THEN @ + 1 ELSE @]
        BY <3>1
      <4>2. heard \in [Codes -> Nat]
        BY <1>2 DEF RelayInv, RelayTypeOK
      <4>3. CASE works
        BY <3>2, <4>1, <4>3
      <4>4. CASE ~works
        BY <3>2, <4>1, <4>2, <4>4
      <4>. QED
        BY <4>3, <4>4
    <3>4. CASE heard' = heard
      BY <3>1, <3>4 DEF dbVars
    <3>5. CASE heard' = [heard EXCEPT ![i] = 1]
      <4>1. Delivery!Announce(i)
        BY <3>1, <3>2, <3>5 DEF Delivery!Announce, dbVars
      <4>. QED
        BY <3>2, <4>1 DEF Delivery!DeliveryNext
    <3>. QED
      BY <3>3, <3>4, <3>5
  <2>7. ASSUME NEW r \in WebThreads, Reply(r) PROVE Delivery!DeliveryNext \/ Same
    <3>. DEFINE e == web[r].event
    <3>1. web[r].at = "answer" /\ UNCHANGED <<dbVars, heard>>
      BY <2>7 DEF Reply
    <3>2. CASE Answer(r, "failed")
      BY <2>3, <3>1, <3>2
    <3>3. CASE Answer(r, "ok")
      <4>1. CASE web[r].client
        <5>1. e \in aiEvents /\ e \in AllEvents
          BY <1>2, <3>1, <4>1, RequestFields DEF RelayInv, FoundIsThere
        <5>2. acked' = acked \/ acked' = acked \cup {e}
          BY <1>2, <3>3, <5>1 DEF Answer, RelayInv, RelayTypeOK
        <5>3. CASE acked' = acked \cup {e}
          <6>1. PICK f \in AllEvents : f = e
            BY <5>1
          <6>2. Delivery!Acknowledge(f)
            BY <3>1, <5>1, <5>3, <6>1 DEF Delivery!Acknowledge, dbVars
          <6>. QED
            BY <6>2 DEF Delivery!DeliveryNext
        <5>. QED
          BY <3>1, <5>2, <5>3 DEF dbVars
      <4>2. CASE ~web[r].client
        BY <3>1, <3>3, <4>2 DEF Answer, dbVars
      <4>. QED
        BY <4>1, <4>2
    <3>. QED
      BY <2>7, <3>2, <3>3 DEF Reply
  <2>8. CASE Restart
    BY <1>2, <2>8 DEF Restart, RelayInv, RelayTypeOK, dbVars
  <2>9. CASE RecordReport
    BY <2>9 DEF RecordReport
  <2>10. CASE UNCHANGED relayVars
    BY <2>10 DEF relayVars
  <2>. QED
    BY <1>2, <2>1, <2>2, <2>3, <2>4, <2>5, <2>6, <2>7, <2>8, <2>9, <2>10
    DEF RelayNext, Serve, Refuse
<1>. QED
  BY <1>1, <1>2, RelayInitInv, RelayStep, PTL
  DEF RelaySpec, ImplementsDelivery, Delivery!DeliverySpec

-----------------------------------------------------------------------------
(* The status of an incident *)

\* What an update has loaded is still so, unless another one has committed; the
\* time of the resolution, once set, stays.
LoadedStands ==
  \A o \in Operators :
    update[o].on =>
      /\ update[o].read <= Len(history)
      /\ update[o].read = Len(history) => update[o].status = status
      /\ update[o].resolved => resolved

StatusInv ==
  /\ StatusTypeOK
  /\ DOMAIN update = Operators
  /\ history = <<>> => status = "DETECTED"
  /\ LoadedStands
  /\ IncidentRecordAddsUp

LEMMA StatusInitInv == ASSUME StatusInit PROVE StatusInv
<1>1. status = "DETECTED" /\ resolved = FALSE /\ history = <<>>
  BY DEF StatusInit
<1>2. DOMAIN update = Operators /\ \A o \in Operators : update[o] = NoUpdate
  BY DEF StatusInit
<1>3. NoUpdate.on = FALSE
  BY DEF NoUpdate
<1>4. history \in Seq([from : Statuses, to : Statuses, read : Nat]) /\ Len(history) = 0
  BY <1>1
<1>5. StatusTypeOK
  BY <1>1, <1>2, <1>4, StatusAssumption DEF StatusTypeOK
<1>6. LoadedStands
  BY <1>2, <1>3 DEF LoadedStands
<1>7. IncidentRecordAddsUp
  BY <1>1, <1>4, StatusAssumption DEF IncidentRecordAddsUp
<1>. QED
  BY <1>1, <1>2, <1>5, <1>6, <1>7 DEF StatusInv

LEMMA LoadStep ==
  ASSUME StatusInv, NEW o \in Operators, LoadIncident(o)
  PROVE  StatusInv'
<1>1. /\ UNCHANGED <<status, resolved, history>>
      /\ update' = [update EXCEPT ![o] =
           [on |-> TRUE, status |-> status, resolved |-> resolved, read |-> Len(history)]]
  BY DEF LoadIncident
<1>2. Len(history) \in Nat
  BY DEF StatusInv, StatusTypeOK
<1>3. DOMAIN update' = Operators
  BY <1>1 DEF StatusInv
<1>4. ASSUME NEW p \in Operators, p # o PROVE update'[p] = update[p]
  BY <1>1, <1>4 DEF StatusInv
<1>5. update'[o] = [on |-> TRUE, status |-> status, resolved |-> resolved, read |-> Len(history)]
  BY <1>1 DEF StatusInv
<1>6. status \in Statuses /\ resolved \in BOOLEAN
  BY DEF StatusInv, StatusTypeOK
<1>7. update'[o] \in [on : {TRUE}, status : Statuses, resolved : BOOLEAN, read : Nat]
  BY <1>2, <1>5, <1>6
<1>8. StatusTypeOK'
  <2>1. ASSUME NEW p \in Operators
        PROVE  \/ update'[p] = NoUpdate
               \/ update'[p] \in [on : {TRUE}, status : Statuses, resolved : BOOLEAN, read : Nat]
    <3>1. CASE p = o
      BY <1>7, <3>1
    <3>2. CASE p # o
      BY <1>4, <3>2 DEF StatusInv, StatusTypeOK
    <3>. QED
      BY <3>1, <3>2
  <2>2. NoUpdate' = NoUpdate
    BY DEF NoUpdate
  <2>. QED
    BY <1>1, <1>6, <2>1, <2>2 DEF StatusInv, StatusTypeOK
<1>9. LoadedStands'
  <2>1. ASSUME NEW p \in Operators, update'[p].on
        PROVE  /\ update'[p].read <= Len(history)
               /\ update'[p].read = Len(history) => update'[p].status = status
               /\ update'[p].resolved => resolved
    <3>1. CASE p = o
      BY <1>2, <1>5, <3>1
    <3>2. CASE p # o
      BY <1>4, <2>1, <3>2 DEF StatusInv, LoadedStands
    <3>. QED
      BY <3>1, <3>2
  <2>. QED
    BY <1>1, <2>1 DEF LoadedStands
<1>10. IncidentRecordAddsUp'
  BY <1>1 DEF StatusInv, IncidentRecordAddsUp, Alone
<1>. QED
  BY <1>1, <1>3, <1>8, <1>9, <1>10 DEF StatusInv

LEMMA SaveStep ==
  ASSUME StatusInv, NEW o \in Operators, NEW next \in Statuses, SaveStatus(o, next)
  PROVE  StatusInv'
<1>. DEFINE u == update[o]
            n == Len(history)
            row == [from |-> u.status, to |-> next, read |-> u.read]
<1>1. /\ status' = IF next # u.status THEN next ELSE status
      /\ resolved' = IF next \in Final /\ ~u.resolved THEN TRUE ELSE resolved
      /\ history' = Append(history, row)
      /\ update' = [update EXCEPT ![o] = NoUpdate]
  BY DEF SaveStatus, PreviousStatus
<1>2. u.on /\ u # NoUpdate
  BY DEF SaveStatus, NoUpdate
<1>3. u.status \in Statuses /\ u.resolved \in BOOLEAN /\ u.read \in Nat
  BY <1>2 DEF StatusInv, StatusTypeOK
<1>4. /\ n \in Nat /\ history \in Seq([from : Statuses, to : Statuses, read : Nat])
      /\ status \in Statuses /\ resolved \in BOOLEAN
      /\ row \in [from : Statuses, to : Statuses, read : Nat]
  BY <1>3 DEF StatusInv, StatusTypeOK
<1>5. /\ history' \in Seq([from : Statuses, to : Statuses, read : Nat])
      /\ Len(history') = n + 1 /\ history'[n + 1] = row
      /\ \A k \in 1 .. n : history'[k] = history[k]
  BY <1>1, <1>4
<1>6. /\ u.read <= n /\ (u.read = n => u.status = status) /\ (u.resolved => resolved)
  BY <1>2 DEF StatusInv, LoadedStands
<1>7. StatusTypeOK' /\ DOMAIN update' = Operators
  BY <1>1, <1>4, <1>5 DEF StatusInv, StatusTypeOK, NoUpdate
<1>8. LoadedStands'
  <2>1. ASSUME NEW p \in Operators, update'[p].on
        PROVE  p # o /\ update'[p] = update[p]
    BY <1>1, <2>1 DEF StatusInv, NoUpdate
  <2>2. resolved => resolved'
    BY <1>1
  <2>3. ASSUME NEW p \in Operators, update[p].on
        PROVE  update[p].read <= n /\ update[p].read \in Nat /\ (update[p].resolved => resolved)
    <3>1. update[p] # NoUpdate
      BY <2>3 DEF NoUpdate
    <3>2. update[p] \in [on : {TRUE}, status : Statuses, resolved : BOOLEAN, read : Nat]
      BY <3>1 DEF StatusInv, StatusTypeOK
    <3>3. update[p].read \in Nat
      BY <3>2
    <3>. QED
      BY <2>3, <3>3 DEF StatusInv, LoadedStands
  <2>. QED
    <3>1. ASSUME NEW p \in Operators, update'[p].on
          PROVE  /\ update'[p].read <= Len(history')
                 /\ update'[p].read = Len(history') => update'[p].status = status'
                 /\ update'[p].resolved => resolved'
      <4>1. p # o /\ update'[p] = update[p] /\ update[p].on
        BY <2>1, <3>1
      <4>2. update[p].read <= n /\ update[p].read \in Nat /\ (update[p].resolved => resolved)
        BY <2>3, <4>1
      <4>3. update[p].read < n + 1 /\ update[p].read # n + 1
        BY <1>4, <4>2
      <4>. QED
        BY <1>5, <2>2, <4>1, <4>2, <4>3
    <3>. QED
      BY <3>1 DEF LoadedStands
<1>9. IncidentRecordAddsUp'
  <2>1. ASSUME NEW k \in 1 .. n
        PROVE  /\ history'[k] = history[k]
               /\ k > 1 => history'[k - 1] = history[k - 1]
    <3>1. \A j \in 1 .. n : history'[j] = history[j]
      BY <1>5
    <3>2. k \in Nat /\ (k > 1 => k - 1 \in 1 .. n)
      BY <1>4, <2>1
    <3>. QED
      BY <2>1, <3>1, <3>2
  <2>2. ASSUME NEW k \in 1 .. n + 1, history'[k].read = k - 1
        PROVE  \/ history'[k].from = IF k = 1 THEN "DETECTED" ELSE history'[k - 1].to
               \/ k > 1 /\ ~(history'[k - 1].read = k - 2)
    <3>1. CASE k \in 1 .. n
      <4>1. history'[k] = history[k] /\ (k > 1 => history'[k - 1] = history[k - 1])
        BY <2>1, <3>1
      <4>2. history[k].read = k - 1
        BY <2>2, <4>1
      <4>3. \/ history[k].from = IF k = 1 THEN "DETECTED" ELSE history[k - 1].to
            \/ k > 1 /\ ~(history[k - 1].read = k - 1 - 1)
        BY <3>1, <4>2 DEF StatusInv, IncidentRecordAddsUp, Alone
      <4>4. k \in Nat /\ k - 1 - 1 = k - 2 /\ (k = 1 \/ k > 1)
        BY <1>4, <3>1
      <4>. QED
        BY <4>1, <4>3, <4>4
    <3>2. CASE k = n + 1
      <4>1. u.status = status /\ history'[k].from = u.status
        BY <1>4, <1>5, <1>6, <2>2, <3>2
      <4>2. CASE n = 0
        BY <1>4, <3>2, <4>1, <4>2 DEF StatusInv
      <4>3. CASE n > 0
        <5>1. k - 1 = n /\ n \in 1 .. n /\ history'[n] = history[n] /\ k # 1 /\ k - 2 = n - 1
          BY <1>4, <1>5, <3>2, <4>3
        <5>2. history[n].read = n - 1 => status = history[n].to
          BY <4>3 DEF StatusInv, IncidentRecordAddsUp, Alone
        <5>. QED
          BY <4>1, <5>1, <5>2
      <4>. QED
        BY <1>4, <4>2, <4>3
    <3>. QED
      BY <1>4, <3>1, <3>2
  <2>3. history'[n + 1].read = n => status' = history'[n + 1].to
    BY <1>1, <1>5, <1>6
  <2>4. status' \in Final => resolved'
    BY <1>1, <1>3, <1>4, <1>6 DEF StatusInv, IncidentRecordAddsUp
  <2>. QED
    BY <1>4, <1>5, <2>2, <2>3, <2>4 DEF IncidentRecordAddsUp, Alone
<1>. QED
  BY <1>1, <1>4, <1>7, <1>8, <1>9 DEF StatusInv

\* The history of an incident is a chain up to its present status wherever no
\* two updates overlapped, and a final status has its time (update_incident_status).
THEOREM RecordAddsUp == StatusSpec => []IncidentRecordAddsUp
<1>1. ASSUME StatusInv, [StatusNext]_statusVars PROVE StatusInv'
  <2>1. CASE UNCHANGED statusVars
    BY <1>1, <2>1
    DEF statusVars, StatusInv, StatusTypeOK, LoadedStands, IncidentRecordAddsUp, Alone
  <2>. QED
    BY <1>1, <2>1, LoadStep, SaveStep DEF StatusNext
<1>2. StatusInv => IncidentRecordAddsUp
  BY DEF StatusInv
<1>. QED
  BY <1>1, <1>2, StatusInitInv, PTL DEF StatusSpec

-----------------------------------------------------------------------------
(* The stops in the video of a report *)

Sighting == [at : Nat, spot : Spots]
StopEvent == [at : Nat, type : {"SHOULDER_STOP", "LANE_STOP", "STOPPED_VEHICLE"}]
Track == [class : Classes, spot : Spots, last : Nat, since : Nat, emitted : BOOLEAN,
          path : Seq(Sighting), told : Seq(StopEvent)]
Detection == [spot : Spots, class : Classes, source : Sources \cup {0}, sure : BOOLEAN]

\* From its i-th sighting to its j-th the vehicle never moved.
Still(path, i, j) == \A m \in i .. j - 1 : Distance(path[m].spot, path[m + 1].spot) <= MovePx

\* It moved at some time from a to b.
Drove(path, a, b) ==
  \E m \in 1 .. Len(path) - 1 :
    /\ a <= path[m].at /\ path[m + 1].at <= b
    /\ Distance(path[m].spot, path[m + 1].spot) > MovePx

\* A path is in the order of the frames, and no gap is longer than a track may be lost.
PathOk(tr) ==
  /\ Len(tr.path) > 0
  /\ tr.path[Len(tr.path)].at = tr.last /\ tr.path[Len(tr.path)].spot = tr.spot
  /\ \A i, j \in 1 .. Len(tr.path) : i < j => tr.path[i].at < tr.path[j].at
  /\ \A i \in 1 .. Len(tr.path) - 1 : tr.path[i + 1].at - tr.path[i].at <= StaleFrames

\* since is a sighting from which on the vehicle stands.
SinceOk(tr) ==
  tr.since # 0 => \E i \in 1 .. Len(tr.path) : tr.path[i].at = tr.since /\ Still(tr.path, i, Len(tr.path))

\* Each event was of a vehicle that stood long enough where it counts.
EventOk(path, e) ==
  \E i, j \in 1 .. Len(path) :
    /\ path[j].at = e.at /\ path[i].at + DangerTime <= path[j].at
    /\ Still(path, i, j) /\ ~Excluded(path[j].spot)

\* Between two events, and since the last one when another may come, it moved.
ToldOk(tr) ==
  /\ \A k \in 1 .. Len(tr.told) : EventOk(tr.path, tr.told[k])
  /\ \A k \in 1 .. Len(tr.told) - 1 : Drove(tr.path, tr.told[k].at, tr.told[k + 1].at)
  /\ Len(tr.told) > 0 /\ ~tr.emitted => Drove(tr.path, tr.told[Len(tr.told)].at, tr.last)

TrackOk(tr) == tr \in Track /\ PathOk(tr) /\ SinceOk(tr) /\ ToldOk(tr)

StopInv ==
  /\ frame \in Nat /\ nextTrack \in Nat
  /\ \A t \in TrackIds :
       /\ t \in Nat /\ t < nextTrack
       /\ TrackOk(tracks[t])
       /\ tracks[t].last <= frame /\ frame - tracks[t].last <= StaleFrames
       /\ t \notin matched => tracks[t].last < frame

-----------------------------------------------------------------------------
LEMMA PathFields ==
  ASSUME NEW path \in Seq(Sighting)
  PROVE  Len(path) \in Nat /\ \A i \in 1 .. Len(path) : path[i] \in Sighting /\ path[i].at \in Nat /\ path[i].spot \in Spots
<1>1. Len(path) \in Nat /\ \A i \in 1 .. Len(path) : path[i] \in Sighting
  OBVIOUS
<1>2. \A x \in Sighting : x.at \in Nat /\ x.spot \in Spots
  BY DEF Sighting
<1>. QED
  BY <1>1, <1>2

LEMMA ToldFields ==
  ASSUME NEW told \in Seq(StopEvent)
  PROVE  Len(told) \in Nat /\ \A i \in 1 .. Len(told) : told[i] \in StopEvent /\ told[i].at \in Nat
<1>1. Len(told) \in Nat /\ \A i \in 1 .. Len(told) : told[i] \in StopEvent
  OBVIOUS
<1>2. \A x \in StopEvent : x.at \in Nat
  BY DEF StopEvent
<1>. QED
  BY <1>1, <1>2

\* Standing between two sightings, by their numbers and by their frames.
LEMMA StillStands ==
  ASSUME NEW tr \in Track, PathOk(tr), NEW i \in 1 .. Len(tr.path), NEW j \in 1 .. Len(tr.path), Still(tr.path, i, j)
  PROVE  Stands(tr.path, tr.path[i].at, tr.path[j].at)
<1>. DEFINE p == tr.path
<1>1. p \in Seq(Sighting)
  BY DEF Track
<1>2. Len(p) \in Nat /\ \A m \in 1 .. Len(p) : p[m].at \in Nat
  BY <1>1, PathFields
<1>3. \A m, n \in 1 .. Len(p) : m < n => p[m].at < p[n].at
  BY DEF PathOk
<1>. HIDE DEF p
<1>4. ASSUME NEW m \in 1 .. Len(p) - 1, p[m].at >= p[i].at, p[m + 1].at <= p[j].at
      PROVE  m \in i .. j - 1
  <2>1. m \in 1 .. Len(p) /\ m + 1 \in 1 .. Len(p) /\ i \in 1 .. Len(p) /\ j \in 1 .. Len(p)
    BY <1>2 DEF p
  <2>2. ~(m < i)
    BY <1>2, <1>3, <1>4, <2>1
  <2>3. ~(j < m + 1)
    BY <1>2, <1>3, <1>4, <2>1
  <2>. QED
    BY <1>2, <2>1, <2>2, <2>3
<1>5. Still(p, i, j)
  BY DEF p
<1>. QED
  BY <1>4, <1>5 DEF Stands, Still, p

LEMMA StopInvSafe == ASSUME StopInv PROVE OneEventPerStop
<1>. USE StopAssumption
<1>1. SUFFICES ASSUME NEW t \in TrackIds
               PROVE  /\ \A k \in 1 .. Len(tracks[t].told) :
                           /\ \E i, j \in 1 .. Len(tracks[t].path) :
                                /\ tracks[t].path[j].at = tracks[t].told[k].at
                                /\ tracks[t].path[i].at + DangerTime <= tracks[t].path[j].at
                                /\ Stands(tracks[t].path, tracks[t].path[i].at, tracks[t].path[j].at)
                                /\ ~Excluded(tracks[t].path[j].spot)
                           /\ \A i \in 1 .. Len(tracks[t].path) - 1 :
                                tracks[t].path[i + 1].at - tracks[t].path[i].at <= StaleFrames
                      /\ \A k \in 1 .. Len(tracks[t].told) - 1 :
                           ~Stands(tracks[t].path, tracks[t].told[k].at, tracks[t].told[k + 1].at)
  BY DEF OneEventPerStop
<1>2. PICK tr : tr = tracks[t]
  OBVIOUS
<1>3. TrackOk(tr)
  BY <1>2 DEF StopInv
<1>4. ASSUME NEW k \in 1 .. Len(tr.told)
      PROVE  \E i, j \in 1 .. Len(tr.path) :
               /\ tr.path[j].at = tr.told[k].at
               /\ tr.path[i].at + DangerTime <= tr.path[j].at
               /\ Stands(tr.path, tr.path[i].at, tr.path[j].at)
               /\ ~Excluded(tr.path[j].spot)
  <2>1. PICK i \in 1 .. Len(tr.path), j \in 1 .. Len(tr.path) :
          /\ tr.path[j].at = tr.told[k].at /\ tr.path[i].at + DangerTime <= tr.path[j].at
          /\ Still(tr.path, i, j) /\ ~Excluded(tr.path[j].spot)
    BY <1>3 DEF TrackOk, ToldOk, EventOk
  <2>2. Stands(tr.path, tr.path[i].at, tr.path[j].at)
    BY <1>3, <2>1, StillStands DEF TrackOk
  <2>. QED
    BY <2>1, <2>2
<1>5. \A i \in 1 .. Len(tr.path) - 1 : tr.path[i + 1].at - tr.path[i].at <= StaleFrames
  BY <1>3 DEF TrackOk, PathOk
<1>6. ASSUME NEW k \in 1 .. Len(tr.told) - 1
      PROVE  ~Stands(tr.path, tr.told[k].at, tr.told[k + 1].at)
  <2>1. tr.path \in Seq(Sighting) /\ tr.told \in Seq(StopEvent)
    BY <1>3 DEF TrackOk, Track
  <2>2. PICK m \in 1 .. Len(tr.path) - 1 :
          /\ tr.told[k].at <= tr.path[m].at /\ tr.path[m + 1].at <= tr.told[k + 1].at
          /\ Distance(tr.path[m].spot, tr.path[m + 1].spot) > MovePx
    BY <1>3 DEF TrackOk, ToldOk, Drove
  <2>3. /\ m \in 1 .. Len(tr.path) /\ m + 1 \in 1 .. Len(tr.path)
        /\ k \in 1 .. Len(tr.told)
    BY <2>1, PathFields, ToldFields
  <2>4. /\ tr.path[m].at \in Nat /\ tr.told[k].at \in Nat
        /\ tr.path[m].spot \in Nat /\ tr.path[m + 1].spot \in Nat
    BY <2>1, <2>3, PathFields, ToldFields
  <2>5. Distance(tr.path[m].spot, tr.path[m + 1].spot) \in Nat
    BY ONLY SMTT(30), <2>4 DEF Distance
  <2>6. ~(Distance(tr.path[m].spot, tr.path[m + 1].spot) <= MovePx) /\ tr.path[m].at >= tr.told[k].at
    BY <2>2, <2>4, <2>5
  <2>. QED
    BY <2>2, <2>6 DEF Stands
<1>. QED
  BY <1>2, <1>4, <1>5, <1>6

-----------------------------------------------------------------------------
\* What a sighting more leaves as it was.
LEMMA LongerPath ==
  ASSUME NEW p \in Seq(Sighting), NEW q \in Seq(Sighting), Len(q) = Len(p) + 1,
         \A i \in 1 .. Len(p) : q[i] = p[i]
  PROVE  /\ \A i, j \in 1 .. Len(p) : Still(p, i, j) => Still(q, i, j)
         /\ \A e : EventOk(p, e) => EventOk(q, e)
         /\ \A a, b : Drove(p, a, b) => Drove(q, a, b)
<1>1. Len(p) \in Nat /\ Len(q) \in Nat
  OBVIOUS
<1>2. ASSUME NEW i \in 1 .. Len(p), NEW j \in 1 .. Len(p), Still(p, i, j)
      PROVE  Still(q, i, j)
  <2>1. \A m \in i .. j - 1 : m \in 1 .. Len(p) /\ m + 1 \in 1 .. Len(p)
    BY <1>1
  <2>. QED
    BY <1>2, <2>1 DEF Still
<1>3. 1 .. Len(p) \subseteq 1 .. Len(q)
  BY <1>1
<1>4. ASSUME NEW e, EventOk(p, e) PROVE EventOk(q, e)
  BY <1>2, <1>3, <1>4 DEF EventOk
<1>5. ASSUME NEW a, NEW b, Drove(p, a, b) PROVE Drove(q, a, b)
  <2>1. PICK m \in 1 .. Len(p) - 1 :
          /\ a <= p[m].at /\ p[m + 1].at <= b
          /\ Distance(p[m].spot, p[m + 1].spot) > MovePx
    BY <1>5 DEF Drove
  <2>2. m \in 1 .. Len(q) - 1 /\ q[m] = p[m] /\ q[m + 1] = p[m + 1]
    BY <1>1
  <2>. QED
    BY <2>1, <2>2 DEF Drove
<1>. QED
  BY <1>2, <1>4, <1>5

LEMMA IncidentTypes == ASSUME NEW s PROVE IncidentType(s) \in {"SHOULDER_STOP", "LANE_STOP", "STOPPED_VEHICLE"}
BY DEF IncidentType

LEMMA NewTrackOk ==
  ASSUME frame \in Nat, NEW d \in Detection
  PROVE  TrackOk(NewTrack(d)) /\ NewTrack(d).last = frame
<1>. USE StopAssumption
<1>1. [at |-> frame, spot |-> d.spot] \in Sighting /\ d.spot \in Spots /\ d.class \in Classes
  BY DEF Sighting, Detection
<1>2. NewTrack(d) \in Track
  BY <1>1 DEF NewTrack, Track
<1>3. /\ NewTrack(d).path = <<[at |-> frame, spot |-> d.spot]>> /\ NewTrack(d).told = <<>>
      /\ NewTrack(d).since = 0 /\ NewTrack(d).last = frame /\ NewTrack(d).spot = d.spot
  BY DEF NewTrack
<1>4. PathOk(NewTrack(d))
  BY <1>3 DEF PathOk
<1>5. SinceOk(NewTrack(d)) /\ ToldOk(NewTrack(d))
  BY <1>3 DEF SinceOk, ToldOk
<1>. QED
  BY <1>2, <1>3, <1>4, <1>5 DEF TrackOk

LEMMA UpdatedOk ==
  ASSUME frame \in Nat, NEW tr, TrackOk(tr), NEW d \in Detection,
         tr.last < frame, frame - tr.last <= StaleFrames
  PROVE  TrackOk(Updated(tr, d)) /\ Updated(tr, d).last = frame
<1>. USE StopAssumption
<1>. DEFINE new == [at |-> frame, spot |-> d.spot]
            since == StoppedSince(tr, d)
            told == tr.emitted /\ ~Moved(tr, d)
            stops == IsStop(tr, d)
            event == [at |-> frame, type |-> IncidentType(d.spot)]
<1>1. /\ tr.class \in Classes /\ tr.spot \in Spots /\ tr.last \in Nat /\ tr.since \in Nat /\ tr.emitted \in BOOLEAN
      /\ tr.path \in Seq(Sighting) /\ tr.told \in Seq(StopEvent)
  BY DEF TrackOk, Track
<1>2. d.spot \in Spots /\ d.class \in Classes /\ new \in Sighting /\ new.at = frame /\ new.spot = d.spot
  BY DEF Detection, Sighting
<1>3. Distance(tr.spot, d.spot) \in Nat
  <2>1. tr.spot \in Nat /\ d.spot \in Nat
    BY <1>1, <1>2
  <2>. QED
    BY <2>1 DEF Distance
<1>4. since \in Nat /\ (Moved(tr, d) => since = 0) /\ (stops => since # 0 /\ since + DangerTime <= frame /\ ~Excluded(d.spot))
  BY <1>1, <1>3 DEF StoppedSince, Moved, IsStop
<1>5. /\ Updated(tr, d).class = d.class /\ Updated(tr, d).spot = d.spot /\ Updated(tr, d).last = frame
      /\ Updated(tr, d).since = since /\ Updated(tr, d).emitted = (told \/ stops)
      /\ Updated(tr, d).path = Append(tr.path, new)
      /\ Updated(tr, d).told = IF stops /\ ~told THEN Append(tr.told, event) ELSE tr.told
  BY DEF Updated
<1>6. event \in StopEvent /\ event.at = frame
  BY IncidentTypes DEF StopEvent
<1>7. Updated(tr, d) \in Track
  <2>1. Append(tr.path, new) \in Seq(Sighting) /\ Append(tr.told, event) \in Seq(StopEvent)
    BY <1>1, <1>2, <1>6
  <2>2. (told \/ stops) \in BOOLEAN
    OBVIOUS
  <2>. HIDE DEF new, since, told, stops, event
  <2>3. (IF stops /\ ~told THEN Append(tr.told, event) ELSE tr.told) \in Seq(StopEvent)
    BY <1>1, <2>1
  <2>4. Updated(tr, d) = [class |-> d.class, spot |-> d.spot, last |-> frame, since |-> since,
                          emitted |-> told \/ stops, path |-> Append(tr.path, new),
                          told |-> IF stops /\ ~told THEN Append(tr.told, event) ELSE tr.told]
    BY DEF Updated, new, since, told, stops, event
  <2>. QED
    BY <1>2, <1>4, <2>1, <2>2, <2>3, <2>4 DEF Track
<1>. DEFINE p == tr.path
            q == Append(tr.path, new)
            n == Len(tr.path)
<1>8. /\ n \in Nat /\ n > 0 /\ q \in Seq(Sighting) /\ Len(q) = n + 1 /\ q[n + 1] = new
      /\ \A i \in 1 .. n : q[i] = p[i]
  BY <1>1, <1>2 DEF TrackOk, PathOk
<1>9. /\ \A i \in 1 .. n : p[i].at \in Nat /\ p[i].at <= tr.last
      /\ p[n].at = tr.last /\ p[n].spot = tr.spot
  <2>1. \A i \in 1 .. n : p[i].at \in Nat
    BY <1>1, PathFields
  <2>2. p[n].at = tr.last /\ p[n].spot = tr.spot /\ \A i, j \in 1 .. n : i < j => p[i].at < p[j].at
    BY DEF TrackOk, PathOk
  <2>3. ASSUME NEW i \in 1 .. n PROVE p[i].at <= tr.last
    <3>1. CASE i = n
      BY <1>1, <2>2, <3>1
    <3>2. CASE i < n
      BY SMTT(30), <1>1, <1>8, <2>1, <2>2, <3>2
    <3>. QED
      BY <1>8, <3>1, <3>2
  <2>. QED
    BY <2>1, <2>2, <2>3
<1>10. /\ \A i, j \in 1 .. n : Still(p, i, j) => Still(q, i, j)
       /\ \A e : EventOk(p, e) => EventOk(q, e)
       /\ \A a, b : Drove(p, a, b) => Drove(q, a, b)
  BY <1>1, <1>8, LongerPath
<1>11. /\ \A i, j \in 1 .. n : i < j => p[i].at < p[j].at
       /\ \A i \in 1 .. n - 1 : p[i + 1].at - p[i].at <= StaleFrames
       /\ tr.since # 0 => \E i \in 1 .. n : p[i].at = tr.since /\ Still(p, i, n)
       /\ \A k \in 1 .. Len(tr.told) : EventOk(p, tr.told[k])
       /\ \A k \in 1 .. Len(tr.told) - 1 : Drove(p, tr.told[k].at, tr.told[k + 1].at)
       /\ Len(tr.told) > 0 /\ ~tr.emitted => Drove(p, tr.told[Len(tr.told)].at, tr.last)
  BY DEF TrackOk, PathOk, SinceOk, ToldOk
<1>. HIDE DEF new, since, told, stops, event, p, q, n
<1>12. PathOk(Updated(tr, d))
  <2>1. ASSUME NEW i \in 1 .. n + 1, NEW j \in 1 .. n + 1, i < j
        PROVE  q[i].at < q[j].at
    <3>1. CASE j = n + 1
      BY <1>1, <1>2, <1>8, <1>9, <2>1, <3>1
    <3>2. CASE j # n + 1
      <4>1. i \in 1 .. n /\ j \in 1 .. n
        BY <1>8, <2>1, <3>2
      <4>. QED
        BY <1>8, <1>11, <2>1, <4>1
    <3>. QED
      BY <3>1, <3>2
  <2>2. ASSUME NEW i \in 1 .. n
        PROVE  q[i + 1].at - q[i].at <= StaleFrames
    <3>1. CASE i = n
      BY <1>2, <1>8, <1>9, <3>1
    <3>2. CASE i # n
      BY <1>8, <1>11, <3>2
    <3>. QED
      BY <3>1, <3>2
  <2>3. Updated(tr, d).path = q /\ Updated(tr, d).last = frame /\ Updated(tr, d).spot = d.spot
    BY <1>5 DEF q
  <2>. QED
    BY <1>2, <1>8, <2>1, <2>2, <2>3 DEF PathOk
<1>13. ASSUME NEW i \in 1 .. n, Still(p, i, n), ~Moved(tr, d)
       PROVE  Still(q, i, n + 1)
  <2>1. Distance(q[n].spot, q[n + 1].spot) <= MovePx
    BY <1>2, <1>3, <1>8, <1>9, <1>13 DEF Moved
  <2>2. n \in 1 .. n
    BY <1>8
  <2>3. Still(q, i, n)
    BY <1>10, <1>13, <2>2
  <2>4. \A m \in i .. (n + 1) - 1 : m = n \/ m \in i .. n - 1
    BY <1>8
  <2>. QED
    BY <2>1, <2>3, <2>4 DEF Still
<1>14. since # 0 => \E i \in 1 .. n : q[i].at = since /\ Still(q, i, n + 1)
  <2>1. SUFFICES ASSUME since # 0 PROVE \E i \in 1 .. n : p[i].at = since /\ Still(p, i, n) /\ ~Moved(tr, d)
    BY <1>8, <1>13
  <2>2. ~Moved(tr, d) /\ since = IF tr.since = 0 THEN tr.last ELSE tr.since
    BY <1>3, <2>1 DEF since, StoppedSince, Moved
  <2>3. CASE tr.since = 0
    <3>1. Still(p, n, n) /\ n \in 1 .. n
      BY <1>8 DEF Still
    <3>. QED
      BY <1>9, <2>2, <2>3, <3>1
  <2>4. CASE tr.since # 0
    BY <1>11, <2>2, <2>4
  <2>. QED
    BY <2>3, <2>4
<1>15. SinceOk(Updated(tr, d))
  <2>1. Updated(tr, d).path = q /\ Updated(tr, d).since = since
    BY <1>5 DEF q
  <2>2. \A i \in 1 .. n : i \in 1 .. n + 1
    BY <1>8
  <2>. QED
    BY <1>8, <1>14, <2>1, <2>2 DEF SinceOk
<1>16. stops => EventOk(q, event)
  <2>1. SUFFICES ASSUME stops PROVE EventOk(q, event)
    OBVIOUS
  <2>2. PICK i \in 1 .. n : q[i].at = since /\ Still(q, i, n + 1)
    BY <1>4, <1>14, <2>1
  <2>3. i \in 1 .. n + 1 /\ n + 1 \in 1 .. n + 1
    BY <1>8
  <2>4. q[n + 1].at = event.at /\ q[i].at + DangerTime <= q[n + 1].at /\ ~Excluded(q[n + 1].spot)
    BY <1>2, <1>4, <1>6, <1>8, <2>1, <2>2
  <2>. QED
    BY <1>8, <2>2, <2>3, <2>4 DEF EventOk
<1>17. /\ Len(tr.told) \in Nat
       /\ \A k \in 1 .. Len(tr.told) : tr.told[k].at \in Nat /\ tr.told[k].at <= tr.last
  <2>1. Len(tr.told) \in Nat /\ \A k \in 1 .. Len(tr.told) : tr.told[k].at \in Nat
    BY <1>1, ToldFields
  <2>2. ASSUME NEW k \in 1 .. Len(tr.told) PROVE tr.told[k].at <= tr.last
    <3>1. EventOk(p, tr.told[k])
      BY <1>11
    <3>2. PICK j \in 1 .. n : p[j].at = tr.told[k].at
      BY <3>1 DEF EventOk, n, p
    <3>. QED
      BY <1>9, <3>2
  <2>. QED
    BY <2>1, <2>2
\* Since the last event it drove: before, or by this very step.
<1>18. Len(tr.told) > 0 /\ (~tr.emitted \/ Moved(tr, d)) => Drove(q, tr.told[Len(tr.told)].at, frame)
  <2>1. SUFFICES ASSUME Len(tr.told) > 0, ~tr.emitted \/ Moved(tr, d)
                 PROVE  Drove(q, tr.told[Len(tr.told)].at, frame)
    OBVIOUS
  <2>2. Len(tr.told) \in 1 .. Len(tr.told)
    BY <1>17, <2>1
  <2>3. CASE ~tr.emitted
    <3>1. Drove(q, tr.told[Len(tr.told)].at, tr.last)
      BY <1>10, <1>11, <2>1, <2>3
    <3>2. PICK m \in 1 .. Len(q) - 1 :
            /\ tr.told[Len(tr.told)].at <= q[m].at /\ q[m + 1].at <= tr.last
            /\ Distance(q[m].spot, q[m + 1].spot) > MovePx
      BY <3>1 DEF Drove
    <3>3. m + 1 \in 1 .. Len(q)
      BY <1>8
    <3>4. q[m + 1].at \in Nat
      BY <1>8, <3>3, PathFields
    <3>5. q[m + 1].at <= frame
      BY <1>1, <3>2, <3>4
    <3>. QED
      BY <3>2, <3>5 DEF Drove
  <2>4. CASE Moved(tr, d)
    <3>1. n \in 1 .. Len(q) - 1 /\ n \in 1 .. n
      BY <1>8
    <3>2. tr.told[Len(tr.told)].at <= q[n].at
      BY <1>8, <1>9, <1>17, <2>2, <3>1
    <3>3. q[n + 1].at <= frame
      BY <1>2, <1>8
    <3>4. Distance(q[n].spot, q[n + 1].spot) > MovePx
      BY <1>2, <1>8, <1>9, <2>4, <3>1 DEF Moved
    <3>. QED
      BY <3>1, <3>2, <3>3, <3>4 DEF Drove
  <2>. QED
    BY <2>1, <2>3, <2>4
<1>19. ToldOk(Updated(tr, d))
  <2>1. /\ Updated(tr, d).path = q /\ Updated(tr, d).last = frame /\ Updated(tr, d).emitted = (told \/ stops)
        /\ Updated(tr, d).told = IF stops /\ ~told THEN Append(tr.told, event) ELSE tr.told
    BY <1>5 DEF q
  <2>2. /\ \A k \in 1 .. Len(tr.told) : EventOk(q, tr.told[k])
        /\ \A k \in 1 .. Len(tr.told) - 1 : Drove(q, tr.told[k].at, tr.told[k + 1].at)
    BY <1>10, <1>11
  <2>3. CASE stops /\ ~told
    <3>1. ~tr.emitted
      BY <1>4, <2>3 DEF told
    <3>2. PICK us : us = Append(tr.told, event)
      OBVIOUS
    <3>3. /\ Len(us) = Len(tr.told) + 1 /\ us[Len(tr.told) + 1] = event
          /\ \A k \in 1 .. Len(tr.told) : us[k] = tr.told[k]
      BY <1>1, <1>6, <3>2
    <3>4. Updated(tr, d).told = us /\ Updated(tr, d).emitted = TRUE
      BY <2>1, <2>3, <3>2
    <3>5. ASSUME NEW k \in 1 .. Len(us) PROVE EventOk(q, us[k])
      BY <1>16, <1>17, <2>2, <2>3, <3>3
    <3>6. ASSUME NEW k \in 1 .. Len(us) - 1 PROVE Drove(q, us[k].at, us[k + 1].at)
      <4>1. CASE k = Len(tr.told)
        <5>1. Len(tr.told) > 0 /\ us[k] = tr.told[Len(tr.told)] /\ us[k + 1] = event
          BY <1>17, <3>3, <4>1
        <5>. QED
          BY <1>6, <1>18, <3>1, <5>1
      <4>2. CASE k # Len(tr.told)
        <5>1. k \in 1 .. Len(tr.told) - 1 /\ us[k] = tr.told[k] /\ us[k + 1] = tr.told[k + 1]
          BY <1>17, <3>3, <4>2
        <5>. QED
          BY <2>2, <5>1
      <4>. QED
        BY <4>1, <4>2
    <3>. QED
      BY <2>1, <3>4, <3>5, <3>6 DEF ToldOk
  <2>4. CASE ~(stops /\ ~told)
    <3>1. Updated(tr, d).told = tr.told
      BY <2>1, <2>4
    <3>2. ~Updated(tr, d).emitted => ~tr.emitted \/ Moved(tr, d)
      BY <2>1 DEF told
    <3>. QED
      BY <1>18, <2>1, <2>2, <3>1, <3>2 DEF ToldOk
  <2>. QED
    BY <2>3, <2>4
<1>. QED
  BY <1>5, <1>7, <1>12, <1>15, <1>19 DEF TrackOk

-----------------------------------------------------------------------------
LEMMA StopInitInv == ASSUME StopInit PROVE StopInv
BY DEF StopInit, StopInv, TrackIds

LEMMA NextFrameStep == ASSUME StopInv, NextFrame PROVE StopInv'
<1>. USE StopAssumption
<1>0. tracks' = [t \in {u \in TrackIds : frame + 1 - tracks[u].last <= StaleFrames} |-> tracks[t]]
  BY DEF NextFrame
<1>1. frame' = frame + 1 /\ matched' = {} /\ nextTrack' = nextTrack
  BY DEF NextFrame
<1>2. /\ TrackIds' = {u \in TrackIds : frame + 1 - tracks[u].last <= StaleFrames}
      /\ \A t \in TrackIds' : tracks'[t] = tracks[t]
  BY <1>0 DEF TrackIds
<1>3. ASSUME NEW t \in TrackIds'
      PROVE  /\ t \in Nat /\ t < nextTrack'
             /\ TrackOk(tracks'[t])
             /\ tracks'[t].last <= frame' /\ frame' - tracks'[t].last <= StaleFrames
             /\ tracks'[t].last < frame'
  <2>1. t \in TrackIds /\ tracks'[t] = tracks[t]
    BY <1>2
  <2>2. frame \in Nat /\ tracks[t].last <= frame /\ TrackOk(tracks[t]) /\ t \in Nat /\ t < nextTrack
    BY <2>1 DEF StopInv
  <2>3. tracks[t].last \in Nat
    BY <2>2 DEF TrackOk, Track
  <2>4. tracks[t].last <= frame + 1 /\ tracks[t].last < frame + 1
    BY <2>2, <2>3
  <2>5. frame + 1 - tracks[t].last <= StaleFrames
    BY <1>2
  <2>6. /\ tracks'[t].last <= frame' /\ frame' - tracks'[t].last <= StaleFrames
        /\ tracks'[t].last < frame'
    BY <1>1, <2>1, <2>2, <2>3, <2>4, <2>5
  <2>7. t < nextTrack' /\ TrackOk(tracks'[t])
    BY <1>1, <2>1, <2>2
  <2>. QED
    BY <2>2, <2>6, <2>7
<1>4. frame' \in Nat /\ nextTrack' \in Nat
  BY <1>1 DEF StopInv
<1>. QED
  BY <1>3, <1>4 DEF StopInv, TrackOk, PathOk, SinceOk, ToldOk

\* A detection goes to a track that no other detection of the frame has, or to a new one.
LEMMA MatchedFacts ==
  ASSUME StopInv, NEW d \in Detection, NEW t \in MatchTrack(d)
  PROVE  t \in Nat /\ t \notin (matched \cap TrackIds)
<1>. USE StopAssumption
<1>1. CASE t \in BySource(d)
  BY <1>1 DEF BySource, Detection
<1>2. CASE t \in Near(d)
  BY <1>2 DEF Near, StopInv
<1>3. CASE t = nextTrack
  BY <1>3 DEF StopInv
<1>4. t \in BySource(d) \/ t \in Near(d) \/ t = nextTrack
  BY DEF MatchTrack, Nearest
<1>. QED
  BY <1>1, <1>2, <1>3, <1>4

LEMMA DetectStep == ASSUME StopInv, Detect PROVE StopInv'
<1>. USE StopAssumption
<1>1. PICK s \in Spots, c \in Classes, x \in Sources \cup {0}, sure \in BOOLEAN :
        LET d == [spot |-> s, class |-> c, source |-> x, sure |-> sure] IN
        \E t \in MatchTrack(d) :
          /\ tracks' = [u \in TrackIds \cup {t} |->
               IF u # t THEN tracks[u] ELSE IF t \in TrackIds THEN Updated(tracks[t], d) ELSE NewTrack(d)]
          /\ nextTrack' = IF t >= nextTrack THEN t + 1 ELSE nextTrack
          /\ matched' = matched \cup {t}
  BY DEF Detect
<1>2. PICK d : d = [spot |-> s, class |-> c, source |-> x, sure |-> sure]
  OBVIOUS
<1>3. d \in Detection
  BY <1>2 DEF Detection
<1>4. PICK t \in MatchTrack(d) :
          /\ tracks' = [u \in TrackIds \cup {t} |->
               IF u # t THEN tracks[u] ELSE IF t \in TrackIds THEN Updated(tracks[t], d) ELSE NewTrack(d)]
          /\ nextTrack' = IF t >= nextTrack THEN t + 1 ELSE nextTrack
          /\ matched' = matched \cup {t}
  BY <1>1, <1>2
<1>5. frame' = frame /\ frame \in Nat /\ nextTrack \in Nat
  BY DEF Detect, StopInv
<1>6. t \in Nat /\ t \notin (matched \cap TrackIds)
  BY <1>3, MatchedFacts
<1>7. nextTrack' \in Nat /\ t < nextTrack' /\ nextTrack <= nextTrack'
  BY <1>4, <1>5, <1>6
<1>8. /\ TrackIds' = TrackIds \cup {t}
      /\ tracks'[t] = IF t \in TrackIds THEN Updated(tracks[t], d) ELSE NewTrack(d)
      /\ \A u \in TrackIds \ {t} : tracks'[u] = tracks[u]
  BY <1>4 DEF TrackIds
<1>9. TrackOk(tracks'[t]) /\ tracks'[t].last = frame
  <2>1. CASE t \in TrackIds
    <3>1. TrackOk(tracks[t]) /\ tracks[t].last < frame /\ frame - tracks[t].last <= StaleFrames
      BY <1>6, <2>1 DEF StopInv
    <3>. QED
      BY <1>3, <1>5, <1>8, <2>1, <3>1, UpdatedOk
  <2>2. CASE t \notin TrackIds
    BY <1>3, <1>5, <1>8, <2>2, NewTrackOk
  <2>. QED
    BY <2>1, <2>2
<1>10. ASSUME NEW u \in TrackIds'
       PROVE  /\ u \in Nat /\ u < nextTrack'
              /\ TrackOk(tracks'[u])
              /\ tracks'[u].last <= frame' /\ frame' - tracks'[u].last <= StaleFrames
              /\ u \notin matched' => tracks'[u].last < frame'
  <2>1. CASE u = t
    BY <1>4, <1>5, <1>6, <1>7, <1>9, <2>1
  <2>2. CASE u # t
    <3>1. u \in TrackIds /\ tracks'[u] = tracks[u]
      BY <1>8, <2>2
    <3>2. /\ u \in Nat /\ u < nextTrack /\ TrackOk(tracks[u])
          /\ tracks[u].last <= frame /\ frame - tracks[u].last <= StaleFrames
          /\ u \notin matched => tracks[u].last < frame
      BY <3>1 DEF StopInv
    <3>3. u < nextTrack'
      BY <1>5, <1>7, <3>2
    <3>. QED
      BY <1>4, <1>5, <3>1, <3>2, <3>3
  <2>. QED
    BY <2>1, <2>2
<1>. QED
  BY <1>5, <1>7, <1>10 DEF StopInv, TrackOk, PathOk, SinceOk, ToldOk

LEMMA StopInvStays == ASSUME StopInv, [StopNext]_stopVars PROVE StopInv'
<1>1. ASSUME UNCHANGED stopVars PROVE StopInv'
  BY <1>1 DEF stopVars, StopInv, TrackIds
<1>. QED
  BY <1>1, NextFrameStep, DetectStep DEF StopNext

\* For any video and any spots, regions, times and detections: each event of the stop
\* analyzer is of a track seen standing long enough in no excluded region, and between
\* two events of a track it moved (report_stop_analyzer.py).
THEOREM OneEvent == StopSpec => []OneEventPerStop
<1>. QED
  BY StopInitInv, StopInvStays, StopInvSafe, PTL DEF StopSpec

=============================================================================

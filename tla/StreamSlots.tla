------------------------------ MODULE StreamSlots ------------------------------
(***************************************************************************)
(* The slots of MJPEG viewers (ai-vm/app/stream_server.py and              *)
(* camera_mjpeg_stream in main.py).                                        *)
(*                                                                         *)
(* A viewer claims a slot under one lock if neither the total nor the      *)
(* camera's counter is at its limit.  The slot is released from up to      *)
(* three places - the generator's finally, the response's finally and the  *)
(* request's cleanup stack, or the endpoint's except - in any order; only  *)
(* the first one counts.                                                   *)
(*                                                                         *)
(* A client has at most one request at a time.  A camera may start and     *)
(* stop running at any time (CameraPipeline).                              *)
(***************************************************************************)
EXTENDS Integers, FiniteSets

CONSTANTS
  Clients,       \* connections
  Cameras,
  MaxTotal,      \* MJPEG_MAX_TOTAL_CLIENTS, 0 for no limit
  MaxPerCamera   \* MJPEG_MAX_CLIENTS_PER_CAMERA, 0 for no limit

ASSUME SlotsAssumption ==
  /\ MaxTotal \in Nat
  /\ MaxPerCamera \in Nat
  /\ IsFiniteSet(Clients)
  /\ "outside" \notin Cameras

NoCamera == "outside"

\* The places that release a slot: the endpoint failed to make a response; or a
\* response was made, its generator having started or not; the cleanup stack
\* may be missing from the request.
Releases == {"generator", "response", "cleanup", "endpoint"}
ReleasePaths ==
  { {"endpoint"}, {"endpoint", "cleanup"},
    {"response"}, {"response", "cleanup"},
    {"generator", "response"}, {"generator", "response", "cleanup"} }

VARIABLES
  running,   \* the cameras with a running worker
  total,     \* _stream_total_clients
  byCamera,  \* _stream_clients_by_camera
  slot,      \* the camera of each client's slot, NoCamera if it has none
  released,  \* whether the slot's _released is set
  calls,     \* the releases of each slot still to come
  phase      \* each client's request: "none", "open" or "closing"

slotVars == <<total, byCamera, slot, released, calls, phase>>
streamVars == <<running, slotVars>>

StreamInit ==
  /\ running = {}
  /\ total = 0
  /\ byCamera = [k \in Cameras |-> 0]
  /\ slot = [c \in Clients |-> NoCamera]
  /\ released = [c \in Clients |-> FALSE]
  /\ calls = [c \in Clients |-> {}]
  /\ phase = [c \in Clients |-> "none"]

\* A camera worker starts or ends.
CameraStarts(k) == k \notin running /\ running' = running \cup {k} /\ UNCHANGED slotVars
CameraEnds(k) == k \in running /\ running' = running \ {k} /\ UNCHANGED slotVars

\* Mutant: the limit of the camera is compared after the fact.
RoomForOneMore(k) ==
  /\ MaxTotal > 0 => total < MaxTotal
  /\ MaxPerCamera > 0 => byCamera[k] <= MaxPerCamera

\* claim_stream_slot, under the lock.
RoomFor(k) ==
  /\ MaxTotal > 0 => total < MaxTotal
  /\ MaxPerCamera > 0 => byCamera[k] < MaxPerCamera

\* GET /streams/<camera>.mjpeg: 404 if the camera does not run, 429 without room.
Claim(c, k, paths) ==
  /\ phase[c] = "none"
  /\ k \in running
  /\ RoomFor(k)
  /\ total' = total + 1
  /\ byCamera' = [byCamera EXCEPT ![k] = @ + 1]
  /\ slot' = [slot EXCEPT ![c] = k]
  /\ released' = [released EXCEPT ![c] = FALSE]
  /\ calls' = [calls EXCEPT ![c] = paths]
  /\ phase' = [phase EXCEPT ![c] = IF "endpoint" \in paths THEN "closing" ELSE "open"]
  /\ UNCHANGED running

\* The client goes away, or the generator finds the worker not running.
EndStream(c) ==
  /\ phase[c] = "open"
  /\ phase' = [phase EXCEPT ![c] = "closing"]
  /\ UNCHANGED <<running, total, byCamera, slot, released, calls>>

\* Mutant: every call counts.
GiveBackAlways(c) ==
  /\ total' = IF total > 0 THEN total - 1 ELSE 0
  /\ byCamera' = [byCamera EXCEPT ![slot[c]] = IF @ > 1 THEN @ - 1 ELSE 0]
  /\ released' = [released EXCEPT ![c] = TRUE]

\* StreamSlot.release, under the lock.
GiveBack(c) ==
  IF released[c]
    THEN UNCHANGED <<total, byCamera, released>>
    ELSE /\ total' = IF total > 0 THEN total - 1 ELSE 0
         /\ byCamera' = [byCamera EXCEPT ![slot[c]] = IF @ > 1 THEN @ - 1 ELSE 0]
         /\ released' = [released EXCEPT ![c] = TRUE]

\* Mutant: only the generator gives the slot back.
GeneratorOnly(c, p) ==
  /\ phase[c] = "closing"
  /\ p \in calls[c]
  /\ IF p = "generator" THEN GiveBack(c) ELSE UNCHANGED <<total, byCamera, released>>
  /\ calls' = [calls EXCEPT ![c] = @ \ {p}]
  /\ UNCHANGED <<running, phase, slot>>

\* One of the calls is made; with the last one the request is over.
Release(c, p) ==
  /\ phase[c] = "closing"
  /\ p \in calls[c]
  /\ GiveBack(c)
  /\ calls' = [calls EXCEPT ![c] = @ \ {p}]
  /\ IF calls[c] = {p}
       THEN /\ phase' = [phase EXCEPT ![c] = "none"]
            /\ slot' = [slot EXCEPT ![c] = NoCamera]
       ELSE UNCHANGED <<phase, slot>>
  /\ UNCHANGED running

Close(c) == EndStream(c) \/ \E p \in Releases : Release(c, p)

StreamNext ==
  \/ \E k \in Cameras : CameraStarts(k) \/ CameraEnds(k)
  \/ \E c \in Clients :
       \/ \E k \in Cameras, paths \in ReleasePaths : Claim(c, k, paths)
       \/ Close(c)

\* A stream whose camera no longer runs ends (the generator looks between two
\* images), and the calls that end a request are made.
StreamFairness ==
  \A c \in Clients :
    /\ WF_streamVars(slot[c] \notin running /\ EndStream(c))
    /\ WF_streamVars(\E p \in Releases : Release(c, p))

StreamSpec == StreamInit /\ [][StreamNext]_streamVars /\ StreamFairness

-----------------------------------------------------------------------------
Holding(c) == slot[c] # NoCamera /\ ~released[c]
HoldersOf(k) == {c \in Clients : Holding(c) /\ slot[c] = k}

StreamTypeOK ==
  /\ running \subseteq Cameras
  /\ total \in Nat
  /\ byCamera \in [Cameras -> Nat]
  /\ slot \in [Clients -> Cameras \cup {NoCamera}]
  /\ released \in [Clients -> BOOLEAN]
  /\ calls \in [Clients -> SUBSET Releases]
  /\ phase \in [Clients -> {"none", "open", "closing"}]

\* The counters that admit viewers count the slots that are held, however many
\* of the calls to release each of them have been made (StreamSlot.release).
CountersMatchSlots ==
  /\ total = Cardinality({c \in Clients : Holding(c)})
  /\ \A k \in Cameras : byCamera[k] = Cardinality(HoldersOf(k))

\* The counters and the releases implement a pool that admits within its limits
\* and gets back what it gave, once.
Pool == INSTANCE Admission WITH
  Holders <- Clients,
  Groups <- Cameras,
  MaxPerGroup <- MaxPerCamera,
  place <- [c \in Clients |-> IF Holding(c) THEN slot[c] ELSE NoCamera]
ImplementsPool == Pool!AdmissionSpec

\* The slot of a viewer whose camera has stopped comes back, unless the camera
\* runs again: no place is lost to a camera that is gone (mjpeg_generator,
\* StreamSlotStreamingResponse).
SlotsComeBack ==
  \A c \in Clients :
    Holding(c) /\ slot[c] \notin running ~> ~Holding(c) \/ slot[c] \in running
=============================================================================

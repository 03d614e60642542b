------------------------------- MODULE MCEvents -------------------------------
(* A small instance of the way of an event: the camera's clips, the relay  *)
(* to the backend, and the incident's status.  They meet in one value only *)
(* (the event that leaves EventClips is what SendEvent of EventRelay posts; *)
(* the incident EventRelay makes is the one IncidentStatus begins with), so *)
(* a behaviour follows one part and the others stay at rest.               *)
EXTENDS EventClips, EventRelay, IncidentStatus

CONSTANTS long1, long2
\* Two events whose ids agree in their first 50 characters.
CodeOf == [e \in {long1, long2} |-> "long"]

VARIABLE part

eventVars == <<clipVars, relayVars, statusVars, part>>

EventInit ==
  /\ ClipInit /\ RelayInit /\ StatusInit
  /\ part \in {"clips", "relay", "status"}

EventNext ==
  /\ UNCHANGED part
  /\ \/ part = "clips" /\ ClipNext /\ UNCHANGED <<relayVars, statusVars>>
     \/ part = "relay" /\ RelayNext /\ UNCHANGED <<clipVars, statusVars>>
     \/ part = "status" /\ StatusNext /\ UNCHANGED <<clipVars, relayVars>>

ClipsRun == part = "clips" => ClipFairness
EventSpec == EventInit /\ [][EventNext]_eventVars /\ ClipsRun
=============================================================================

------------------------------ MODULE MCAiServer ------------------------------
(* A small instance of the four parts of the AI server that serve cameras  *)
(* and uploads.  They share nothing: LatestImage is what CameraPipeline    *)
(* leaves out, StreamSlots takes a camera's running as an input that may   *)
(* change at any time, and ReportDetection uses no camera.  So a behaviour *)
(* follows one of them, chosen at the start, and the others stay at rest.  *)
EXTENDS CameraPipeline, LatestImage, StreamSlots, ReportDetection

VARIABLE part

serverVars == <<vars, imageVars, streamVars, detectVars, part>>

ServerInit ==
  /\ Init /\ ImageInit /\ StreamInit /\ DetectInit
  /\ part \in {"pipeline", "image", "streams", "detection"}

ServerNext ==
  /\ UNCHANGED part
  /\ \/ part = "pipeline" /\ Next /\ UNCHANGED <<imageVars, streamVars, detectVars>>
     \/ part = "image" /\ ImageNext /\ UNCHANGED <<vars, streamVars, detectVars>>
     \/ part = "streams" /\ StreamNext /\ UNCHANGED <<vars, imageVars, detectVars>>
     \/ part = "detection" /\ DetectNext /\ UNCHANGED <<vars, imageVars, streamVars>>

ServerSpec == ServerInit /\ [][ServerNext]_serverVars /\ Fairness /\ StreamFairness
=============================================================================

-------------------------- MODULE AnalysisPromise ---------------------------
(***************************************************************************)
(* What the analysis of a report promises its callers, without sessions,   *)
(* snapshots or processes: every check and the write it guards are one     *)
(* step.  ReportAnalysis implements it when requests do not overlap.       *)
(***************************************************************************)
EXTENDS Integers

CONSTANTS Attachments, NoAttachment, MaxJobs

VARIABLES att, status, jobAtt, incidents

promised == <<att, status, jobAtt, incidents>>

Rows == 1 .. MaxJobs
Pending == {"QUEUED", "PROCESSING"}
Busy(a) == \E j \in Rows : jobAtt[j] = a /\ status[j] \in Pending

Init ==
  /\ att \in [Attachments -> {"none", "live"}]
  /\ status = [j \in Rows |-> "NONE"]
  /\ jobAtt = [j \in Rows |-> NoAttachment]
  /\ incidents = [j \in Rows |-> 0]

\* New rows N for live attachments that have no pending job, one each.
Submit(N) ==
  /\ N # {}
  /\ \A j \in N : status[j] = "NONE"
  /\ status' = [j \in Rows |-> IF j \in N THEN "QUEUED" ELSE status[j]]
  /\ \A j \in Rows \ N : jobAtt'[j] = jobAtt[j]
  /\ jobAtt' \in [Rows -> Attachments \cup {NoAttachment}]
  /\ \A j \in N : jobAtt'[j] \in Attachments /\ att[jobAtt'[j]] = "live" /\ ~Busy(jobAtt'[j])
  /\ \A j, k \in N : jobAtt'[j] = jobAtt'[k] => j = k
  /\ UNCHANGED <<att, incidents>>

Start(j) ==
  /\ status[j] = "QUEUED"
  /\ status' = [status EXCEPT ![j] = "PROCESSING"]
  /\ UNCHANGED <<att, jobAtt, incidents>>

\* The outcome; only a completed job may report an incident, its first.
Finish(j) ==
  /\ status[j] = "PROCESSING"
  /\ \/ /\ \E s \in {"QUEUED", "FAILED", "COMPLETED"} : status' = [status EXCEPT ![j] = s]
        /\ UNCHANGED incidents
     \/ /\ status' = [status EXCEPT ![j] = "COMPLETED"]
        /\ incidents[j] = 0
        /\ incidents' = [incidents EXCEPT ![j] = 1]
  /\ UNCHANGED <<att, jobAtt>>

Attach(a) ==
  /\ att[a] = "none"
  /\ att' = [att EXCEPT ![a] = "live"]
  /\ UNCHANGED <<status, jobAtt, incidents>>

Drop(a) ==
  /\ att[a] = "live"
  /\ ~Busy(a)
  /\ att' = [att EXCEPT ![a] = "deleted"]
  /\ UNCHANGED <<status, jobAtt, incidents>>

Next ==
  \/ \E N \in SUBSET Rows : Submit(N)
  \/ \E j \in Rows : Start(j) \/ Finish(j)
  \/ \E a \in Attachments : Attach(a) \/ Drop(a)

Spec == Init /\ [][Next]_promised
=============================================================================

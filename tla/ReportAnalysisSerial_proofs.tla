--------------------- MODULE ReportAnalysisSerial_proofs ---------------------
(***************************************************************************)
(* When requests do not overlap, one worker runs and nobody retries        *)
(* (Serial), the promise of the analysis is kept, whatever the attachments *)
(* and the bounds, and however often processes are killed.                 *)
(***************************************************************************)
EXTENDS ReportAnalysis_proofs

\* What the only web thread decided still holds when it commits.
DecisionStands ==
  \A h \in Handlers :
    /\ pc[h] \in {"idle", "insert", "attach", "dropAttachment", "dropReport", "setStatus"}
    /\ pc[h] \in {"insert", "dropAttachment"} =>
         \A a \in arg[h] : a \in Live /\ ActiveJobs(a) = {}
    /\ pc[h] = "dropAttachment" => \E a \in Attachments : arg[h] = {a}

\* What the only worker loaded is not stale where it matters.
WorkerUpToDate ==
  \A w \in Workers :
    /\ pc[w] = "next" => \A j \in todo[w] : view[w][j] = "QUEUED" => status[j] = "QUEUED"
    /\ pc[w] \in {"claimed", "called"} => status[cur[w]] = "PROCESSING"
    /\ pc[w] = "called" => view[w][cur[w]] = "PROCESSING"

\* Rows exist in the order of their ids, and an incident belongs to a result.
RowsInOrder ==
  \A j \in Jobs :
    /\ status[j] \notin {"RUNNING", "STARTED"}
    /\ j > last => status[j] = "NONE"
    /\ incidents[j] \in {0, 1}
    /\ incidents[j] = 1 => status[j] = "COMPLETED"

SerialInv ==
  DecisionStands /\ WorkerUpToDate /\ RowsInOrder /\ NoDuplicateActiveJob /\ DeletedNotAnalysed

\* A step that changes no row of the database, nor what the worker loaded.
LEMMA SerialRowsUnchanged ==
  ASSUME SerialInv, UNCHANGED rows
  PROVE  (RowsInOrder /\ NoDuplicateActiveJob /\ DeletedNotAnalysed)'
  BY DEF SerialInv, rows, RowsInOrder, NoDuplicateActiveJob, DeletedNotAnalysed, Live

\* A step of the handler leaves the worker be, and conversely.
LEMMA SerialWorkerApart ==
  ASSUME WorkerUpToDate, NEW h \in Handlers, TypeOK,
         \A q \in Actors \ {h} : pc'[q] = pc[q] /\ cur'[q] = cur[q] /\ view'[q] = view[q]
                                 /\ todo'[q] = todo[q],
         \A j \in Jobs : status[j] # "NONE" => status'[j] = status[j]
  PROVE  WorkerUpToDate'
<1>. SUFFICES ASSUME NEW w \in Workers
              PROVE  /\ pc'[w] = "next" => \A j \in todo'[w] : view'[w][j] = "QUEUED" => status'[j] = "QUEUED"
                     /\ pc'[w] \in {"claimed", "called"} => status'[cur'[w]] = "PROCESSING"
                     /\ pc'[w] = "called" => view'[w][cur'[w]] = "PROCESSING"
  BY DEF WorkerUpToDate
<1>1. pc'[w] = pc[w] /\ cur'[w] = cur[w] /\ view'[w] = view[w] /\ todo'[w] = todo[w]
  BY ActorTypes, ConstantsAssumption
<1>2. todo[w] \subseteq Jobs /\ (pc[w] \in {"claimed", "called"} => cur[w] \in Jobs)
  BY ActorTypes DEF TypeOK
<1>3. \A j \in Jobs : status[j] \in {"QUEUED", "PROCESSING"} => status'[j] = status[j]
  OBVIOUS
<1>. QED
  BY <1>1, <1>2, <1>3 DEF WorkerUpToDate

LEMMA SerialHandlerApart ==
  ASSUME DecisionStands, NEW w \in Workers, TypeOK,
         \A q \in Actors \ {w} : pc'[q] = pc[q] /\ arg'[q] = arg[q],
         UNCHANGED <<att, jobAtt>>,
         \A j \in Jobs : status'[j] \in Active => status[j] \in Active
  PROVE  DecisionStands'
<1>1. \A h \in Handlers : pc'[h] = pc[h] /\ arg'[h] = arg[h]
  BY ActorTypes, ConstantsAssumption
<1>2. Live' = Live
  BY DEF Live
<1>3. \A a : ActiveJobs(a)' \subseteq ActiveJobs(a)
  BY DEF ActiveJobs
<1>. QED
  BY <1>1, <1>2, <1>3 DEF DecisionStands

\* Ending a request: what holds of an idle actor holds of it.
LEMMA LeaveIdle ==
  ASSUME TypeOK, NEW p \in Actors, Leave(p)
  PROVE  /\ pc'[p] = "idle"
         /\ \A q \in Actors \ {p} : /\ pc'[q] = pc[q] /\ cur'[q] = cur[q] /\ todo'[q] = todo[q]
                                    /\ view'[q] = view[q] /\ arg'[q] = arg[q]
  BY DEF Leave, TypeOK

LEMMA SerialInit == Init => SerialInv
<1>. SUFFICES ASSUME Init PROVE SerialInv
  OBVIOUS
<1>1. \A j \in Jobs : status[j] = "NONE" /\ incidents[j] = 0
  BY DEF Init, Unread
<1>2. \A p \in Actors : pc[p] = "idle"
  BY DEF Init
<1>. QED
  BY <1>1, <1>2, ActorTypes
  DEF SerialInv, DecisionStands, WorkerUpToDate, RowsInOrder, NoDuplicateActiveJob,
      DeletedNotAnalysed, Active

\* A request that reads: only the handler moves, and it decided on what is so now.
LEMMA SerialRead ==
  ASSUME Serial, TypeOK, SerialInv, NEW h \in Handlers, HandlerRead(h)
  PROVE  SerialInv'
<1>. USE ActorTypes, ConstantsAssumption
<1>1. UNCHANGED rows
  BY DEF HandlerRead, AnalyzeRead, AttachRead, DropReportRead, RetryRead,
         DropAttachmentRead, SetStatusRead
<1>2. \A q \in Actors \ {h} : /\ pc'[q] = pc[q] /\ cur'[q] = cur[q] /\ todo'[q] = todo[q]
                              /\ view'[q] = view[q]
  <2>1. \E label : pc' = [pc EXCEPT ![h] = label]
    BY DEF HandlerRead, AnalyzeRead, AttachRead, DropReportRead, RetryRead,
           DropAttachmentRead, SetStatusRead, Goto
  <2>2. cur' = cur /\ todo' = todo /\ view' = view
    BY DEF HandlerRead, AnalyzeRead, AttachRead, DropReportRead, RetryRead,
           DropAttachmentRead, SetStatusRead, local, Serial
  <2>. QED
    BY <2>1, <2>2 DEF TypeOK
<1>3. /\ pc'[h] \in {"insert", "attach", "dropAttachment", "dropReport", "setStatus"}
      /\ pc'[h] \in {"insert", "dropAttachment"} =>
           \A a \in arg'[h] : a \in Live /\ ActiveJobs(a) = {}
      /\ pc'[h] = "dropAttachment" => \E a \in Attachments : arg'[h] = {a}
  <2>1. CASE AnalyzeRead(h)
    BY <2>1 DEF AnalyzeRead, Goto, TypeOK, NeedsJob
  <2>2. CASE AttachRead(h) \/ DropReportRead(h)
    BY <2>2 DEF AttachRead, DropReportRead, Goto, TypeOK
  <2>3. ASSUME NEW j \in Jobs, RetryRead(h, j) PROVE FALSE
    BY <2>3 DEF RetryRead, Serial
  <2>4. ASSUME NEW a \in Attachments, DropAttachmentRead(h, a)
        PROVE  pc'[h] = "dropAttachment" /\ arg'[h] = {a} /\ a \in Live /\ ActiveJobs(a) = {}
    BY <2>4 DEF DropAttachmentRead, Goto, TypeOK, MayDrop
  <2>5. ASSUME NEW s \in ReportStatus, SetStatusRead(h, s) PROVE pc'[h] = "setStatus"
    BY <2>5 DEF SetStatusRead, Goto, TypeOK
  <2>. QED
    BY <2>1, <2>2, <2>3, <2>4, <2>5 DEF HandlerRead
<1>4. \A a : ActiveJobs(a)' = ActiveJobs(a) /\ Live' = Live
  BY <1>1 DEF ActiveJobs, Live, rows
<1>5. DecisionStands'
  BY <1>3, <1>4 DEF DecisionStands, Serial
<1>6. WorkerUpToDate'
  BY <1>1, <1>2, SerialWorkerApart DEF SerialInv, rows
<1>. QED
  BY <1>1, <1>5, <1>6, SerialRowsUnchanged DEF SerialInv

\* The INSERT: nobody gave these attachments a job, or deleted them, meanwhile.
LEMMA SerialInsert ==
  ASSUME Serial, TypeOK, SerialInv, NEW h \in Handlers, AnalyzeInsert(h)
  PROVE  SerialInv'
<1>. USE ActorTypes, ConstantsAssumption
<1>. DEFINE new == last + 1 .. last + Cardinality(arg[h])
<1>1. Cardinality(arg[h]) \in Nat /\ last \in Nat /\ last + Cardinality(arg[h]) <= MaxJobs
  BY ArgCardinality DEF AnalyzeInsert, TypeOK
<1>2. /\ new \subseteq Jobs
      /\ \A j \in new : j > last
      /\ \A j \in Jobs \ new : j > last' => j > last
  BY <1>1 DEF AnalyzeInsert, Jobs
<1>3. /\ \A j \in Jobs : status'[j] = IF j \in new THEN "QUEUED" ELSE status[j]
      /\ \A j \in Jobs \ new : jobAtt'[j] = jobAtt[j]
      /\ \A j \in new : jobAtt'[j] \in arg[h]
      /\ \A j, k \in new : jobAtt'[j] = jobAtt'[k] => j = k
      /\ last' = last + Cardinality(arg[h])
      /\ att' = att /\ incidents' = incidents /\ Leave(h)
  BY <1>2 DEF AnalyzeInsert
<1>4. \A j \in new : status[j] = "NONE"
  BY <1>2 DEF SerialInv, RowsInOrder
<1>5. \A a \in arg[h] : a \in Live /\ ActiveJobs(a) = {}
  BY DEF SerialInv, DecisionStands, AnalyzeInsert
<1>6. DecisionStands'
  BY <1>3, LeaveIdle DEF DecisionStands, Serial
<1>7. WorkerUpToDate'
  BY <1>3, <1>4, LeaveIdle, SerialWorkerApart DEF SerialInv
<1>8. RowsInOrder'
  <2>1. \A j \in new : j <= last'
    BY <1>1, <1>3
  <2>2. \A j \in new : status'[j] = "QUEUED" /\ incidents'[j] = 0
    BY <1>2, <1>3, <1>4 DEF SerialInv, RowsInOrder
  <2>3. \A j \in Jobs : j > last' => j > last
    BY <1>1, <1>3 DEF Jobs
  <2>. QED
    BY <1>2, <1>3, <2>1, <2>2, <2>3 DEF SerialInv, RowsInOrder, Jobs
<1>9. NoDuplicateActiveJob'
  <2>1. SUFFICES ASSUME NEW j \in Jobs, NEW k \in Jobs, status'[j] \in Active,
                        status'[k] \in Active, jobAtt'[j] = jobAtt'[k]
                 PROVE  j = k
    BY DEF NoDuplicateActiveJob
  <2>2. \A i \in Jobs \ new : status'[i] \in Active => jobAtt'[i] \notin arg[h]
    BY <1>3, <1>5 DEF ActiveJobs
  <2>. QED
    BY <1>3, <2>1, <2>2 DEF SerialInv, NoDuplicateActiveJob
<1>10. DeletedNotAnalysed'
  BY <1>2, <1>3, <1>5 DEF SerialInv, DeletedNotAnalysed, Live
<1>. QED
  BY <1>6, <1>7, <1>8, <1>9, <1>10 DEF SerialInv

\* The other commits of the web thread.
LEMMA SerialWrite ==
  ASSUME Serial, TypeOK, SerialInv, NEW h \in Handlers,
         AttachInsert(h) \/ DropAttachmentCommit(h) \/ DropReportCommit(h) \/ SetStatusCommit(h)
  PROVE  SerialInv'
<1>. USE ActorTypes, ConstantsAssumption
<1>1. Leave(h) /\ UNCHANGED <<last, status, jobAtt, incidents>>
  BY DEF AttachInsert, DropAttachmentCommit, DropReportCommit, SetStatusCommit
<1>2. \A a \in Live : a \in Live' \/ ActiveJobs(a) = {}
  <2>1. CASE DropAttachmentCommit(h)
    BY <2>1 DEF DropAttachmentCommit, SerialInv, DecisionStands, Live
  <2>2. CASE AttachInsert(h)
    BY <2>2 DEF AttachInsert, Live, TypeOK
  <2>3. CASE DropReportCommit(h) \/ SetStatusCommit(h)
    BY <2>3 DEF DropReportCommit, SetStatusCommit, Live
  <2>. QED
    BY <2>1, <2>2, <2>3
<1>3. DecisionStands'
  BY <1>1, LeaveIdle DEF DecisionStands, Serial
<1>4. WorkerUpToDate'
  BY <1>1, LeaveIdle, SerialWorkerApart DEF SerialInv
<1>5. RowsInOrder' /\ NoDuplicateActiveJob'
  BY <1>1 DEF SerialInv, RowsInOrder, NoDuplicateActiveJob
<1>6. DeletedNotAnalysed'
  BY <1>1, <1>2 DEF SerialInv, DeletedNotAnalysed, ActiveJobs
<1>. QED
  BY <1>3, <1>4, <1>5, <1>6 DEF SerialInv

\* The worker lists or loads again: what it sees is what is stored.
LEMMA SerialLoad ==
  ASSUME Serial, TypeOK, SerialInv, NEW w \in Workers,
         WorkerList(w) \/ WorkerReported(w) \/ WorkerExit(w) \/ \E j \in Jobs : WorkerSkip(w, j)
  PROVE  SerialInv'
<1>. USE ActorTypes, ConstantsAssumption
<1>1. UNCHANGED rows /\ \A q \in Actors \ {w} : pc'[q] = pc[q] /\ arg'[q] = arg[q]
  BY LeaveIdle DEF WorkerList, WorkerReported, WorkerExit, WorkerSkip, Goto, TypeOK
<1>2. DecisionStands'
  BY <1>1, SerialHandlerApart DEF SerialInv, rows
<1>3. /\ pc'[w] \notin {"claimed", "called"}
      /\ pc'[w] = "next" => \A j \in todo'[w] : view'[w][j] = "QUEUED" => status[j] = "QUEUED"
  <2>1. CASE WorkerList(w)
    BY <2>1 DEF WorkerList, Goto, TypeOK, Look, Oldest
  <2>2. CASE WorkerReported(w)
    BY <2>2 DEF WorkerReported, Goto, TypeOK, Look
  <2>3. CASE WorkerExit(w)
    BY <2>3, LeaveIdle DEF WorkerExit
  <2>4. ASSUME NEW j \in Jobs, WorkerSkip(w, j)
        PROVE  pc' = pc /\ view' = view /\ todo'[w] \subseteq todo[w] /\ pc[w] = "next"
    BY <2>4 DEF WorkerSkip, TypeOK
  <2>. QED
    BY <2>1, <2>2, <2>3, <2>4 DEF SerialInv, WorkerUpToDate
<1>4. WorkerUpToDate'
  BY <1>1, <1>3 DEF WorkerUpToDate, Serial, rows
<1>. QED
  BY <1>1, <1>2, <1>4, SerialRowsUnchanged DEF SerialInv

\* One job of those in the list, in progress from now on.
LEMMA SerialClaim ==
  ASSUME Serial, TypeOK, SerialInv, NEW w \in Workers, NEW j \in Jobs, WorkerClaim(w, j)
  PROVE  SerialInv' /\ status[j] = "QUEUED" /\ status' = [status EXCEPT ![j] = "PROCESSING"]
<1>. USE ActorTypes, ConstantsAssumption
<1>1. status[j] = "QUEUED" /\ view[w][j] = "QUEUED"
  BY DEF WorkerClaim, MayProcess, IsHead, SerialInv, WorkerUpToDate
<1>2. status' = [status EXCEPT ![j] = "PROCESSING"]
  BY <1>1 DEF WorkerClaim, Flush
<1>3. /\ \A q \in Actors \ {w} : pc'[q] = pc[q] /\ arg'[q] = arg[q]
      /\ pc'[w] = "claimed" /\ cur'[w] = j
      /\ UNCHANGED <<att, last, jobAtt, incidents>>
  BY DEF WorkerClaim, Goto, TypeOK
<1>4. \A k \in Jobs : status'[k] \in Active <=> status[k] \in Active
  BY <1>1, <1>2 DEF Active, TypeOK
<1>5. DecisionStands'
  BY <1>3, <1>4, SerialHandlerApart DEF SerialInv
<1>6. WorkerUpToDate'
  BY <1>2, <1>3 DEF WorkerUpToDate, Serial, TypeOK
<1>7. RowsInOrder'
  BY <1>1, <1>2, <1>3 DEF SerialInv, RowsInOrder, TypeOK
<1>8. NoDuplicateActiveJob' /\ DeletedNotAnalysed'
  BY <1>3, <1>4 DEF SerialInv, NoDuplicateActiveJob, DeletedNotAnalysed, Live
<1>. QED
  BY <1>1, <1>2, <1>5, <1>6, <1>7, <1>8 DEF SerialInv

\* A step of Run is the worker's, and its commit writes what the AI server said.
LEMMA SerialReload ==
  ASSUME Serial, TypeOK, SerialInv, NEW p \in Actors, Reload(p)
  PROVE  SerialInv'
<1>. USE ActorTypes, ConstantsAssumption
<1>1. p \in Workers /\ cur[p] \in Jobs /\ status[cur[p]] = "PROCESSING"
  BY DEF Actors, Reload, SerialInv, DecisionStands, WorkerUpToDate, TypeOK
<1>2. /\ UNCHANGED rows /\ cur' = cur /\ arg' = arg
      /\ \A q \in Actors \ {p} : pc'[q] = pc[q]
      /\ pc'[p] = "called" /\ view'[p] = Look({cur[p]})
  BY DEF Reload, Goto, TypeOK
<1>3. DecisionStands'
  BY <1>1, <1>2, SerialHandlerApart DEF SerialInv, rows
<1>4. WorkerUpToDate'
  BY <1>1, <1>2 DEF WorkerUpToDate, Serial, rows, Look
<1>. QED
  BY <1>2, <1>3, <1>4, SerialRowsUnchanged DEF SerialInv

LEMMA SerialOutcome ==
  ASSUME Serial, TypeOK, SerialInv, NEW p \in Actors,
         AnswerCompleted(p) \/ AnswerPending(p) \/ AnswerFailed(p)
  PROVE  /\ SerialInv'
         /\ cur[p] \in Jobs /\ status[cur[p]] = "PROCESSING" /\ incidents[cur[p]] = 0
         /\ UNCHANGED <<att, jobAtt>>
         /\ \E new \in {"QUEUED", "FAILED", "COMPLETED"}, n \in {0, 1} :
              /\ n = 1 => new = "COMPLETED"
              /\ status' = [status EXCEPT ![cur[p]] = new]
              /\ incidents' = [incidents EXCEPT ![cur[p]] = n]
<1>. USE ActorTypes, ConstantsAssumption
<1>1. pc[p] = "called"
  BY DEF AnswerCompleted, AnswerPending, AnswerFailed, Commit
<1>2. /\ p \in Workers /\ cur[p] \in Jobs
      /\ status[cur[p]] = "PROCESSING" /\ view[p][cur[p]] = "PROCESSING"
  BY <1>1 DEF Actors, SerialInv, DecisionStands, WorkerUpToDate, TypeOK
<1>3. incidents[cur[p]] = 0
  BY <1>2 DEF SerialInv, RowsInOrder
<1>4. PICK new \in {"QUEUED", "FAILED", "COMPLETED"}, n \in {0, 1} :
        Commit(p, new, n) /\ (n = 1 => new = "COMPLETED")
  BY <1>2 DEF AnswerCompleted, AnswerPending, AnswerFailed
<1>5. /\ status' = [status EXCEPT ![cur[p]] = new]
      /\ incidents' = [incidents EXCEPT ![cur[p]] = n]
      /\ UNCHANGED <<att, last, jobAtt, arg>>
      /\ pc'[p] = "reported"
      /\ \A q \in Actors \ {p} : pc'[q] = pc[q]
  <2>1. /\ status' = [status EXCEPT ![cur[p]] = new]
        /\ UNCHANGED <<att, last, jobAtt, arg>>
        /\ pc' = [pc EXCEPT ![p] = "reported"]
    BY <1>2, <1>4 DEF Commit, Flush, Goto, local
  <2>2. incidents' = [incidents EXCEPT ![cur[p]] = n]
    BY <1>2, <1>3, <1>4 DEF Commit, TypeOK
  <2>. QED
    BY <2>1, <2>2 DEF TypeOK
<1>6. \A k \in Jobs : status'[k] \in Active => status[k] \in Active
  BY <1>2, <1>5 DEF Active, TypeOK
<1>7. DecisionStands'
  BY <1>2, <1>5, <1>6, SerialHandlerApart DEF SerialInv
<1>8. WorkerUpToDate'
  BY <1>2, <1>5 DEF WorkerUpToDate, Serial
<1>9. RowsInOrder'
  BY <1>2, <1>4, <1>5 DEF SerialInv, RowsInOrder, TypeOK
<1>10. NoDuplicateActiveJob' /\ DeletedNotAnalysed'
  BY <1>5, <1>6 DEF SerialInv, NoDuplicateActiveJob, DeletedNotAnalysed, Live
<1>. QED
  BY <1>2, <1>3, <1>4, <1>5, <1>7, <1>8, <1>9, <1>10 DEF SerialInv

\* A kill ends what an actor was doing and changes no row.
LEMMA SerialCrash ==
  ASSUME Serial, TypeOK, SerialInv, NEW p \in Actors, Crash(p)
  PROVE  SerialInv'
<1>. USE ActorTypes, ConstantsAssumption
<1>1. Leave(p) /\ UNCHANGED rows
  BY DEF Crash
<1>2. DecisionStands'
  <2>1. Live' = Live /\ \A a : ActiveJobs(a)' = ActiveJobs(a)
    BY <1>1 DEF Live, ActiveJobs, rows
  <2>2. \A h \in Handlers : pc'[h] = "idle" \/ (pc'[h] = pc[h] /\ arg'[h] = arg[h])
    BY <1>1, LeaveIdle
  <2>. QED
    BY <2>1, <2>2 DEF SerialInv, DecisionStands
<1>3. WorkerUpToDate'
  BY <1>1, LeaveIdle DEF SerialInv, WorkerUpToDate, rows
<1>. QED
  BY <1>1, <1>2, <1>3, SerialRowsUnchanged DEF SerialInv

LEMMA SerialStutter ==
  ASSUME SerialInv, UNCHANGED vars
  PROVE  SerialInv'
<1>1. DecisionStands'
  BY DEF SerialInv, DecisionStands, vars, rows, local, Live, ActiveJobs
<1>2. WorkerUpToDate'
  BY DEF SerialInv, WorkerUpToDate, vars, rows, local
<1>. QED
  BY <1>1, <1>2, SerialRowsUnchanged DEF SerialInv, vars

LEMMA SerialInvStep ==
  ASSUME Serial, TypeOK, SerialInv, [Next]_vars
  PROVE  SerialInv'
<1>1. ASSUME NEW h \in Handlers, AnalyzeInsert(h) PROVE SerialInv'
  BY <1>1, SerialInsert
<1>2. ASSUME NEW h \in Handlers, RetryQueue(h) \/ RetryReload(h) \/ RetryStart(h) PROVE FALSE
  BY <1>2 DEF RetryQueue, RetryReload, RetryStart, SerialInv, DecisionStands
<1>3. ASSUME NEW p \in Actors, Run(p) PROVE SerialInv'
  BY <1>3, SerialReload, SerialOutcome DEF Run
<1>4. ASSUME NEW h \in Handlers, HandlerRead(h) \/ HandlerStep(h) PROVE SerialInv'
  BY <1>1, <1>2, <1>3, <1>4, SerialRead, SerialWrite, ActorTypes DEF HandlerStep
<1>5. ASSUME NEW w \in Workers, WorkerList(w) \/ WorkerStep(w) PROVE SerialInv'
  BY <1>3, <1>5, SerialLoad, SerialClaim, ActorTypes DEF WorkerStep
<1>. QED
  BY <1>4, <1>5, SerialCrash, SerialStutter DEF Next

\* Without overlapping requests no attachment has two active jobs, none is
\* deleted under analysis, and no job reports two incidents
\* (request_report_analysis, delete_report_attachment, process_report_analysis_job).
THEOREM SerialSafety ==
  ASSUME Serial
  PROVE  Spec => [](NoDuplicateActiveJob /\ DeletedNotAnalysed /\ AtMostOneIncident)
<1>1. TypeOK /\ SerialInv /\ [Next]_vars => SerialInv'
  BY SerialInvStep
<1>2. SerialInv => NoDuplicateActiveJob /\ DeletedNotAnalysed /\ AtMostOneIncident
  BY DEF SerialInv, RowsInOrder, AtMostOneIncident
<1>. QED
  BY <1>1, <1>2, SerialInit, TypeCorrect, PTL DEF Spec

\* Without overlapping requests no attachment that the worker may still send
\* to the AI server is deleted (delete_report_attachment, delete_report).
THEOREM SerialDeleted ==
  ASSUME Serial
  PROVE  Spec => []DeletedNotAnalysed
  BY SerialSafety, PTL

\* Without overlapping requests a job reports one incident at most, however
\* often it is put back in the queue (process_report_analysis_job).
THEOREM SerialIncidents ==
  ASSUME Serial
  PROVE  Spec => []AtMostOneIncident
  BY SerialSafety, PTL

\* The only worker never hands a job to the AI server that is not QUEUED
\* (the snapshot check of process_report_analysis_job is then enough).
THEOREM SerialQueued ==
  ASSUME Serial
  PROVE  Spec => OnlyQueuedIsProcessed
<1>. DEFINE Claims == \A w \in Workers, j \in Jobs :
                        pc[w] = "next" /\ pc'[w] = "claimed" /\ cur'[w] = j => status[j] = "QUEUED"
<1>1. TypeOK /\ SerialInv /\ [Next]_vars => SerialInv'
  BY SerialInvStep
<1>2. ASSUME TypeOK, SerialInv, [Next]_vars PROVE [Claims]_vars
  <2>. SUFFICES ASSUME Next, NEW w \in Workers, NEW j \in Jobs, pc[w] = "next",
                       pc'[w] = "claimed", cur'[w] = j
                PROVE  status[j] = "QUEUED"
    BY <1>2
  <2>. USE ActorTypes, ConstantsAssumption
  <2>1. ASSUME NEW h \in Handlers, HandlerRead(h) \/ HandlerStep(h) PROVE pc'[w] = pc[w]
    BY <1>2, <2>1, LeaveIdle
    DEF HandlerRead, HandlerStep, AnalyzeRead, AttachRead, DropReportRead, RetryRead,
        DropAttachmentRead, SetStatusRead, AnalyzeInsert, RetryQueue, RetryReload, RetryStart,
        AttachInsert, DropAttachmentCommit, DropReportCommit, SetStatusCommit, Run, Reload,
        AnswerCompleted, AnswerPending, AnswerFailed, Commit, Goto, TypeOK
  <2>2. ASSUME NEW p \in Actors, Crash(p) PROVE pc'[w] = pc[w] \/ pc'[w] = "idle"
    BY <1>2, <2>2, LeaveIdle DEF Crash
  <2>3. CASE \E k \in Jobs : WorkerClaim(w, k)
    <3>1. PICK k \in Jobs : WorkerClaim(w, k)
      BY <2>3
    <3>2. k = j
      BY <1>2, <3>1 DEF WorkerClaim, TypeOK
    <3>. QED
      BY <1>2, <3>1, <3>2, SerialClaim
  <2>4. ASSUME NEW v \in Workers, WorkerList(v) \/ WorkerStep(v),
               ~\E k \in Jobs : WorkerClaim(w, k)
        PROVE  FALSE
    <3>1. v = w
      BY DEF Serial
    <3>. QED
      BY <1>2, <2>4, <3>1, LeaveIdle
      DEF WorkerStep, WorkerList, WorkerSkip, WorkerReported, WorkerExit, Run, Reload,
          AnswerCompleted, AnswerPending, AnswerFailed, Commit, Goto, TypeOK
  <2>. QED
    BY <2>1, <2>2, <2>3, <2>4 DEF Next
<1>. QED
  BY <1>1, <1>2, SerialInit, TypeCorrect, PTL DEF Spec, OnlyQueuedIsProcessed

\* Without overlapping requests the analysis implements AnalysisPromise, where
\* every check and the write it guards are one step.
THEOREM SerialImplementsPromise ==
  ASSUME Serial
  PROVE  Spec => ImplementsPromise
<1>. USE ActorTypes, ConstantsAssumption
<1>1. Init => Promise!Init
  BY DEF Init, Promise!Init, Unread, Jobs, Promise!Rows
<1>2. TypeOK /\ SerialInv /\ [Next]_vars => SerialInv'
  BY SerialInvStep
<1>3. ASSUME TypeOK, SerialInv, [Next]_vars PROVE [Promise!Next]_(Promise!promised)
  <2>. DEFINE Same == UNCHANGED <<att, status, jobAtt, incidents>>
  <2>. USE DEF Promise!promised
  <2>1. ASSUME NEW h \in Handlers, HandlerRead(h) PROVE Same
    BY <2>1 DEF HandlerRead, AnalyzeRead, AttachRead, DropReportRead, RetryRead,
                DropAttachmentRead, SetStatusRead, rows
  <2>2. ASSUME NEW h \in Handlers, AnalyzeInsert(h) PROVE Promise!Next \/ Same
    <3>. DEFINE N == last + 1 .. last + Cardinality(arg[h])
    <3>1. /\ Cardinality(arg[h]) \in Nat /\ last \in Nat
          /\ last + Cardinality(arg[h]) <= MaxJobs
      BY <1>3, <2>2, ArgCardinality DEF AnalyzeInsert, TypeOK
    <3>2. /\ N \subseteq Jobs
          /\ \A j \in N : status[j] = "NONE"
      BY <1>3, <3>1 DEF Jobs, SerialInv, RowsInOrder
    <3>3. /\ status' = [j \in Jobs |-> IF j \in N THEN "QUEUED" ELSE status[j]]
          /\ \A j \in Jobs \ N : jobAtt'[j] = jobAtt[j]
          /\ \A j \in N : jobAtt'[j] \in arg[h]
          /\ \A j, k \in N : jobAtt'[j] = jobAtt'[k] => j = k
          /\ att' = att /\ incidents' = incidents
      BY <2>2, <3>2 DEF AnalyzeInsert
    <3>4. jobAtt' \in [Jobs -> Attachments \cup {NoAttachment}]
      BY <1>3, SerialInvStep, TypeStep DEF TypeOK
    <3>5. \A a \in arg[h] : a \in Attachments /\ att[a] = "live" /\ ~Promise!Busy(a)
      BY SMTT(30), <1>3, <2>2 DEF SerialInv, DecisionStands, AnalyzeInsert, Live, ActiveJobs, Active,
                        Promise!Busy, Promise!Pending, Promise!Rows, Jobs
    <3>6. CASE N = {}
      BY <1>3, <3>3, <3>4, <3>6 DEF TypeOK
    <3>7. CASE N # {}
      BY <3>2, <3>3, <3>4, <3>5, <3>7 DEF Promise!Next, Promise!Submit, Promise!Rows, Jobs
    <3>. QED
      BY <3>6, <3>7
  <2>3. ASSUME NEW h \in Handlers, AttachInsert(h) PROVE Promise!Next
    BY <2>3 DEF AttachInsert, Promise!Next, Promise!Attach
  <2>4. ASSUME NEW h \in Handlers, DropAttachmentCommit(h) PROVE Promise!Next \/ Same
    <3>1. PICK a \in Attachments : arg[h] = {a}
      BY <1>3, <2>4 DEF SerialInv, DecisionStands, DropAttachmentCommit
    <3>2. att[a] = "live" /\ ~Promise!Busy(a)
      BY <1>3, <2>4, <3>1 DEF SerialInv, DecisionStands, DropAttachmentCommit, Live, ActiveJobs,
                              Active, Promise!Busy, Promise!Pending, Promise!Rows, Jobs
    <3>. QED
      BY <1>3, <2>4, <3>1, <3>2 DEF DropAttachmentCommit, TypeOK, Promise!Next, Promise!Drop
  <2>5. ASSUME NEW h \in Handlers, DropReportCommit(h) \/ SetStatusCommit(h) PROVE Same
    BY <2>5 DEF DropReportCommit, SetStatusCommit
  <2>6. ASSUME NEW h \in Handlers, RetryQueue(h) \/ RetryReload(h) \/ RetryStart(h) PROVE FALSE
    BY <1>3, <2>6 DEF RetryQueue, RetryReload, RetryStart, SerialInv, DecisionStands
  <2>7. ASSUME NEW w \in Workers, NEW j \in Jobs, WorkerClaim(w, j) PROVE Promise!Next
    <3>1. status[j] = "QUEUED" /\ status' = [status EXCEPT ![j] = "PROCESSING"]
      BY <1>3, <2>7, SerialClaim
    <3>. QED
      BY <2>7, <3>1 DEF WorkerClaim, Promise!Next, Promise!Start, Promise!Rows, Jobs
  <2>8. ASSUME NEW w \in Workers,
               \/ WorkerList(w) \/ WorkerReported(w) \/ WorkerExit(w)
               \/ \E j \in Jobs : WorkerSkip(w, j)
        PROVE  Same
    BY <2>8 DEF WorkerList, WorkerReported, WorkerExit, WorkerSkip, rows
  <2>9. ASSUME NEW p \in Actors, AnswerCompleted(p) \/ AnswerPending(p) \/ AnswerFailed(p)
        PROVE  Promise!Next
    <3>1. PICK new \in {"QUEUED", "FAILED", "COMPLETED"}, n \in {0, 1} :
            /\ n = 1 => new = "COMPLETED"
            /\ status' = [status EXCEPT ![cur[p]] = new]
            /\ incidents' = [incidents EXCEPT ![cur[p]] = n]
      BY <1>3, <2>9, SerialOutcome
    <3>2. /\ cur[p] \in Jobs /\ status[cur[p]] = "PROCESSING" /\ incidents[cur[p]] = 0
          /\ UNCHANGED <<att, jobAtt>>
      BY <1>3, <2>9, SerialOutcome
    <3>3. n = 0 => incidents' = incidents
      BY <1>3, <3>1, <3>2 DEF TypeOK
    <3>. QED
      BY <3>1, <3>2, <3>3 DEF Promise!Next, Promise!Finish, Promise!Rows, Jobs
  <2>10. ASSUME NEW p \in Actors, Reload(p) \/ Crash(p) PROVE Same
    BY <2>10 DEF Reload, Crash, rows
  <2>11. CASE UNCHANGED vars
    BY <2>11 DEF vars, rows
  <2>12. ASSUME NEW h \in Handlers, HandlerRead(h) \/ HandlerStep(h)
         PROVE  Promise!Next \/ Same
    BY <2>1, <2>2, <2>3, <2>4, <2>5, <2>6, <2>9, <2>10, <2>12 DEF HandlerStep, Run
  <2>13. ASSUME NEW w \in Workers, WorkerList(w) \/ WorkerStep(w)
         PROVE  Promise!Next \/ Same
    BY <2>7, <2>8, <2>9, <2>10, <2>13 DEF WorkerStep, Run
  <2>. QED
    BY <1>3, <2>10, <2>11, <2>12, <2>13 DEF Next
<1>. QED
  BY <1>1, <1>2, <1>3, SerialInit, TypeCorrect, PTL DEF Spec, ImplementsPromise, Promise!Spec
=============================================================================

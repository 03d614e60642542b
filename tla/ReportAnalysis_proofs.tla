----------------------- MODULE ReportAnalysis_proofs ------------------------
(***************************************************************************)
(* Theorems about ReportAnalysis, for any sets of handlers, workers and    *)
(* attachments and any bounds.                                             *)
(***************************************************************************)
EXTENDS ReportAnalysis, FiniteSetTheorems, TLAPS

USE ConstantsAssumption

LEMMA ActorTypes == Handlers \subseteq Actors /\ Workers \subseteq Actors
  BY DEF Actors

LEMMA LookType ==
  ASSUME TypeOK, NEW S
  PROVE  Look(S) \in [Jobs -> Status]
  BY DEF Look, TypeOK, Status

LEMMA UnreadType == Unread \in [Jobs -> Status]
  BY DEF Unread, Status

\* An UPDATE leaves the loaded, the new or the stored value in the column.
LEMMA FlushType ==
  ASSUME NEW loaded, NEW new \in Status, NEW stored \in Status
  PROVE  Flush(loaded, new, stored) \in Status
  BY DEF Flush

\* The number of new rows of a request.
LEMMA ArgCardinality ==
  ASSUME TypeOK, NEW h \in Handlers
  PROVE  /\ Cardinality(arg[h]) \in Nat
         /\ arg[h] \subseteq Attachments
<1>1. arg[h] \subseteq Attachments
  BY ActorTypes DEF TypeOK
<1>2. IsFiniteSet(arg[h])
  BY <1>1, FS_Subset
<1>. QED
  BY <1>1, <1>2, FS_CardinalityType

\* What leaving a request does to the type of the local state.
LEMMA LeaveType ==
  ASSUME TypeOK, NEW p \in Actors, Leave(p)
  PROVE  /\ pc' \in [Actors -> HandlerPC \cup WorkerPC]
         /\ \A h \in Handlers : pc'[h] \in HandlerPC
         /\ \A w \in Workers : pc'[w] \in WorkerPC
         /\ cur' \in [Actors -> Jobs \cup {0}]
         /\ \A q \in Actors : pc'[q] \in {"claimed", "called", "requeue", "requeued", "start"} =>
                              cur'[q] \in Jobs
         /\ todo' \in [Actors -> SUBSET Jobs]
         /\ view' \in [Actors -> [Jobs -> Status]]
         /\ arg' \in [Actors -> SUBSET Attachments]
         /\ goal' \in [Actors -> ReportStatus]
  BY ActorTypes, UnreadType DEF TypeOK, Leave, HandlerPC, WorkerPC, ReportStatus

LEMMA TypeStep ==
  ASSUME TypeOK, [Next]_vars
  PROVE  TypeOK'
<1>. USE ActorTypes
<1>1. ASSUME NEW h \in Handlers, HandlerRead(h) PROVE TypeOK'
  <2>1. CASE AnalyzeRead(h)
    BY <2>1 DEF AnalyzeRead, Goto, TypeOK, rows, HandlerPC, NeedsJob, Live
  <2>2. CASE AttachRead(h)
    BY <2>2 DEF AttachRead, Goto, TypeOK, rows, local, HandlerPC
  <2>3. CASE DropReportRead(h)
    BY <2>3 DEF DropReportRead, Goto, TypeOK, rows, local, HandlerPC
  <2>4. ASSUME NEW j \in Jobs, RetryRead(h, j) PROVE TypeOK'
    BY <2>4, LookType DEF RetryRead, Goto, TypeOK, rows, HandlerPC
  <2>5. ASSUME NEW a \in Attachments, DropAttachmentRead(h, a) PROVE TypeOK'
    BY <2>5 DEF DropAttachmentRead, Goto, TypeOK, rows, HandlerPC
  <2>6. ASSUME NEW s \in ReportStatus, SetStatusRead(h, s) PROVE TypeOK'
    BY <2>6 DEF SetStatusRead, Goto, TypeOK, rows, HandlerPC
  <2>. QED
    BY <1>1, <2>1, <2>2, <2>3, <2>4, <2>5, <2>6 DEF HandlerRead
<1>2. ASSUME NEW h \in Handlers, AnalyzeInsert(h) PROVE TypeOK'
  <2>. DEFINE top == last + Cardinality(arg[h])
  <2>1. top \in 0 .. MaxJobs
    BY <1>2, ArgCardinality DEF AnalyzeInsert, TypeOK
  <2>2. jobAtt' \in [Jobs -> Attachments \cup {NoAttachment}]
    BY <1>2, ArgCardinality DEF AnalyzeInsert, TypeOK
  <2>3. status' \in [Jobs -> Status]
    BY <1>2 DEF AnalyzeInsert, TypeOK, Status, Active
  <2>4. last' \in 0 .. MaxJobs
    BY <1>2, <2>1 DEF AnalyzeInsert
  <2>5. Leave(h) /\ UNCHANGED <<report, att, incidents, orphans, retries, crashes>>
    BY <1>2 DEF AnalyzeInsert
  <2>. QED
    BY <2>2, <2>3, <2>4, <2>5, LeaveType DEF TypeOK
<1>3. ASSUME NEW h \in Handlers, RetryQueue(h) PROVE TypeOK'
  BY <1>3, FlushType DEF RetryQueue, Goto, TypeOK, local, HandlerPC, Status, Active
<1>4. ASSUME NEW h \in Handlers, RetryReload(h) PROVE TypeOK'
  BY <1>4, LookType DEF RetryReload, Goto, TypeOK, rows, HandlerPC
<1>5. ASSUME NEW h \in Handlers, RetryStart(h) PROVE TypeOK'
  BY <1>5, FlushType DEF RetryStart, Goto, TypeOK, local, HandlerPC, Status, Active
<1>6. ASSUME NEW h \in Handlers, AttachInsert(h) PROVE TypeOK'
  BY <1>6, LeaveType DEF AttachInsert, TypeOK
<1>7. ASSUME NEW h \in Handlers, DropAttachmentCommit(h) PROVE TypeOK'
  BY <1>7, LeaveType DEF DropAttachmentCommit, TypeOK
<1>8. ASSUME NEW h \in Handlers, DropReportCommit(h) PROVE TypeOK'
  BY <1>8, LeaveType DEF DropReportCommit, TypeOK, ReportStatus
<1>9. ASSUME NEW h \in Handlers, SetStatusCommit(h) PROVE TypeOK'
  BY <1>9, LeaveType DEF SetStatusCommit, TypeOK
<1>10. ASSUME NEW w \in Workers, WorkerList(w) PROVE TypeOK'
  BY <1>10, LookType DEF WorkerList, Goto, TypeOK, rows, WorkerPC, Oldest
<1>11. ASSUME NEW w \in Workers, NEW j \in Jobs, WorkerSkip(w, j) PROVE TypeOK'
  BY <1>11 DEF WorkerSkip, TypeOK, rows
<1>12. ASSUME NEW w \in Workers, NEW j \in Jobs, WorkerClaim(w, j) PROVE TypeOK'
  BY <1>12, FlushType DEF WorkerClaim, Goto, TypeOK, WorkerPC, Status, Active
<1>13. ASSUME NEW w \in Workers, WorkerReported(w) PROVE TypeOK'
  BY <1>13, LookType DEF WorkerReported, Goto, TypeOK, rows, WorkerPC
<1>14. ASSUME NEW w \in Workers, WorkerExit(w) PROVE TypeOK'
  BY <1>14, LeaveType DEF WorkerExit, TypeOK, rows
<1>15. ASSUME NEW p \in Actors, Reload(p) PROVE TypeOK'
  BY <1>15, LookType DEF Reload, Goto, TypeOK, rows, HandlerPC, WorkerPC
<1>16. ASSUME NEW p \in Actors, NEW new \in Status, NEW n \in Nat, Commit(p, new, n)
       PROVE  TypeOK'
  <2>1. cur[p] \in Jobs
    BY <1>16 DEF Commit, TypeOK
  <2>2. /\ status' \in [Jobs -> Status]
        /\ incidents' \in [Jobs -> Nat]
        /\ orphans' \subseteq Jobs
    BY <1>16, <2>1, FlushType DEF Commit, TypeOK
  <2>3. CASE p \in Workers
    <3>1. /\ pc' = [pc EXCEPT ![p] = "reported"]
          /\ UNCHANGED <<report, att, last, jobAtt, retries, crashes, cur, todo, view, arg, goal>>
      BY <1>16, <2>3 DEF Commit, Goto, local
    <3>. QED
      BY <3>1, <2>2, <2>3 DEF TypeOK, WorkerPC, HandlerPC
  <2>4. CASE p \notin Workers
    BY <1>16, <2>2, <2>4, LeaveType DEF Commit, TypeOK
  <2>. QED
    BY <2>3, <2>4
<1>17. ASSUME NEW p \in Actors, Run(p) PROVE TypeOK'
  BY <1>15, <1>16, <1>17
  DEF Run, AnswerCompleted, AnswerPending, AnswerFailed, Status, Active
<1>18. ASSUME NEW p \in Actors, Crash(p) PROVE TypeOK'
  <2>1. orphans' \subseteq Jobs
    BY <1>18 DEF Crash, TypeOK
  <2>. QED
    BY <1>18, <2>1, LeaveType DEF Crash, TypeOK, rows
<1>19. CASE UNCHANGED vars
  BY <1>19 DEF vars, rows, local, TypeOK
<1>. QED
  BY <1>1, <1>2, <1>3, <1>4, <1>5, <1>6, <1>7, <1>8, <1>9, <1>10, <1>11, <1>12,
     <1>13, <1>14, <1>17, <1>18, <1>19
  DEF Next, HandlerStep, WorkerStep

\* Every variable stays within its range, whatever the actors do.
THEOREM TypeCorrect == Spec => []TypeOK
<1>1. Init => TypeOK
  <2>1. SUFFICES ASSUME Init PROVE TypeOK
    OBVIOUS
  <2>2. 0 \in 0 .. MaxJobs
    OBVIOUS
  <2>3. att \in [Attachments -> {"none", "live", "deleted"}]
    BY <2>1 DEF Init
  <2>4. QED
    BY <2>1, <2>2, <2>3, UnreadType, ActorTypes
    DEF Init, TypeOK, HandlerPC, WorkerPC, ReportStatus
<1>. QED
  BY <1>1, TypeStep, PTL DEF Spec
-----------------------------------------------------------------------------
(* A job in progress has somebody who will write its outcome *)

\* p will write an outcome for j: the emitter has yet to reload the row, or
\* loaded it in progress, so that the outcome differs from the loaded value.
WillWrite(p, j) ==
  /\ cur[p] = j
  /\ \/ pc[p] = "claimed"
     \/ pc[p] = "called" /\ view[p][j] \in InProgress

\* RunningHasRunner is not inductive: the runner it names may have loaded an
\* outcome already and leave the column alone.  The inductive invariant names
\* one that will not.
Accounted ==
  \A j \in Jobs :
    status[j] \in InProgress => j \in orphans \/ \E p \in Actors : WillWrite(p, j)

\* A step that leaves status and orphans alone, and whoever runs a job too.
LEMMA AccountedUnchanged ==
  ASSUME Accounted, status' = status, orphans' = orphans,
         \A p \in Actors, j \in Jobs : WillWrite(p, j) => WillWrite(p, j)'
  PROVE  Accounted'
  BY DEF Accounted

\* The actor of a step that is not running a job leaves every other runner be.
LEMMA Bystander ==
  ASSUME TypeOK, NEW p \in Actors, pc[p] \notin {"claimed", "called"},
         \A q \in Actors \ {p} : pc'[q] = pc[q] /\ cur'[q] = cur[q] /\ view'[q] = view[q]
  PROVE  \A q \in Actors, j \in Jobs : WillWrite(q, j) => WillWrite(q, j)'
  BY DEF WillWrite

LEMMA LeaveOthers ==
  ASSUME TypeOK, NEW p \in Actors, Leave(p)
  PROVE  \A q \in Actors \ {p} : pc'[q] = pc[q] /\ cur'[q] = cur[q] /\ view'[q] = view[q]
  BY DEF Leave, TypeOK

\* Claiming a job: the actor has it in progress from now on.
LEMMA ClaimAccounts ==
  ASSUME TypeOK, Accounted, NEW p \in Actors, NEW j \in Jobs,
         pc[p] \notin {"claimed", "called"},
         pc'[p] = "claimed", cur'[p] = j,
         \A q \in Actors \ {p} : pc'[q] = pc[q] /\ cur'[q] = cur[q] /\ view'[q] = view[q],
         \A k \in Jobs \ {j} : status'[k] = status[k],
         orphans' = orphans \ {j}
  PROVE  Accounted'
<1>. SUFFICES ASSUME NEW k \in Jobs, status'[k] \in InProgress
              PROVE  k \in orphans' \/ \E q \in Actors : WillWrite(q, k)'
  BY DEF Accounted
<1>1. CASE k = j
  BY <1>1 DEF WillWrite
<1>2. CASE k # j
  BY <1>2, Bystander DEF Accounted
<1>. QED
  BY <1>1, <1>2

\* A job in progress is being run, or was left behind by a killed process or on
\* the AI server's word: no interleaving of claims, requeues and outcomes
\* strands it (process_report_analysis_job, retry_analysis_job).
THEOREM RunningHasRunnerHolds == Spec => []RunningHasRunner
<1>1. Init => Accounted
  BY DEF Init, Accounted, Unread, InProgress, Active
<1>2. TypeOK /\ Accounted /\ [Next]_vars => Accounted'
  <2>. SUFFICES ASSUME TypeOK, Accounted, [Next]_vars PROVE Accounted'
    OBVIOUS
  <2>. USE ActorTypes
  <2>1. ASSUME NEW h \in Handlers, HandlerRead(h) PROVE Accounted'
    <3>1. /\ pc[h] = "idle"
          /\ status' = status /\ orphans' = orphans
          /\ \A q \in Actors \ {h} : pc'[q] = pc[q] /\ cur'[q] = cur[q] /\ view'[q] = view[q]
      BY <2>1 DEF HandlerRead, AnalyzeRead, AttachRead, DropReportRead, RetryRead,
                  DropAttachmentRead, SetStatusRead, Goto, rows, local, TypeOK
    <3>. QED
      BY <3>1, Bystander, AccountedUnchanged
  <2>2. ASSUME NEW h \in Handlers, AnalyzeInsert(h) PROVE Accounted'
    <3>1. /\ pc[h] = "insert" /\ orphans' = orphans
          /\ \A j \in Jobs : status'[j] \in InProgress => status[j] \in InProgress
      BY <2>2 DEF AnalyzeInsert, InProgress
    <3>2. \A q \in Actors, j \in Jobs : WillWrite(q, j) => WillWrite(q, j)'
      BY <2>2, <3>1, LeaveOthers, Bystander DEF AnalyzeInsert
    <3>. QED
      BY <3>1, <3>2 DEF Accounted
  <2>3. ASSUME NEW h \in Handlers, RetryQueue(h) PROVE Accounted'
    <3>1. /\ pc[h] = "requeue" /\ orphans' = orphans /\ cur' = cur /\ view' = view
          /\ \A q \in Actors \ {h} : pc'[q] = pc[q]
      BY <2>3 DEF RetryQueue, Goto, local, TypeOK
    <3>2. \A j \in Jobs : status'[j] \in InProgress => status[j] \in InProgress
      BY <2>3 DEF RetryQueue, Flush, TypeOK, InProgress
    <3>3. \A q \in Actors, j \in Jobs : WillWrite(q, j) => WillWrite(q, j)'
      BY <3>1, Bystander
    <3>. QED
      BY <3>1, <3>2, <3>3 DEF Accounted
  <2>4. ASSUME NEW h \in Handlers, RetryReload(h) PROVE Accounted'
    <3>1. /\ pc[h] = "requeued" /\ status' = status /\ orphans' = orphans
          /\ \A q \in Actors \ {h} : pc'[q] = pc[q] /\ cur'[q] = cur[q] /\ view'[q] = view[q]
      BY <2>4 DEF RetryReload, Goto, rows, TypeOK
    <3>. QED
      BY <3>1, Bystander, AccountedUnchanged
  <2>5. ASSUME NEW h \in Handlers, RetryStart(h) PROVE Accounted'
    <3>1. /\ pc[h] = "start" /\ pc'[h] = "claimed" /\ cur'[h] = cur[h] /\ cur[h] \in Jobs
          /\ \A q \in Actors \ {h} : pc'[q] = pc[q] /\ cur'[q] = cur[q] /\ view'[q] = view[q]
          /\ \A k \in Jobs \ {cur[h]} : status'[k] = status[k]
          /\ orphans' = orphans \ {cur[h]}
      BY <2>5 DEF RetryStart, Goto, local, TypeOK
    <3>. QED
      BY <3>1, ClaimAccounts
  <2>6. ASSUME NEW h \in Handlers,
               AttachInsert(h) \/ DropAttachmentCommit(h) \/ DropReportCommit(h) \/ SetStatusCommit(h)
        PROVE  Accounted'
    <3>1. /\ pc[h] \notin {"claimed", "called"}
          /\ status' = status /\ orphans' = orphans /\ Leave(h)
      BY <2>6 DEF AttachInsert, DropAttachmentCommit, DropReportCommit, SetStatusCommit
    <3>. QED
      BY <3>1, LeaveOthers, Bystander, AccountedUnchanged
  <2>7. ASSUME NEW w \in Workers, WorkerList(w) \/ WorkerReported(w) \/ WorkerExit(w)
        PROVE  Accounted'
    <3>1. /\ pc[w] \notin {"claimed", "called"}
          /\ status' = status /\ orphans' = orphans
          /\ \A q \in Actors \ {w} : pc'[q] = pc[q] /\ cur'[q] = cur[q] /\ view'[q] = view[q]
      BY <2>7 DEF WorkerList, WorkerReported, WorkerExit, Leave, Goto, rows, TypeOK
    <3>. QED
      BY <3>1, Bystander, AccountedUnchanged
  <2>8. ASSUME NEW w \in Workers, NEW j \in Jobs, WorkerSkip(w, j) PROVE Accounted'
    BY <2>8 DEF WorkerSkip, rows, Accounted, WillWrite
  <2>9. ASSUME NEW w \in Workers, NEW j \in Jobs, WorkerClaim(w, j) PROVE Accounted'
    <3>1. /\ pc[w] = "next" /\ pc'[w] = "claimed" /\ cur'[w] = j
          /\ \A q \in Actors \ {w} : pc'[q] = pc[q] /\ cur'[q] = cur[q] /\ view'[q] = view[q]
          /\ \A k \in Jobs \ {j} : status'[k] = status[k]
          /\ orphans' = orphans \ {j}
      BY <2>9 DEF WorkerClaim, Goto, TypeOK
    <3>. QED
      BY <3>1, ClaimAccounts
  <2>10. ASSUME NEW p \in Actors, Reload(p) PROVE Accounted'
    <3>1. /\ pc[p] = "claimed" /\ pc'[p] = "called" /\ cur' = cur /\ cur[p] \in Jobs
          /\ status' = status /\ orphans' = orphans
          /\ view'[p] = Look({cur[p]})
          /\ \A q \in Actors \ {p} : pc'[q] = pc[q] /\ view'[q] = view[q]
      BY <2>10 DEF Reload, Goto, rows, TypeOK
    <3>2. SUFFICES ASSUME NEW j \in Jobs, status[j] \in InProgress, j \notin orphans
                   PROVE  \E q \in Actors : WillWrite(q, j)'
      BY <3>1 DEF Accounted
    <3>3. PICK q \in Actors : WillWrite(q, j)
      BY <3>2 DEF Accounted
    <3>4. CASE q = p
      BY <3>1, <3>2, <3>3, <3>4 DEF WillWrite, Look
    <3>5. CASE q # p
      BY <3>1, <3>3, <3>5 DEF WillWrite
    <3>. QED
      BY <3>4, <3>5
  <2>11. ASSUME NEW p \in Actors, NEW new \in Status, NEW n \in Nat, Commit(p, new, n)
         PROVE  Accounted'
    <3>1. /\ pc[p] = "called" /\ cur[p] \in Jobs
          /\ status' = [status EXCEPT ![cur[p]] = Flush(view[p][cur[p]], new, @)]
          /\ orphans' = IF new \in InProgress THEN orphans \cup {cur[p]} ELSE orphans
      BY <2>11 DEF Commit, TypeOK
    <3>2. \A q \in Actors \ {p} : pc'[q] = pc[q] /\ cur'[q] = cur[q] /\ view'[q] = view[q]
      <4>1. CASE p \in Workers
        BY <2>11, <4>1 DEF Commit, Goto, local, TypeOK
      <4>2. CASE p \notin Workers
        BY <2>11, <4>2, LeaveOthers DEF Commit
      <4>. QED
        BY <4>1, <4>2
    <3>3. SUFFICES ASSUME NEW j \in Jobs, status'[j] \in InProgress, j \notin orphans'
                   PROVE  \E q \in Actors : WillWrite(q, j)'
      BY DEF Accounted
    <3>4. j = cur[p] => new \notin InProgress
      BY <3>1, <3>3
    \* The commit of an outcome left the column alone: p had loaded that outcome.
    <3>5. j = cur[p] => view[p][j] = new /\ status'[j] = status[j]
      BY <3>1, <3>3, <3>4 DEF Flush, TypeOK
    <3>6. status[j] \in InProgress /\ j \notin orphans /\ ~WillWrite(p, j)
      BY <3>1, <3>3, <3>4, <3>5 DEF WillWrite, TypeOK
    <3>7. PICK q \in Actors : WillWrite(q, j) /\ q # p
      BY <3>6 DEF Accounted
    <3>. QED
      BY <3>2, <3>7 DEF WillWrite
  <2>12. ASSUME NEW p \in Actors, Run(p) PROVE Accounted'
    BY <2>10, <2>11, <2>12
    DEF Run, AnswerCompleted, AnswerPending, AnswerFailed, Status, Active
  <2>13. ASSUME NEW p \in Actors, Crash(p) PROVE Accounted'
    <3>1. /\ status' = status
          /\ orphans' = IF pc[p] \in {"claimed", "called"} THEN orphans \cup {cur[p]} ELSE orphans
          /\ \A q \in Actors \ {p} : pc'[q] = pc[q] /\ cur'[q] = cur[q] /\ view'[q] = view[q]
      BY <2>13, LeaveOthers DEF Crash, rows
    <3>. QED
      BY <3>1 DEF Accounted, WillWrite
  <2>14. CASE UNCHANGED vars
    BY <2>14 DEF vars, rows, local, Accounted, WillWrite
  <2>. QED
    BY <2>1, <2>2, <2>3, <2>4, <2>5, <2>6, <2>7, <2>8, <2>9, <2>12, <2>13, <2>14
    DEF Next, HandlerStep, WorkerStep
<1>3. Accounted => RunningHasRunner
  BY DEF Accounted, RunningHasRunner, WillWrite, Runs
<1>. QED
  BY <1>1, <1>2, <1>3, TypeCorrect, PTL DEF Spec
=============================================================================

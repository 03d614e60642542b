--------------------------- MODULE ReportAnalysis ---------------------------
(***************************************************************************)
(* The AI analysis jobs of one citizen report                              *)
(* (flask-vm/app/modules/report_upload/service.py).                        *)
(*                                                                         *)
(* A request handler queues one job per attachment, a batch worker takes   *)
(* the queued jobs and calls the AI server, an administrator retries a     *)
(* failed job from within a web request, and owners delete attachments and *)
(* the report meanwhile.  Nothing locks a row: an operation reads in the   *)
(* snapshot its transaction opened (InnoDB REPEATABLE READ), decides, and  *)
(* commits later, so the read and the commit are separate actions here.    *)
(*                                                                         *)
(* SQLAlchemy writes a column only when the new value differs from the     *)
(* value it loaded (Flush), and reloads a row at its first use after a     *)
(* commit, which is the Socket.IO emitter that follows every commit        *)
(* (Reload and the like).                                                  *)
(*                                                                         *)
(* Abstracted: authorisation (callers are entitled), the uploaded bytes,   *)
(* the result document, timestamps, retry_count, and what Socket.IO sends. *)
(* No code removes a job or attachment row, so a missing row is left out;  *)
(* ids are given at the commit of the INSERT, which its flush precedes.    *)
(***************************************************************************)
EXTENDS Integers, FiniteSets

CONSTANTS
  Attachments,    \* ids of report_attachments rows, present and future
  Handlers,       \* web request threads
  Workers,        \* report_analysis_worker processes
  Operations,     \* which endpoints the clients call
  AiJobStatuses,  \* job_status values the AI server answers when not finished
  Limit,          \* REPORT_ANALYSIS_WORKER_LIMIT
  NoAttachment,   \* the attachment of a job row not inserted yet
  MaxJobs,        \* bound: report_analysis_jobs rows
  MaxRetries,     \* bound: retry requests that are accepted
  MaxIncidents,   \* bound: incidents created for one job
  MaxCrashes      \* bound: processes killed in the middle of an operation

Active == {"QUEUED", "RUNNING", "PROCESSING", "STARTED"}
InProgress == Active \ {"QUEUED"}
Status == Active \cup {"NONE", "COMPLETED", "FAILED"}
Jobs == 1 .. MaxJobs
Actors == Handlers \cup Workers
Endpoints == {"analyze", "retry", "attach", "dropAttachment", "dropReport", "setStatus"}

ASSUME ConstantsAssumption ==
  /\ Handlers \cap Workers = {}
  /\ IsFiniteSet(Attachments)
  /\ NoAttachment \notin Attachments
  /\ Operations \subseteq Endpoints
  /\ AiJobStatuses \subseteq Active
  /\ Limit \in Nat \ {0}
  /\ MaxJobs \in Nat
  /\ MaxRetries \in Nat
  /\ MaxIncidents \in Nat
  /\ MaxCrashes \in Nat

VARIABLES
  report,     \* the incident_reports row: its status class and deleted_at
  att,        \* attachment rows: "none" before the INSERT, then "live" or "deleted"
  last,       \* the last auto-increment id of report_analysis_jobs
  status,     \* job_status of each job row, "NONE" before its INSERT
  jobAtt,     \* attachment_id of each job row
  incidents,  \* Incident rows created for each job
  orphans,    \* jobs left in progress by a killed runner or on the AI server's word
  pc,         \* where each actor is
  cur,        \* the job an actor runs or retries, 0 if none
  todo,       \* the rest of a worker's list
  view,       \* job_status as the actor's session last loaded it
  arg,        \* attachments a handler decided to act on
  goal,       \* the report status a handler decided to write
  retries, crashes

rows == <<report, att, last, status, jobAtt, incidents>>
local == <<cur, todo, view, arg, goal>>
vars == <<rows, orphans, pc, local, retries, crashes>>

ReportStatus == {"OPEN", "CLOSED", "CANCELLED", "DELETED"}
HandlerPC == {"idle", "insert", "requeue", "requeued", "start", "claimed", "called",
              "attach", "dropAttachment", "dropReport", "setStatus"}
WorkerPC == {"idle", "next", "claimed", "called", "reported"}
Unread == [j \in Jobs |-> "NONE"]

-----------------------------------------------------------------------------
(* Reading and writing rows *)

\* What a session sees of the jobs it uses when it loads them now.
Look(S) == [j \in Jobs |-> IF j \in S THEN status[j] ELSE "NONE"]

\* An UPDATE names the column only if the value differs from the loaded one.
Flush(loaded, new, stored) == IF loaded = new THEN stored ELSE new

ReportGone == report.deleted \/ report.status \in {"DELETED", "CANCELLED"}
Editable == ~report.deleted /\ report.status \notin {"CLOSED", "CANCELLED", "DELETED"}
ActiveJobs(a) == {j \in Jobs : jobAtt[j] = a /\ status[j] \in Active}
Live == {a \in Attachments : att[a] = "live"}

\* The request is over: the session and everything it loaded are gone.
Leave(p) ==
  /\ pc' = [pc EXCEPT ![p] = "idle"]
  /\ cur' = [cur EXCEPT ![p] = 0]
  /\ todo' = [todo EXCEPT ![p] = {}]
  /\ view' = [view EXCEPT ![p] = Unread]
  /\ arg' = [arg EXCEPT ![p] = {}]
  /\ goal' = [goal EXCEPT ![p] = "OPEN"]

Goto(p, label) == pc' = [pc EXCEPT ![p] = label]

\* create_report committed the report with at least one stored file.
Init ==
  /\ report = [status |-> "OPEN", deleted |-> FALSE]
  /\ \E S \in (SUBSET Attachments) \ {{}} :
       att = [a \in Attachments |-> IF a \in S THEN "live" ELSE "none"]
  /\ last = 0
  /\ status = Unread
  /\ jobAtt = [j \in Jobs |-> NoAttachment]
  /\ incidents = [j \in Jobs |-> 0]
  /\ orphans = {}
  /\ pc = [p \in Actors |-> "idle"]
  /\ cur = [p \in Actors |-> 0]
  /\ todo = [p \in Actors |-> {}]
  /\ view = [p \in Actors |-> Unread]
  /\ arg = [p \in Actors |-> {}]
  /\ goal = [p \in Actors |-> "OPEN"]
  /\ retries = 0
  /\ crashes = 0

-----------------------------------------------------------------------------
(* POST /reports/<id>/analyze: request_report_analysis *)

\* Mutant: only a queued job is reused, not one in progress.
NeedsJobIfNotQueued == {a \in Live : \A j \in Jobs : jobAtt[j] = a => status[j] # "QUEUED"}

\* The attachments that need a new job: live, and no active job to reuse.
NeedsJob == {a \in Live : ActiveJobs(a) = {}}

AnalyzeRead(h) ==
  /\ "analyze" \in Operations
  /\ pc[h] = "idle"
  /\ NeedsJob # {}
  /\ Goto(h, "insert")
  /\ arg' = [arg EXCEPT ![h] = NeedsJob]
  /\ UNCHANGED <<rows, orphans, cur, todo, view, goal, retries, crashes>>

\* The INSERTs and their commit; the ids follow the last one, in any order.
AnalyzeInsert(h) ==
  LET top == last + Cardinality(arg[h])
  IN /\ pc[h] = "insert"
     /\ top <= MaxJobs
     /\ \E new \in [last + 1 .. top -> arg[h]] :
          /\ \A j, k \in last + 1 .. top : new[j] = new[k] => j = k
          /\ jobAtt' = [j \in Jobs |-> IF j \in last + 1 .. top THEN new[j] ELSE jobAtt[j]]
     /\ status' = [j \in Jobs |-> IF j \in last + 1 .. top THEN "QUEUED" ELSE status[j]]
     /\ last' = top
     /\ Leave(h)
     /\ UNCHANGED <<report, att, incidents, orphans, retries, crashes>>

-----------------------------------------------------------------------------
(* report_analysis_worker: process_queued_report_analysis_jobs *)

\* The Limit oldest of a set of queued jobs.
Oldest(Q) == {j \in Q : Cardinality({k \in Q : k < j}) < Limit}

WorkerList(w) ==
  LET Q == {j \in Jobs : status[j] = "QUEUED"}
  IN /\ pc[w] = "idle"
     /\ Q # {}
     /\ Goto(w, "next")
     /\ todo' = [todo EXCEPT ![w] = Oldest(Q)]
     /\ view' = [view EXCEPT ![w] = Look(Oldest(Q))]
     /\ UNCHANGED <<rows, orphans, cur, arg, goal, retries, crashes>>

IsHead(w, j) == j \in todo[w] /\ \A k \in todo[w] : j <= k

\* process_report_analysis_job takes a job its snapshot shows as QUEUED.
MayProcess(loaded) == loaded = "QUEUED"

\* The job is no longer QUEUED in the snapshot (409): go on with the next.
WorkerSkip(w, j) ==
  /\ pc[w] = "next"
  /\ IsHead(w, j)
  /\ ~MayProcess(view[w][j])
  /\ todo' = [todo EXCEPT ![w] = @ \ {j}]
  /\ UNCHANGED <<rows, orphans, pc, cur, view, arg, goal, retries, crashes>>

\* Commit PROCESSING before the call to the AI server.
WorkerClaim(w, j) ==
  /\ pc[w] = "next"
  /\ IsHead(w, j)
  /\ MayProcess(view[w][j])
  /\ status' = [status EXCEPT ![j] = Flush(view[w][j], "PROCESSING", @)]
  /\ orphans' = orphans \ {j}
  /\ Goto(w, "claimed")
  /\ cur' = [cur EXCEPT ![w] = j]
  /\ todo' = [todo EXCEPT ![w] = @ \ {j}]
  /\ UNCHANGED <<report, att, last, jobAtt, incidents, view, arg, goal, retries, crashes>>

\* The emitter after the final commit opens the snapshot the rest is read in.
WorkerReported(w) ==
  /\ pc[w] = "reported"
  /\ Goto(w, "next")
  /\ cur' = [cur EXCEPT ![w] = 0]
  /\ view' = [view EXCEPT ![w] = Look(todo[w])]
  /\ UNCHANGED <<rows, orphans, todo, arg, goal, retries, crashes>>

WorkerExit(w) ==
  /\ pc[w] = "next"
  /\ todo[w] = {}
  /\ Leave(w)
  /\ UNCHANGED <<rows, orphans, retries, crashes>>

-----------------------------------------------------------------------------
(* POST /reports/analysis-jobs/<id>/retry: retry_analysis_job *)

MayRetry(j) == status[j] = "FAILED" /\ ~ReportGone /\ jobAtt[j] \in Live

RetryRead(h, j) ==
  /\ "retry" \in Operations
  /\ pc[h] = "idle"
  /\ MayRetry(j)
  /\ retries < MaxRetries
  /\ retries' = retries + 1
  /\ Goto(h, "requeue")
  /\ cur' = [cur EXCEPT ![h] = j]
  /\ view' = [view EXCEPT ![h] = Look({j})]
  /\ UNCHANGED <<rows, orphans, todo, arg, goal, crashes>>

\* The first commit: QUEUED, with retry_count + 1.
RetryQueue(h) ==
  /\ pc[h] = "requeue"
  /\ status' = [status EXCEPT ![cur[h]] = Flush(view[h][cur[h]], "QUEUED", @)]
  /\ Goto(h, "requeued")
  /\ UNCHANGED <<report, att, last, jobAtt, incidents, orphans, local, retries, crashes>>

RetryReload(h) ==
  /\ pc[h] = "requeued"
  /\ view' = [view EXCEPT ![h] = Look({cur[h]})]
  /\ Goto(h, "start")
  /\ UNCHANGED <<rows, orphans, cur, todo, arg, goal, retries, crashes>>

\* The second commit: PROCESSING, whatever became of the job since the first.
RetryStart(h) ==
  /\ pc[h] = "start"
  /\ status' = [status EXCEPT ![cur[h]] = Flush(view[h][cur[h]], "PROCESSING", @)]
  /\ orphans' = orphans \ {cur[h]}
  /\ Goto(h, "claimed")
  /\ UNCHANGED <<report, att, last, jobAtt, incidents, local, retries, crashes>>

-----------------------------------------------------------------------------
(* Running a job: common to the worker and the retry *)

\* Mutant: a session made with expire_on_commit=False keeps what it loaded.
ReloadNothing(p) ==
  /\ pc[p] = "claimed"
  /\ Goto(p, "called")
  /\ UNCHANGED <<rows, orphans, local, retries, crashes>>

\* The emitter after the PROCESSING commit loads the row again.
Reload(p) ==
  /\ pc[p] = "claimed"
  /\ view' = [view EXCEPT ![p] = Look({cur[p]})]
  /\ Goto(p, "called")
  /\ UNCHANGED <<rows, orphans, cur, todo, arg, goal, retries, crashes>>

\* The commit of the outcome `new`, which created n Incident rows.
Commit(p, new, n) ==
  /\ pc[p] = "called"
  /\ status' = [status EXCEPT ![cur[p]] = Flush(view[p][cur[p]], new, @)]
  /\ incidents' = [incidents EXCEPT ![cur[p]] = @ + n]
  /\ orphans' = IF new \in InProgress THEN orphans \cup {cur[p]} ELSE orphans
  /\ IF p \in Workers
     THEN Goto(p, "reported") /\ UNCHANGED local
     ELSE Leave(p)
  /\ UNCHANGED <<report, att, last, jobAtt, retries, crashes>>

\* Mutant: the incident is saved, the end of the job is not.
AnswerCompletedRequeued(p) ==
  \E n \in {0, 1} :
    /\ pc[p] = "called"
    /\ incidents[cur[p]] + n <= MaxIncidents
    /\ Commit(p, "QUEUED", n)

\* The AI server answered with a result; detections make it an incident.
AnswerCompleted(p) ==
  \E n \in {0, 1} :
    /\ pc[p] = "called"
    /\ incidents[cur[p]] + n <= MaxIncidents
    /\ Commit(p, "COMPLETED", n)

\* Mutant: the worker, too, believes the status the AI server names.
AnswerPendingBelieved(p) == \E s \in {"QUEUED"} \cup AiJobStatuses : Commit(p, s, 0)

\* The AI server accepted but has no result: the worker puts the job back in
\* the queue, the retry believes the status the AI server names.
AnswerPending(p) ==
  \E s \in {"QUEUED"} \cup (IF p \in Workers THEN {} ELSE AiJobStatuses) :
    Commit(p, s, 0)

\* Mutant: a status the other code does not know.
AnswerFailedAsError(p) == Commit(p, "ERROR", 0)

\* Mutant: the exception is logged and the outcome is not committed.
AnswerFailedUnsaved(p) ==
  /\ pc[p] = "called"
  /\ IF p \in Workers THEN Goto(p, "reported") /\ UNCHANGED local ELSE Leave(p)
  /\ UNCHANGED <<rows, orphans, retries, crashes>>

\* Connection error, timeout, non-2xx or invalid JSON.
AnswerFailed(p) == Commit(p, "FAILED", 0)

-----------------------------------------------------------------------------
(* The other writers of the report and of its attachments *)

\* add_report_attachments: the ids are taken at the INSERT.
AttachRead(h) ==
  /\ "attach" \in Operations
  /\ pc[h] = "idle"
  /\ Editable
  /\ Goto(h, "attach")
  /\ UNCHANGED <<rows, orphans, local, retries, crashes>>

AttachInsert(h) ==
  /\ pc[h] = "attach"
  /\ \E a \in Attachments :
       /\ att[a] = "none"
       /\ att' = [att EXCEPT ![a] = "live"]
  /\ Leave(h)
  /\ UNCHANGED <<report, last, status, jobAtt, incidents, orphans, retries, crashes>>

\* Mutant: the jobs of the attachment are not looked at.
MayDropAnytime(a) == Editable /\ a \in Live

\* delete_report_attachment: 409 while the attachment has an active job.
MayDrop(a) == Editable /\ a \in Live /\ ActiveJobs(a) = {}

DropAttachmentRead(h, a) ==
  /\ "dropAttachment" \in Operations
  /\ pc[h] = "idle"
  /\ MayDrop(a)
  /\ Goto(h, "dropAttachment")
  /\ arg' = [arg EXCEPT ![h] = {a}]
  /\ UNCHANGED <<rows, orphans, cur, todo, view, goal, retries, crashes>>

DropAttachmentCommit(h) ==
  /\ pc[h] = "dropAttachment"
  /\ att' = [a \in Attachments |-> IF a \in arg[h] THEN "deleted" ELSE att[a]]
  /\ Leave(h)
  /\ UNCHANGED <<report, last, status, jobAtt, incidents, orphans, retries, crashes>>

\* delete_report: 409 while the report has an active job; a CLOSED report may go.
MayDropReport ==
  /\ \A j \in Jobs : status[j] \notin Active
  /\ report.status \notin {"CANCELLED", "DELETED"}

DropReportRead(h) ==
  /\ "dropReport" \in Operations
  /\ pc[h] = "idle"
  /\ MayDropReport
  /\ Goto(h, "dropReport")
  /\ UNCHANGED <<rows, orphans, local, retries, crashes>>

DropReportCommit(h) ==
  /\ pc[h] = "dropReport"
  /\ report' = [status |-> "CANCELLED", deleted |-> TRUE]
  /\ Leave(h)
  /\ UNCHANGED <<att, last, status, jobAtt, incidents, orphans, retries, crashes>>

\* update_report_status, approve_report, reject_report: no look at the jobs.
\* OPEN stands for several statuses, so it may follow itself.
SetStatusRead(h, s) ==
  /\ "setStatus" \in Operations
  /\ pc[h] = "idle"
  /\ ~ReportGone
  /\ report.status # s \/ s = "OPEN"
  /\ Goto(h, "setStatus")
  /\ goal' = [goal EXCEPT ![h] = s]
  /\ UNCHANGED <<rows, orphans, cur, todo, view, arg, retries, crashes>>

SetStatusCommit(h) ==
  /\ pc[h] = "setStatus"
  /\ report' = [report EXCEPT !.status = goal[h]]
  /\ Leave(h)
  /\ UNCHANGED <<att, last, status, jobAtt, incidents, orphans, retries, crashes>>

-----------------------------------------------------------------------------
\* A process is killed, or an exception ends the request or the batch: what it
\* committed stays, and nothing in the code looks for the job it was running.
Crash(p) ==
  /\ pc[p] # "idle"
  /\ crashes < MaxCrashes
  /\ crashes' = crashes + 1
  /\ orphans' = IF pc[p] \in {"claimed", "called"} THEN orphans \cup {cur[p]} ELSE orphans
  /\ Leave(p)
  /\ UNCHANGED <<rows, retries>>

Run(p) == Reload(p) \/ AnswerCompleted(p) \/ AnswerPending(p) \/ AnswerFailed(p)

HandlerStep(h) ==
  \/ AnalyzeInsert(h) \/ RetryQueue(h) \/ RetryReload(h) \/ RetryStart(h)
  \/ AttachInsert(h) \/ DropAttachmentCommit(h) \/ DropReportCommit(h)
  \/ SetStatusCommit(h) \/ Run(h)

WorkerStep(w) ==
  \/ \E j \in Jobs : WorkerSkip(w, j) \/ WorkerClaim(w, j)
  \/ WorkerReported(w) \/ WorkerExit(w) \/ Run(w)

HandlerRead(h) ==
  \/ AnalyzeRead(h) \/ AttachRead(h) \/ DropReportRead(h)
  \/ \E j \in Jobs : RetryRead(h, j)
  \/ \E a \in Attachments : DropAttachmentRead(h, a)
  \/ \E s \in ReportStatus : SetStatusRead(h, s)

Next ==
  \/ \E h \in Handlers : HandlerRead(h) \/ HandlerStep(h)
  \/ \E w \in Workers : WorkerList(w) \/ WorkerStep(w)
  \/ \E p \in Actors : Crash(p)

\* An operation that began goes on: its thread runs, and the AI call has a
\* timeout.  Nothing in the repository starts the worker, so a listing is not
\* fair, and neither is a client's request or a crash.
Fairness ==
  /\ \A h \in Handlers : WF_vars(HandlerStep(h))
  /\ \A w \in Workers : WF_vars(WorkerStep(w))

Spec == Init /\ [][Next]_vars /\ Fairness

-----------------------------------------------------------------------------
(* What holds however the actors interleave *)

\* Every variable stays within its range, whatever the actors do.
TypeOK ==
  /\ report \in [status : ReportStatus, deleted : BOOLEAN]
  /\ att \in [Attachments -> {"none", "live", "deleted"}]
  /\ last \in 0 .. MaxJobs
  /\ status \in [Jobs -> Status]
  /\ jobAtt \in [Jobs -> Attachments \cup {NoAttachment}]
  /\ incidents \in [Jobs -> Nat]
  /\ orphans \subseteq Jobs
  /\ pc \in [Actors -> HandlerPC \cup WorkerPC]
  /\ \A h \in Handlers : pc[h] \in HandlerPC
  /\ \A w \in Workers : pc[w] \in WorkerPC
  /\ cur \in [Actors -> Jobs \cup {0}]
  /\ \A p \in Actors : pc[p] \in {"claimed", "called", "requeue", "requeued", "start"} =>
                       cur[p] \in Jobs
  /\ todo \in [Actors -> SUBSET Jobs]
  /\ view \in [Actors -> [Jobs -> Status]]
  /\ arg \in [Actors -> SUBSET Attachments]
  /\ goal \in [Actors -> ReportStatus]
  /\ retries \in Nat
  /\ crashes \in Nat

Runs(p, j) == pc[p] \in {"claimed", "called"} /\ cur[p] = j

\* A job shown as in progress is being run by a worker or by a retry that will
\* still write its outcome, unless a runner was killed or the AI server said it
\* goes on by itself: double claims, requeues and column writes that SQLAlchemy
\* leaves out never strand a job in PROCESSING (process_report_analysis_job,
\* retry_analysis_job).
RunningHasRunner ==
  \A j \in Jobs :
    status[j] \in InProgress => j \in orphans \/ \E p \in Actors : Runs(p, j)

\* PROCESSING does not last: the commit after the AI call ends it, unless the
\* runner is killed, and then nothing does.
RunsEnd ==
  \A j \in Jobs : status[j] = "PROCESSING" ~> (status[j] # "PROCESSING" \/ j \in orphans)

-----------------------------------------------------------------------------
(* What holds when requests do not overlap and no one retries (Serial) *)

\* One web thread, one worker and no retry endpoint.
Serial ==
  /\ \E h : Handlers = {h}
  /\ \E w : Workers = {w}
  /\ "retry" \notin Operations

\* Asking again for the analysis of an attachment reuses its active job
\* (docstring of request_report_analysis; test ..._creates_job_and_is_idempotent).
NoDuplicateActiveJob ==
  \A j, k \in Jobs :
    status[j] \in Active /\ status[k] \in Active /\ jobAtt[j] = jobAtt[k] => j = k

\* An attachment under analysis cannot be deleted (the 409 of
\* delete_report_attachment).
DeletedNotAnalysed ==
  \A j \in Jobs : status[j] \in Active => jobAtt[j] \in Live

\* One job reports at most one incident, crashes included
\* (_create_incidents_from_analysis inserts one per call).
AtMostOneIncident == \A j \in Jobs : incidents[j] <= 1

\* Only a job that is QUEUED is handed to the AI server (the 409 of
\* process_report_analysis_job).
OnlyQueuedIsProcessed ==
  [][\A w \in Workers, j \in Jobs :
       pc[w] = "next" /\ pc'[w] = "claimed" /\ cur'[w] = j => status[j] = "QUEUED"]_vars

\* What the analysis promises its callers, see AnalysisPromise.
Promise == INSTANCE AnalysisPromise
ImplementsPromise == Promise!Spec
=============================================================================

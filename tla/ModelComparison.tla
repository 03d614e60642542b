--------------------------- MODULE ModelComparison ---------------------------
(***************************************************************************)
(* Comparing object-detection models on one video attachment               *)
(* (flask-vm/app/modules/report_model_comparison/service.py).              *)
(*                                                                         *)
(* An administrator queues a batch of one run per chosen model; a worker   *)
(* started by a systemd timer takes the queued runs one by one, calls the  *)
(* AI server, stores the outcome and recomputes the status of the batch    *)
(* from its runs.  As in ReportAnalysis, a session reads in the snapshot   *)
(* its transaction opened and writes the columns that differ from what it  *)
(* loaded, so a worker holds a view of all the rows until it commits, and  *)
(* its next read opens the next one.                                       *)
(*                                                                         *)
(* Abstracted: the metrics of a result, timestamps, attempt_count, and the *)
(* order of the models of one batch (any order).  Batch rows are never     *)
(* deleted, so the branch for a missing batch is left out.                 *)
(***************************************************************************)
EXTENDS Integers, FiniteSets

CONSTANTS
  Models,      \* MODEL_CATALOG
  Handlers,    \* web request threads of administrators
  Workers,     \* report_model_comparison_worker processes
  Limit,       \* REPORT_MODEL_COMPARISON_WORKER_LIMIT, clipped to 1..3
  NoRun,       \* a worker without a run
  MaxBatches,  \* bound: batches created
  MaxCrashes   \* bound: processes killed in the middle of an operation

ASSUME ConstantsAssumption ==
  /\ Handlers \cap Workers = {}
  /\ Limit \in 1 .. 3
  /\ MaxBatches \in Nat
  /\ MaxCrashes \in Nat
  /\ NoRun \notin (1 .. MaxBatches) \X Models

Batches == 1 .. MaxBatches
Runs == Batches \X Models
Actors == Handlers \cup Workers
RunStatus == {"NONE", "QUEUED", "RUNNING", "COMPLETED", "FAILED"}
BatchStatus == RunStatus \cup {"PARTIAL_FAILED"}
ActiveBatch == {"QUEUED", "RUNNING"}

VARIABLES
  run,      \* run_status of each run row, "NONE" before its INSERT
  batch,    \* batch_status of each batch row, "NONE" before its INSERT
  gone,     \* whether the attachment is deleted
  orphans,  \* runs left RUNNING by a killed worker
  pc,       \* where each actor is
  wish,     \* the models a handler is about to insert a batch for
  todo,     \* the rest of a worker's list
  cur,      \* the run a worker is on
  view,     \* the snapshot a worker reads in, Closed between a commit and a read
  crashes

rows == <<run, batch, gone>>
vars == <<rows, orphans, pc, wish, todo, cur, view, crashes>>

Snapshot == [run |-> run, batch |-> batch, gone |-> gone]
Closed == [run |-> [r \in Runs |-> "NONE"], batch |-> [b \in Batches |-> "NONE"], gone |-> FALSE]
Flush(loaded, new, stored) == IF loaded = new THEN stored ELSE new
Chosen(b) == {m \in Models : run[<<b, m>>] # "NONE"}
Goto(p, label) == pc' = [pc EXCEPT ![p] = label]

Init ==
  /\ run = [r \in Runs |-> "NONE"]
  /\ batch = [b \in Batches |-> "NONE"]
  /\ gone = FALSE
  /\ orphans = {}
  /\ pc = [p \in Actors |-> "idle"]
  /\ wish = [p \in Actors |-> {}]
  /\ todo = [p \in Actors |-> {}]
  /\ cur = [p \in Actors |-> NoRun]
  /\ view = [p \in Actors |-> Closed]
  /\ crashes = 0

-----------------------------------------------------------------------------
(* POST /reports/<id>/analysis-comparisons: create_batch *)

\* Mutant: a batch that has started does not count.
NotRequestedIfStarted(M) == \A b \in Batches : batch[b] = "QUEUED" => Chosen(b) # M

\* 409 if a batch for the same models is queued or running.
NotRequested(M) == \A b \in Batches : batch[b] \in ActiveBatch => Chosen(b) # M

CreateRead(h, M) ==
  /\ pc[h] = "idle"
  /\ ~gone
  /\ NotRequested(M)
  /\ Goto(h, "insert")
  /\ wish' = [wish EXCEPT ![h] = M]
  /\ UNCHANGED <<rows, orphans, todo, cur, view, crashes>>

CreateInsert(h, b) ==
  /\ pc[h] = "insert"
  /\ batch[b] = "NONE"
  /\ \A c \in Batches : c < b => batch[c] # "NONE"
  /\ batch' = [batch EXCEPT ![b] = "QUEUED"]
  /\ run' = [r \in Runs |-> IF r[1] = b /\ r[2] \in wish[h] THEN "QUEUED" ELSE run[r]]
  /\ Goto(h, "idle")
  /\ wish' = [wish EXCEPT ![h] = {}]
  /\ UNCHANGED <<gone, orphans, todo, cur, view, crashes>>

\* delete_report_attachment looks at the analysis jobs, not at the comparisons.
DropAttachment ==
  /\ ~gone
  /\ gone' = TRUE
  /\ UNCHANGED <<run, batch, orphans, pc, wish, todo, cur, view, crashes>>

-----------------------------------------------------------------------------
(* report_model_comparison_worker: process_queued_comparison_runs *)

\* The queued runs of active batches, as the query joins them.
Queue == {r \in Runs : run[r] = "QUEUED" /\ batch[r[1]] \in ActiveBatch}

\* Limit of them, those of older batches first.
IsList(L, Q) ==
  /\ L \subseteq Q
  /\ Cardinality(L) <= Limit
  /\ L # Q => Cardinality(L) = Limit
  /\ \A r \in L, q \in Q \ L : r[1] <= q[1]

WorkerList(w) ==
  /\ pc[w] = "idle"
  /\ Queue # {}
  /\ \E L \in SUBSET Queue : IsList(L, Queue) /\ todo' = [todo EXCEPT ![w] = L]
  /\ view' = [view EXCEPT ![w] = Snapshot]
  /\ Goto(w, "next")
  /\ UNCHANGED <<rows, orphans, wish, cur, crashes>>

IsNext(w, r) == pc[w] = "next" /\ r \in todo[w] /\ \A q \in todo[w] : r[1] <= q[1]

\* Mutant: only a run in progress keeps the batch open.
SummaryOfStarted(S) ==
  IF "RUNNING" \in S THEN "RUNNING"
  ELSE IF S = {"COMPLETED"} THEN "COMPLETED"
  ELSE IF "COMPLETED" \in S THEN "PARTIAL_FAILED"
  ELSE "FAILED"

\* Mutant: a mixed outcome has no status of its own.
SummaryOrUnknown(S) ==
  IF S \cap {"QUEUED", "RUNNING"} # {} THEN "RUNNING"
  ELSE IF S = {"COMPLETED"} THEN "COMPLETED"
  ELSE IF "COMPLETED" \in S THEN "UNKNOWN"
  ELSE "FAILED"

\* The status of a batch whose runs have the statuses S.
Summary(S) ==
  IF S \cap {"QUEUED", "RUNNING"} # {} THEN "RUNNING"
  ELSE IF S = {"COMPLETED"} THEN "COMPLETED"
  ELSE IF "COMPLETED" \in S THEN "PARTIAL_FAILED"
  ELSE "FAILED"

\* Mutant: the batch is recomputed before the outcome is set.
StatusesBefore(seen, r, s) ==
  {seen[q] : q \in {p \in Runs : p[1] = r[1] /\ seen[p] # "NONE"}}

\* The statuses of a batch in a snapshot in which run r became s.
Statuses(seen, r, s) ==
  {s} \cup {seen[q] : q \in {p \in Runs : p # r /\ p[1] = r[1] /\ seen[p] # "NONE"}}

\* Mutant: the batch is not recomputed with the last run.
FinishRunOnly(w, r, s) ==
  /\ run' = [run EXCEPT ![r] = Flush(view[w].run[r], s, @)]
  /\ UNCHANGED batch
  /\ view' = [view EXCEPT ![w] = Closed]
  /\ Goto(w, "reported")

\* Commit the outcome s of run r and the recomputed batch (_refresh_batch_status).
Finish(w, r, s) ==
  LET b == r[1]
      seen == view[w]
  IN /\ run' = [run EXCEPT ![r] = Flush(seen.run[r], s, @)]
     /\ batch' = [batch EXCEPT ![b] = Flush(seen.batch[b], Summary(Statuses(seen.run, r, s)), @)]
     /\ view' = [view EXCEPT ![w] = Closed]
     /\ Goto(w, "reported")

\* The run is no longer QUEUED in the snapshot (409).
WorkerSkip(w, r) ==
  /\ IsNext(w, r)
  /\ view[w].run[r] # "QUEUED"
  /\ todo' = [todo EXCEPT ![w] = @ \ {r}]
  /\ UNCHANGED <<rows, orphans, pc, wish, cur, view, crashes>>

\* The attachment is deleted in the snapshot.
WorkerMissing(w, r) ==
  /\ IsNext(w, r)
  /\ view[w].run[r] = "QUEUED"
  /\ view[w].gone
  /\ Finish(w, r, "FAILED")
  /\ todo' = [todo EXCEPT ![w] = @ \ {r}]
  /\ UNCHANGED <<gone, orphans, wish, cur, crashes>>

\* Commit RUNNING, for the batch too if it was QUEUED, before the AI call.
WorkerClaim(w, r) ==
  LET b == r[1]
      seen == view[w]
  IN /\ IsNext(w, r)
     /\ seen.run[r] = "QUEUED"
     /\ ~seen.gone
     /\ run' = [run EXCEPT ![r] = Flush(seen.run[r], "RUNNING", @)]
     /\ batch' = [batch EXCEPT ![b] = IF seen.batch[b] = "QUEUED" THEN "RUNNING" ELSE @]
     /\ orphans' = orphans \ {r}
     /\ todo' = [todo EXCEPT ![w] = @ \ {r}]
     /\ cur' = [cur EXCEPT ![w] = r]
     /\ view' = [view EXCEPT ![w] = Closed]
     /\ Goto(w, "claimed")
     /\ UNCHANGED <<gone, wish, crashes>>

\* Reading report.cctv_id after the commit opens the snapshot of the AI call.
WorkerReload(w) ==
  /\ pc[w] = "claimed"
  /\ view' = [view EXCEPT ![w] = Snapshot]
  /\ Goto(w, "called")
  /\ UNCHANGED <<rows, orphans, wish, todo, cur, crashes>>

\* The AI server answered, with a result or not, or could not be reached.
WorkerOutcome(w) ==
  /\ pc[w] = "called"
  /\ \E s \in {"COMPLETED", "FAILED"} : Finish(w, cur[w], s)
  /\ cur' = [cur EXCEPT ![w] = NoRun]
  /\ UNCHANGED <<gone, orphans, wish, todo, crashes>>

\* The read after the commit opens the snapshot of the next run.
WorkerReported(w) ==
  /\ pc[w] = "reported"
  /\ view' = [view EXCEPT ![w] = Snapshot]
  /\ Goto(w, "next")
  /\ UNCHANGED <<rows, orphans, wish, todo, cur, crashes>>

WorkerExit(w) ==
  /\ pc[w] = "next"
  /\ todo[w] = {}
  /\ Goto(w, "idle")
  /\ view' = [view EXCEPT ![w] = Closed]
  /\ UNCHANGED <<rows, orphans, wish, todo, cur, crashes>>

\* TimeoutStartSec, a deployment or an exception ends a worker: what it
\* committed stays, and no code looks for the run it was on.
Kill(w) ==
  /\ pc[w] # "idle"
  /\ crashes < MaxCrashes
  /\ crashes' = crashes + 1
  /\ orphans' = IF pc[w] \in {"claimed", "called"} THEN orphans \cup {cur[w]} ELSE orphans
  /\ Goto(w, "idle")
  /\ todo' = [todo EXCEPT ![w] = {}]
  /\ cur' = [cur EXCEPT ![w] = NoRun]
  /\ view' = [view EXCEPT ![w] = Closed]
  /\ UNCHANGED <<rows, wish>>

-----------------------------------------------------------------------------
WorkerStep(w) ==
  \/ WorkerList(w) \/ WorkerReload(w) \/ WorkerOutcome(w) \/ WorkerReported(w) \/ WorkerExit(w)
  \/ \E r \in Runs : WorkerSkip(w, r) \/ WorkerMissing(w, r) \/ WorkerClaim(w, r)

Next ==
  \/ \E h \in Handlers, M \in (SUBSET Models) \ {{}} : CreateRead(h, M)
  \/ \E h \in Handlers, b \in Batches : CreateInsert(h, b)
  \/ DropAttachment
  \/ \E w \in Workers : WorkerStep(w) \/ Kill(w)

\* The timer starts the worker again 30 s after it ended, and an AI call has a
\* timeout; requests, deletions and kills are not fair.
Spec == Init /\ [][Next]_vars /\ \A w \in Workers : WF_vars(WorkerStep(w))

-----------------------------------------------------------------------------
SnapshotType == [run : [Runs -> RunStatus], batch : [Batches -> BatchStatus], gone : BOOLEAN]

\* Every variable stays within its range.
TypeOK ==
  /\ run \in [Runs -> RunStatus]
  /\ batch \in [Batches -> BatchStatus]
  /\ gone \in BOOLEAN
  /\ orphans \subseteq Runs
  /\ pc \in [Actors -> {"idle", "insert", "next", "claimed", "called", "reported"}]
  /\ wish \in [Actors -> SUBSET Models]
  /\ todo \in [Actors -> SUBSET Runs]
  /\ cur \in [Actors -> Runs \cup {NoRun}]
  /\ \A w \in Workers : pc[w] \in {"claimed", "called"} => cur[w] \in Runs
  /\ view \in [Actors -> SnapshotType]
  /\ crashes \in Nat

\* No queued run is lost to the worker's query, which wants an active batch:
\* however many workers recompute a batch from however old a snapshot, they
\* never close it over a run still to be done (_refresh_batch_status,
\* process_queued_comparison_runs).
NoRunForgotten == \A r \in Runs : run[r] = "QUEUED" => batch[r[1]] \in ActiveBatch

\* With the one worker the systemd unit allows, the status of a batch is the
\* summary of its runs in every state between two commits, kills included
\* (docstring of _refresh_batch_status).
BatchSummarisesRuns ==
  \A b \in Batches :
    LET S == {run[r] : r \in {q \in Runs : q[1] = b /\ run[q] # "NONE"}}
    IN batch[b] # "NONE" => batch[b] = IF S = {"QUEUED"} THEN "QUEUED" ELSE Summary(S)

\* Requests that do not overlap never have the same models compared twice at
\* once (the 409 of create_batch).
OneBatchPerChoice ==
  \A b, c \in Batches :
    batch[b] \in ActiveBatch /\ batch[c] \in ActiveBatch /\ Chosen(b) = Chosen(c) => b = c

\* A batch ends, unless a killed worker left one of its runs RUNNING: then it
\* stays RUNNING for good, and the same models cannot be requested again.
BatchEnds ==
  \A b \in Batches :
    batch[b] \in ActiveBatch ~> (batch[b] \notin ActiveBatch \/ \E r \in orphans : r[1] = b)
=============================================================================

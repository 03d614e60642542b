------------------------ MODULE ModelComparison_proofs -------------------------
(***************************************************************************)
(* Theorems about ModelComparison, for any number of models, workers,      *)
(* administrators and batches, and any limit.                              *)
(***************************************************************************)
EXTENDS ModelComparison, TLAPS

LEMMA ActorTypes == Handlers \subseteq Actors /\ Workers \subseteq Actors
  BY DEF Actors

LEMMA RunsPairs ==
  ASSUME NEW r \in Runs
  PROVE  r[1] \in Batches /\ r[2] \in Models /\ r = <<r[1], r[2]>>
  BY DEF Runs

LEMMA SnapshotTypes ==
  /\ TypeOK => Snapshot \in SnapshotType
  /\ Closed \in SnapshotType
  BY DEF TypeOK, Snapshot, Closed, SnapshotType, RunStatus, BatchStatus

LEMMA SummaryType ==
  ASSUME NEW S
  PROVE  Summary(S) \in BatchStatus
  BY DEF Summary, BatchStatus, RunStatus

\* The commit of an outcome, of a run called or of one without attachment.
LEMMA FinishType ==
  ASSUME TypeOK, NEW w \in Workers, NEW r \in Runs, NEW s \in {"COMPLETED", "FAILED"},
         Finish(w, r, s)
  PROVE  /\ run' \in [Runs -> RunStatus]
         /\ batch' \in [Batches -> BatchStatus]
         /\ view' \in [Actors -> SnapshotType]
         /\ pc' = [pc EXCEPT ![w] = "reported"]
<1>1. s \in RunStatus
  BY DEF RunStatus
<1>. QED
  BY <1>1, ActorTypes, RunsPairs, SnapshotTypes, SummaryType DEF Finish, Flush, Goto, TypeOK

LEMMA TypeStep ==
  ASSUME TypeOK, [Next]_vars
  PROVE  TypeOK'
<1>. USE ActorTypes, ConstantsAssumption
<1>1. ASSUME NEW h \in Handlers, NEW M \in SUBSET Models, CreateRead(h, M) PROVE TypeOK'
  BY <1>1 DEF CreateRead, Goto, TypeOK, rows
<1>2. ASSUME NEW h \in Handlers, NEW b \in Batches, CreateInsert(h, b) PROVE TypeOK'
  BY <1>2 DEF CreateInsert, Goto, TypeOK, RunStatus, BatchStatus
<1>3. CASE DropAttachment
  BY <1>3 DEF DropAttachment, TypeOK
<1>4. ASSUME NEW w \in Workers, WorkerList(w) PROVE TypeOK'
  <2>1. Queue \subseteq Runs
    BY DEF Queue
  <2>. QED
    BY <1>4, <2>1, SnapshotTypes DEF WorkerList, Goto, TypeOK, rows
<1>5. ASSUME NEW w \in Workers, WorkerReload(w) \/ WorkerReported(w) PROVE TypeOK'
  BY <1>5, SnapshotTypes DEF WorkerReload, WorkerReported, Goto, TypeOK, rows
<1>6. ASSUME NEW w \in Workers, WorkerOutcome(w) PROVE TypeOK'
  <2>1. cur[w] \in Runs
    BY <1>6 DEF WorkerOutcome, TypeOK
  <2>2. /\ run' \in [Runs -> RunStatus]
        /\ batch' \in [Batches -> BatchStatus]
        /\ view' \in [Actors -> SnapshotType]
        /\ pc' = [pc EXCEPT ![w] = "reported"]
    BY <1>6, <2>1, FinishType DEF WorkerOutcome
  <2>. QED
    BY <1>6, <2>2 DEF WorkerOutcome, TypeOK
<1>7. ASSUME NEW w \in Workers, NEW r \in Runs, WorkerMissing(w, r) PROVE TypeOK'
  <2>1. /\ run' \in [Runs -> RunStatus]
        /\ batch' \in [Batches -> BatchStatus]
        /\ view' \in [Actors -> SnapshotType]
        /\ pc' = [pc EXCEPT ![w] = "reported"]
    BY <1>7, FinishType DEF WorkerMissing
  <2>. QED
    BY <1>7, <2>1 DEF WorkerMissing, TypeOK
<1>8. ASSUME NEW w \in Workers, NEW r \in Runs, WorkerClaim(w, r) PROVE TypeOK'
  <2>1. run' \in [Runs -> RunStatus] /\ batch' \in [Batches -> BatchStatus]
    BY <1>8, RunsPairs DEF WorkerClaim, Flush, TypeOK, RunStatus, BatchStatus
  <2>. QED
    BY <1>8, <2>1, SnapshotTypes DEF WorkerClaim, Goto, TypeOK
<1>9. ASSUME NEW w \in Workers, NEW r \in Runs, WorkerSkip(w, r) PROVE TypeOK'
  BY <1>9 DEF WorkerSkip, TypeOK, rows
<1>10. ASSUME NEW w \in Workers, WorkerExit(w) PROVE TypeOK'
  BY <1>10, SnapshotTypes DEF WorkerExit, Goto, TypeOK, rows
<1>11. ASSUME NEW w \in Workers, Kill(w) PROVE TypeOK'
  <2>1. orphans' \subseteq Runs
    BY <1>11 DEF Kill, TypeOK
  <2>. QED
    BY <1>11, <2>1, SnapshotTypes DEF Kill, Goto, TypeOK, rows
<1>12. CASE UNCHANGED vars
  BY <1>12 DEF vars, rows, TypeOK
<1>. QED
  BY <1>1, <1>2, <1>3, <1>4, <1>5, <1>6, <1>7, <1>8, <1>9, <1>10, <1>11, <1>12
  DEF Next, WorkerStep

\* Every variable stays within its range, whatever the actors do.
THEOREM TypeCorrect == Spec => []TypeOK
<1>1. Init => TypeOK
  <2>. SUFFICES ASSUME Init PROVE TypeOK
    OBVIOUS
  <2>1. "NONE" \in RunStatus /\ "NONE" \in BatchStatus
    BY DEF RunStatus, BatchStatus
  <2>2. run \in [Runs -> RunStatus] /\ batch \in [Batches -> BatchStatus] /\ gone \in BOOLEAN
    BY <2>1 DEF Init
  <2>3. view \in [Actors -> SnapshotType]
    BY SnapshotTypes DEF Init
  <2>. QED
    BY <2>2, <2>3, ActorTypes DEF Init, TypeOK
<1>. QED
  BY <1>1, TypeStep, PTL DEF Spec
-----------------------------------------------------------------------------
(* No queued run is lost: what a worker's snapshot may be behind in *)

\* A run row is inserted with its batch.
RowsTogether == \A r \in Runs : run[r] # "NONE" => batch[r[1]] # "NONE"

\* An open snapshot: it may show less of the batches and older statuses, but a
\* run that is queued now was queued then, if its batch was there.
Behind(w) ==
  /\ \A b \in Batches : view[w].batch[b] # "NONE" => batch[b] # "NONE"
  /\ \A r \in Runs : view[w].run[r] # "NONE" => view[w].batch[r[1]] # "NONE"
  /\ \A r \in Runs : run[r] = "QUEUED" /\ view[w].batch[r[1]] # "NONE" => view[w].run[r] = "QUEUED"

Snapshots ==
  \A w \in Workers :
    /\ Behind(w)
    /\ pc[w] = "claimed" => run[cur[w]] # "NONE"
    /\ pc[w] = "called" => view[w].run[cur[w]] # "NONE"

QueueInv == RowsTogether /\ Snapshots /\ NoRunForgotten

\* A new or a closed snapshot is not behind.
LEMMA FreshBehind ==
  ASSUME TypeOK, RowsTogether
  PROVE  /\ \A b \in Batches : Closed.batch[b] = "NONE" /\ Snapshot.batch[b] = batch[b]
         /\ \A r \in Runs : Closed.run[r] = "NONE" /\ Snapshot.run[r] = run[r]
         /\ \A r \in Runs : r[1] \in Batches
  BY RunsPairs DEF Closed, Snapshot

\* A step of w that leaves the other snapshots and what they show of the rows.
LEMMA OthersBehind ==
  ASSUME TypeOK, QueueInv, NEW w,
         \A v \in Workers \ {w} : pc'[v] = pc[v] /\ cur'[v] = cur[v] /\ view'[v] = view[v],
         \A b \in Batches : batch[b] # "NONE" => batch'[b] # "NONE",
         \A r \in Runs : run[r] # "NONE" => run'[r] # "NONE",
         \A r \in Runs : run'[r] = "QUEUED" => run[r] = "QUEUED" \/ batch[r[1]] = "NONE",
         NEW v \in Workers \ {w}
  PROVE  /\ Behind(v)'
         /\ pc'[v] = "claimed" => run'[cur'[v]] # "NONE"
         /\ pc'[v] = "called" => view'[v].run[cur'[v]] # "NONE"
<1>1. /\ Behind(v)
      /\ pc[v] = "claimed" => run[cur[v]] # "NONE"
      /\ pc[v] = "called" => view[v].run[cur[v]] # "NONE"
  BY DEF QueueInv, Snapshots
<1>2. pc[v] = "claimed" => cur[v] \in Runs
  BY ActorTypes DEF TypeOK
<1>3. Behind(v)'
  BY <1>1, RunsPairs DEF Behind
<1>. QED
  BY <1>1, <1>2, <1>3

\* A step of w that changes no row and opens or closes its snapshot.
LEMMA ReadStep ==
  ASSUME TypeOK, QueueInv, NEW w \in Workers, UNCHANGED <<run, batch>>,
         view'[w] \in {view[w], Snapshot, Closed},
         \A v \in Workers \ {w} : pc'[v] = pc[v] /\ cur'[v] = cur[v] /\ view'[v] = view[v],
         pc'[w] # "claimed",
         pc'[w] = "called" => view'[w].run[cur'[w]] # "NONE"
  PROVE  QueueInv'
<1>1. RowsTogether' /\ NoRunForgotten'
  BY DEF QueueInv, RowsTogether, NoRunForgotten
<1>2. Behind(w)'
  BY FreshBehind DEF QueueInv, RowsTogether, Snapshots, Behind
<1>3. Snapshots'
  BY <1>2, OthersBehind DEF Snapshots
<1>. QED
  BY <1>1, <1>3 DEF QueueInv

\* The commit of an outcome: a batch with a run to be done is not closed.
LEMMA FinishStep ==
  ASSUME TypeOK, QueueInv, NEW w \in Workers, NEW r \in Runs,
         NEW s \in {"COMPLETED", "FAILED"}, Finish(w, r, s),
         view[w].run[r] # "NONE",
         \A v \in Workers \ {w} : cur'[v] = cur[v]
  PROVE  QueueInv'
<1>. USE ActorTypes
<1>. DEFINE b == r[1]
            seen == view[w]
            new == Summary(Statuses(seen.run, r, s))
<1>1. /\ run' = [run EXCEPT ![r] = Flush(seen.run[r], s, @)]
      /\ batch' = [batch EXCEPT ![b] = Flush(seen.batch[b], new, @)]
      /\ view' = [view EXCEPT ![w] = Closed]
      /\ pc' = [pc EXCEPT ![w] = "reported"]
  BY DEF Finish, Goto
<1>2. /\ \A q \in Runs : seen.run[q] # "NONE" => seen.batch[q[1]] # "NONE"
      /\ \A q \in Runs : run[q] = "QUEUED" /\ seen.batch[q[1]] # "NONE" => seen.run[q] = "QUEUED"
      /\ \A c \in Batches : seen.batch[c] # "NONE" => batch[c] # "NONE"
  BY DEF QueueInv, Snapshots, Behind
<1>3. b \in Batches /\ \A q \in Runs : q[1] \in Batches
  BY RunsPairs
<1>4. new # "NONE"
  BY DEF Summary
<1>5. \A q \in Runs : run'[q] = "QUEUED" => run[q] = "QUEUED" /\ q # r
  BY <1>1, <1>2 DEF Flush, TypeOK
<1>6. \A q \in Runs : run[q] = "QUEUED" /\ q # r /\ q[1] = b => new = "RUNNING"
  BY <1>2 DEF Statuses, Summary
<1>7. /\ \A c \in Batches : batch[c] # "NONE" => batch'[c] # "NONE"
      /\ \A q \in Runs : run[q] # "NONE" => run'[q] # "NONE"
      /\ \A q \in Runs : run'[q] # "NONE" => run[q] # "NONE" \/ q = r
  BY <1>1, <1>3, <1>4 DEF Flush, TypeOK
<1>8. RowsTogether'
  BY <1>2, <1>3, <1>7 DEF QueueInv, RowsTogether
<1>9. NoRunForgotten'
  <2>1. SUFFICES ASSUME NEW q \in Runs, run'[q] = "QUEUED"
                 PROVE  batch'[q[1]] \in ActiveBatch
    BY DEF NoRunForgotten
  <2>2. batch[q[1]] \in ActiveBatch
    BY <1>5, <2>1 DEF QueueInv, NoRunForgotten
  <2>3. CASE q[1] # b
    BY <1>1, <2>2, <2>3
  <2>4. CASE q[1] = b
    <3>1. new = "RUNNING"
      BY <1>5, <1>6, <2>1, <2>4
    <3>. HIDE DEF new
    <3>. QED
      BY <1>1, <1>3, <2>2, <2>4, <3>1 DEF Flush, ActiveBatch, TypeOK
  <2>. QED
    BY <2>3, <2>4
<1>10. Snapshots'
  <2>1. pc'[w] = "reported" /\ view'[w] = Closed
    BY <1>1 DEF TypeOK
  <2>2. Behind(w)'
    BY <1>3, <2>1 DEF Behind, Closed
  <2>3. \A v \in Workers \ {w} : pc'[v] = pc[v] /\ cur'[v] = cur[v] /\ view'[v] = view[v]
    BY <1>1 DEF TypeOK
  <2>. QED
    BY <1>5, <1>7, <2>1, <2>2, <2>3, OthersBehind DEF Snapshots
<1>. QED
  BY <1>8, <1>9, <1>10 DEF QueueInv

\* The commit of RUNNING.
LEMMA ClaimStep ==
  ASSUME TypeOK, QueueInv, NEW w \in Workers, NEW r \in Runs, WorkerClaim(w, r)
  PROVE  QueueInv'
<1>. USE ActorTypes
<1>. DEFINE b == r[1]
<1>1. /\ run' = [run EXCEPT ![r] = "RUNNING"]
      /\ batch' = batch \/ batch' = [batch EXCEPT ![b] = "RUNNING"]
      /\ view' = [view EXCEPT ![w] = Closed]
      /\ cur' = [cur EXCEPT ![w] = r]
      /\ pc' = [pc EXCEPT ![w] = "claimed"]
  BY DEF WorkerClaim, Flush, Goto, TypeOK
<1>2. b \in Batches /\ \A q \in Runs : q[1] \in Batches
  BY RunsPairs
<1>3. batch[b] # "NONE"
  BY <1>2 DEF WorkerClaim, QueueInv, Snapshots, Behind
<1>4. /\ \A c \in Batches : batch[c] # "NONE" => batch'[c] # "NONE"
      /\ \A q \in Runs : run[q] # "NONE" => run'[q] # "NONE"
      /\ \A q \in Runs : run'[q] = "QUEUED" => run[q] = "QUEUED"
      /\ \A c \in Batches : batch[c] \in ActiveBatch => batch'[c] \in ActiveBatch
  BY <1>1, <1>2 DEF TypeOK, ActiveBatch
<1>5. RowsTogether'
  BY <1>1, <1>2, <1>3, <1>4 DEF QueueInv, RowsTogether, TypeOK
<1>6. NoRunForgotten'
  BY <1>2, <1>4 DEF QueueInv, NoRunForgotten
<1>7. Snapshots'
  <2>1. pc'[w] = "claimed" /\ view'[w] = Closed /\ cur'[w] = r /\ run'[r] # "NONE"
    BY <1>1 DEF TypeOK
  <2>2. Behind(w)'
    BY <1>2, <2>1 DEF Behind, Closed
  <2>3. \A v \in Workers \ {w} : pc'[v] = pc[v] /\ cur'[v] = cur[v] /\ view'[v] = view[v]
    BY <1>1 DEF TypeOK
  <2>. QED
    BY <1>4, <2>1, <2>2, <2>3, OthersBehind DEF Snapshots
<1>. QED
  BY <1>5, <1>6, <1>7 DEF QueueInv

\* The INSERT of a batch that no snapshot shows.
LEMMA InsertStep ==
  ASSUME TypeOK, QueueInv, NEW h \in Handlers, NEW b \in Batches, CreateInsert(h, b)
  PROVE  QueueInv'
<1>. USE ActorTypes, ConstantsAssumption
<1>1. /\ batch[b] = "NONE"
      /\ batch' = [batch EXCEPT ![b] = "QUEUED"]
      /\ run' = [r \in Runs |-> IF r[1] = b /\ r[2] \in wish[h] THEN "QUEUED" ELSE run[r]]
      /\ view' = view /\ cur' = cur
      /\ \A v \in Workers : pc'[v] = pc[v]
  BY DEF CreateInsert, Goto, TypeOK
<1>2. \A q \in Runs : q[1] \in Batches
  BY RunsPairs
<1>3. RowsTogether' /\ NoRunForgotten'
  BY <1>1, <1>2 DEF QueueInv, RowsTogether, NoRunForgotten, ActiveBatch, TypeOK
<1>4. /\ \A c \in Batches : batch[c] # "NONE" => batch'[c] # "NONE"
      /\ \A q \in Runs : run[q] # "NONE" => run'[q] # "NONE"
      /\ \A q \in Runs : run'[q] = "QUEUED" => run[q] = "QUEUED" \/ batch[q[1]] = "NONE"
  BY <1>1 DEF TypeOK
<1>5. Snapshots'
  <2>1. \A v \in Workers : v \in Workers \ {h}
    OBVIOUS
  <2>2. \A v \in Workers \ {h} : pc'[v] = pc[v] /\ cur'[v] = cur[v] /\ view'[v] = view[v]
    BY <1>1
  <2>. QED
    BY <1>4, <2>1, <2>2, OthersBehind DEF Snapshots
<1>. QED
  BY <1>3, <1>5 DEF QueueInv

\* No queued run is lost to the worker's query, however many workers recompute
\* a batch from however old a snapshot, and however often they are killed
\* (process_queued_comparison_runs, _refresh_batch_status).
THEOREM NoRunForgottenHolds == Spec => []NoRunForgotten
<1>1. Init => QueueInv
  BY RunsPairs DEF Init, QueueInv, RowsTogether, Snapshots, Behind, NoRunForgotten, Closed, Actors
<1>2. ASSUME TypeOK, QueueInv, [Next]_vars PROVE QueueInv'
  <2>. USE ActorTypes, ConstantsAssumption
  <2>1. ASSUME NEW h \in Handlers, NEW M, CreateRead(h, M) PROVE QueueInv'
    <3>1. UNCHANGED <<run, batch, view, cur>> /\ \A v \in Workers : pc'[v] = pc[v]
      BY <1>2, <2>1 DEF CreateRead, rows, Goto, TypeOK
    <3>. QED
      BY <1>2, <3>1 DEF QueueInv, RowsTogether, Snapshots, Behind, NoRunForgotten
  <2>2. CASE DropAttachment \/ UNCHANGED vars
    <3>1. UNCHANGED <<run, batch, view, cur, pc>>
      BY <2>2 DEF DropAttachment, vars, rows
    <3>. QED
      BY <1>2, <3>1 DEF QueueInv, RowsTogether, Snapshots, Behind, NoRunForgotten
  <2>3. ASSUME NEW w \in Workers, NEW r \in Runs, WorkerSkip(w, r) PROVE QueueInv'
    <3>1. UNCHANGED <<run, batch, view, cur, pc>>
      BY <2>3 DEF WorkerSkip, rows
    <3>. QED
      BY <1>2, <3>1 DEF QueueInv, RowsTogether, Snapshots, Behind, NoRunForgotten
  <2>4. ASSUME NEW w \in Workers, WorkerList(w) \/ WorkerReported(w) \/ WorkerExit(w) \/ Kill(w)
        PROVE  QueueInv'
    <3>1. /\ UNCHANGED <<run, batch>>
          /\ view'[w] \in {view[w], Snapshot, Closed}
          /\ \A v \in Workers \ {w} : pc'[v] = pc[v] /\ cur'[v] = cur[v] /\ view'[v] = view[v]
          /\ pc'[w] \in {"next", "idle"}
      BY <1>2, <2>4 DEF WorkerList, WorkerReported, WorkerExit, Kill, rows, Goto, TypeOK
    <3>. QED
      BY <1>2, <3>1, ReadStep
  <2>5. ASSUME NEW w \in Workers, WorkerReload(w) PROVE QueueInv'
    <3>1. /\ UNCHANGED <<run, batch, cur>>
          /\ view'[w] = Snapshot
          /\ \A v \in Workers \ {w} : pc'[v] = pc[v] /\ view'[v] = view[v]
          /\ pc'[w] = "called"
          /\ cur[w] \in Runs /\ run[cur[w]] # "NONE"
      BY <1>2, <2>5 DEF WorkerReload, rows, Goto, TypeOK, QueueInv, Snapshots
    <3>. QED
      BY <1>2, <3>1, ReadStep, FreshBehind DEF QueueInv
  <2>6. ASSUME NEW w \in Workers, WorkerOutcome(w) PROVE QueueInv'
    <3>1. cur[w] \in Runs /\ view[w].run[cur[w]] # "NONE"
      BY <1>2, <2>6 DEF WorkerOutcome, TypeOK, QueueInv, Snapshots
    <3>2. \A v \in Workers \ {w} : cur'[v] = cur[v]
      BY <1>2, <2>6 DEF WorkerOutcome, TypeOK
    <3>. QED
      BY <1>2, <2>6, <3>1, <3>2, FinishStep DEF WorkerOutcome
  <2>7. ASSUME NEW w \in Workers, NEW r \in Runs, WorkerMissing(w, r) PROVE QueueInv'
    BY <1>2, <2>7, FinishStep DEF WorkerMissing
  <2>. QED
    BY <1>2, <2>1, <2>2, <2>3, <2>4, <2>5, <2>6, <2>7, ClaimStep, InsertStep DEF Next, WorkerStep
<1>3. QueueInv => NoRunForgotten
  BY DEF QueueInv
<1>. QED
  BY <1>1, <1>2, <1>3, TypeCorrect, PTL DEF Spec

-----------------------------------------------------------------------------
(* One worker: its snapshot is behind in nothing but the batches inserted since *)

OneWorker == \A v, w \in Workers : v = w
OneHandler == \A g, h \in Handlers : g = h

\* The statuses a batch holds.
Held(f, b) == {f[r] : r \in {q \in Runs : q[1] = b /\ f[q] # "NONE"}}
Told(f, b) == IF Held(f, b) = {"QUEUED"} THEN "QUEUED" ELSE Summary(Held(f, b))

\* What an open snapshot shows is so.
Current(w) ==
  \A r \in Runs :
    /\ view[w].run[r] # "NONE" => view[w].batch[r[1]] # "NONE"
    /\ view[w].batch[r[1]] # "NONE" => view[w].run[r] = run[r] /\ view[w].batch[r[1]] = batch[r[1]]

\* Where the one worker is.
Busy(w) ==
  /\ pc[w] \in {"next", "called"} => Current(w)
  /\ pc[w] \in {"claimed", "called"} => run[cur[w]] = "RUNNING"
  /\ pc[w] = "called" => view[w].run[cur[w]] = "RUNNING"

SummaryInv ==
  /\ RowsTogether
  /\ \A b \in Batches : batch[b] # "NONE" => batch[b] = Told(run, b)
  /\ \A h \in Handlers : pc[h] = "insert" => wish[h] # {}
  /\ \A w \in Workers : Busy(w)

\* A batch is told of by its own runs.
LEMMA ToldAlone ==
  ASSUME NEW f, NEW g, NEW b, \A r \in Runs : r[1] = b => g[r] = f[r]
  PROVE  Told(g, b) = Told(f, b)
<1>1. Held(g, b) = Held(f, b)
  BY DEF Held
<1>. QED
  BY <1>1 DEF Told

\* A batch with a run to do or in progress is open.
LEMMA ToldOpen ==
  ASSUME NEW f, NEW r \in Runs, f[r] \in {"QUEUED", "RUNNING"}
  PROVE  /\ Told(f, r[1]) \in ActiveBatch
         /\ f[r] = "RUNNING" => Told(f, r[1]) = "RUNNING"
<1>1. f[r] \in Held(f, r[1])
  BY DEF Held
<1>. QED
  BY <1>1 DEF Told, Summary, ActiveBatch

LEMMA SummaryInitInv == Init => SummaryInv
<1>. SUFFICES ASSUME Init PROVE SummaryInv
  OBVIOUS
<1>1. RowsTogether /\ \A b \in Batches : batch[b] = "NONE"
  BY DEF Init, RowsTogether
<1>2. \A p \in Actors : pc[p] = "idle"
  BY DEF Init
<1>. QED
  BY <1>1, <1>2, ActorTypes DEF SummaryInv, Busy

\* A step that leaves the rows.
LEMMA RowsRest ==
  ASSUME TypeOK, SummaryInv, UNCHANGED <<run, batch>>,
         \A h \in Handlers : pc'[h] = "insert" => wish'[h] # {},
         \A w \in Workers :
           \/ pc'[w] = pc[w] /\ cur'[w] = cur[w] /\ view'[w] = view[w]
           \/ pc'[w] \in {"idle", "reported"}
           \/ pc'[w] = "next" /\ view'[w] = Snapshot
           \/ pc'[w] = "called" /\ pc[w] = "claimed" /\ view'[w] = Snapshot /\ cur'[w] = cur[w]
  PROVE  SummaryInv'
<1>1. RowsTogether' /\ \A b \in Batches : batch'[b] # "NONE" => batch'[b] = Told(run', b)
  BY DEF SummaryInv, RowsTogether
<1>2. ASSUME NEW w \in Workers PROVE Busy(w)'
  <2>1. Busy(w)
    BY DEF SummaryInv
  <2>2. CASE pc'[w] = pc[w] /\ cur'[w] = cur[w] /\ view'[w] = view[w]
    BY <2>1, <2>2 DEF Busy, Current
  <2>3. CASE pc'[w] \in {"idle", "reported"}
    BY <2>3 DEF Busy
  <2>4. view'[w] = Snapshot => Current(w)'
    <3>1. \A r \in Runs : r[1] \in Batches /\ (run[r] # "NONE" => batch[r[1]] # "NONE")
      BY RunsPairs DEF SummaryInv, RowsTogether
    <3>2. Snapshot.run = run /\ Snapshot.batch = batch
      BY DEF Snapshot
    <3>. QED
      BY <3>1, <3>2 DEF Current
  <2>5. CASE pc'[w] = "next" /\ view'[w] = Snapshot
    BY <2>4, <2>5 DEF Busy
  <2>6. CASE pc'[w] = "called" /\ pc[w] = "claimed" /\ view'[w] = Snapshot /\ cur'[w] = cur[w]
    <3>1. run[cur[w]] = "RUNNING" /\ Snapshot.run = run
      BY <2>1, <2>6 DEF Busy, Snapshot
    <3>. QED
      BY <2>4, <2>6, <3>1 DEF Busy
  <2>. QED
    BY <2>2, <2>3, <2>5, <2>6
<1>. QED
  BY <1>1, <1>2 DEF SummaryInv

\* The run the one worker commits is as its snapshot shows it, and so is its batch.
LEMMA Seen ==
  ASSUME SummaryInv, NEW w \in Workers, NEW r \in Runs, pc[w] \in {"next", "called"},
         view[w].run[r] \in {"QUEUED", "RUNNING"}
  PROVE  /\ run[r] = view[w].run[r] /\ batch[r[1]] = view[w].batch[r[1]]
         /\ batch[r[1]] = Told(run, r[1]) /\ batch[r[1]] \in ActiveBatch
         /\ run[r] = "RUNNING" => batch[r[1]] = "RUNNING"
         /\ \A q \in Runs : q[1] = r[1] => view[w].run[q] = run[q]
<1>1. Current(w) /\ r[1] \in Batches
  BY RunsPairs DEF SummaryInv, Busy
<1>2. view[w].batch[r[1]] # "NONE"
  BY <1>1 DEF Current
<1>3. /\ run[r] = view[w].run[r] /\ batch[r[1]] = view[w].batch[r[1]]
      /\ \A q \in Runs : q[1] = r[1] => view[w].run[q] = run[q]
  BY <1>1, <1>2 DEF Current
<1>4. batch[r[1]] = Told(run, r[1])
  BY <1>1, <1>2, <1>3 DEF SummaryInv
<1>. QED
  BY <1>3, <1>4, ToldOpen

\* The one worker writes a run of an open batch and the batch's status with it.
LEMMA WriteStep ==
  ASSUME TypeOK, SummaryInv, OneWorker, NEW w \in Workers, NEW r \in Runs, NEW s, NEW n,
         s # "NONE", batch[r[1]] # "NONE",
         run' = [run EXCEPT ![r] = s], batch' = [batch EXCEPT ![r[1]] = n],
         n = Told(run', r[1]),
         \A h \in Handlers : pc'[h] = pc[h] /\ wish'[h] = wish[h],
         pc'[w] \notin {"next", "called"}, pc'[w] = "claimed" => cur'[w] = r /\ s = "RUNNING"
  PROVE  SummaryInv'
<1>1. r[1] \in Batches /\ \A q \in Runs : q[1] \in Batches
  BY RunsPairs
<1>2. /\ run'[r] = s /\ batch'[r[1]] = n
      /\ \A q \in Runs : q # r => run'[q] = run[q]
      /\ \A b \in Batches : b # r[1] => batch'[b] = batch[b]
  BY <1>1 DEF TypeOK
<1>3. n # "NONE"
  BY DEF Told, Summary
<1>4. RowsTogether'
  BY <1>1, <1>2, <1>3 DEF SummaryInv, RowsTogether
<1>5. ASSUME NEW b \in Batches, batch'[b] # "NONE" PROVE batch'[b] = Told(run', b)
  <2>1. CASE b = r[1]
    BY <1>2, <2>1
  <2>2. CASE b # r[1]
    <3>1. \A q \in Runs : q[1] = b => run'[q] = run[q]
      BY <1>2, <2>2
    <3>2. Told(run', b) = Told(run, b)
      BY ONLY <3>1, ToldAlone
    <3>. QED
      BY <1>2, <1>5, <2>2, <3>2 DEF SummaryInv
  <2>. QED
    BY <2>1, <2>2
<1>6. Busy(w)'
  BY <1>2 DEF Busy
<1>7. \A v \in Workers : v = w
  BY DEF OneWorker
<1>. QED
  BY <1>4, <1>5, <1>6, <1>7 DEF SummaryInv

\* A commit of the worker opens no batch again and adds no run to one.
Settling ==
  /\ \A b \in Batches : batch'[b] \in ActiveBatch => batch[b] \in ActiveBatch
  /\ \A r \in Runs : run'[r] = "NONE" <=> run[r] = "NONE"
  /\ \A h \in Handlers : pc'[h] = pc[h] /\ wish'[h] = wish[h]

LEMMA OutcomeStep ==
  ASSUME TypeOK, SummaryInv, OneWorker, NEW w \in Workers, NEW r \in Runs,
         NEW s \in {"COMPLETED", "FAILED"}, Finish(w, r, s), wish' = wish,
         pc[w] \in {"next", "called"}, view[w].run[r] \in {"QUEUED", "RUNNING"}
  PROVE  SummaryInv' /\ Settling
<1>. DEFINE b == r[1]
            seen == view[w]
            new == Summary(Statuses(seen.run, r, s))
<1>1. /\ run' = [run EXCEPT ![r] = Flush(seen.run[r], s, @)]
      /\ batch' = [batch EXCEPT ![b] = Flush(seen.batch[b], new, @)]
      /\ pc' = [pc EXCEPT ![w] = "reported"]
  BY DEF Finish, Goto
<1>2. /\ run[r] = seen.run[r] /\ batch[b] = seen.batch[b] /\ batch[b] \in ActiveBatch
      /\ \A q \in Runs : q[1] = b => seen.run[q] = run[q]
  BY Seen
<1>3. b \in Batches /\ w \in Actors /\ Handlers \subseteq Actors /\ w \notin Handlers
  BY RunsPairs, ActorTypes, ConstantsAssumption
<1>4. run' = [run EXCEPT ![r] = s] /\ batch' = [batch EXCEPT ![b] = new]
  <2>1. Flush(seen.run[r], s, run[r]) = s
    BY <1>2 DEF Flush
  <2>2. Flush(seen.batch[b], new, batch[b]) = new
    BY <1>2 DEF Flush
  <2>. HIDE DEF new
  <2>. QED
    BY <1>1, <2>1, <2>2
<1>5. run'[r] = s /\ \A q \in Runs : q # r => run'[q] = run[q]
  BY <1>4 DEF TypeOK
<1>6. Held(run', b) = Statuses(seen.run, r, s)
  BY <1>2, <1>5 DEF Held, Statuses
<1>7. s \in Held(run', b)
  BY <1>5 DEF Held
<1>8. new = Told(run', b)
  BY <1>6, <1>7 DEF Told
<1>9. pc'[w] = "reported" /\ \A h \in Handlers : pc'[h] = pc[h]
  BY <1>1, <1>3 DEF TypeOK
<1>10. batch[b] # "NONE"
  BY <1>2 DEF ActiveBatch
<1>. HIDE DEF new
<1>11. SummaryInv'
  BY <1>4, <1>8, <1>9, <1>10, WriteStep
<1>12. \A c \in Batches : batch'[c] \in ActiveBatch => batch[c] \in ActiveBatch
  BY <1>2, <1>3, <1>4 DEF TypeOK
<1>13. \A q \in Runs : run'[q] = "NONE" <=> run[q] = "NONE"
  BY <1>2, <1>5
<1>. QED
  BY <1>9, <1>11, <1>12, <1>13 DEF Settling

LEMMA StartStep ==
  ASSUME TypeOK, SummaryInv, OneWorker, NEW w \in Workers, NEW r \in Runs, WorkerClaim(w, r)
  PROVE  SummaryInv' /\ Settling
<1>. DEFINE b == r[1]
            seen == view[w]
<1>1. /\ pc[w] = "next" /\ seen.run[r] = "QUEUED"
      /\ run' = [run EXCEPT ![r] = Flush(seen.run[r], "RUNNING", @)]
      /\ batch' = [batch EXCEPT ![b] = IF seen.batch[b] = "QUEUED" THEN "RUNNING" ELSE @]
      /\ pc' = [pc EXCEPT ![w] = "claimed"] /\ cur' = [cur EXCEPT ![w] = r] /\ wish' = wish
  BY DEF WorkerClaim, IsNext, Goto
<1>2. run[r] = seen.run[r] /\ batch[b] = seen.batch[b] /\ batch[b] \in ActiveBatch
  BY <1>1, Seen
<1>3. b \in Batches /\ w \in Actors /\ Handlers \subseteq Actors /\ w \notin Handlers
  BY RunsPairs, ActorTypes, ConstantsAssumption
<1>4. run' = [run EXCEPT ![r] = "RUNNING"] /\ batch' = [batch EXCEPT ![b] = "RUNNING"]
  BY <1>1, <1>2 DEF Flush, ActiveBatch
<1>5. run'[r] = "RUNNING"
  BY <1>4 DEF TypeOK
<1>6. Told(run', b) = "RUNNING"
  BY <1>5, ToldOpen
<1>7. pc'[w] = "claimed" /\ cur'[w] = r /\ \A h \in Handlers : pc'[h] = pc[h]
  BY <1>1, <1>3 DEF TypeOK
<1>8. batch[b] # "NONE"
  BY <1>2 DEF ActiveBatch
<1>9. SummaryInv'
  <2>1. pc'[w] \notin {"next", "called"} /\ "RUNNING" # "NONE" /\ "RUNNING" = Told(run', b)
    BY <1>6, <1>7
  <2>2. \A h \in Handlers : pc'[h] = pc[h] /\ wish'[h] = wish[h]
    BY <1>1, <1>7
  <2>. QED
    BY <1>4, <1>7, <1>8, <2>1, <2>2, WriteStep
<1>10. \A c \in Batches : batch'[c] \in ActiveBatch => batch[c] \in ActiveBatch
  BY <1>2, <1>3, <1>4 DEF TypeOK
<1>11. \A q \in Runs : run'[q] = "NONE" <=> run[q] = "NONE"
  BY <1>1, <1>2, <1>4 DEF TypeOK
<1>. QED
  BY <1>1, <1>7, <1>9, <1>10, <1>11 DEF Settling

\* A new batch is of queued runs only, and no snapshot shows it.
LEMMA NewBatch ==
  ASSUME TypeOK, SummaryInv, NEW h \in Handlers, NEW b \in Batches, CreateInsert(h, b)
  PROVE  SummaryInv'
<1>1. /\ pc[h] = "insert" /\ batch[b] = "NONE" /\ wish[h] # {} /\ wish[h] \subseteq Models
      /\ batch' = [batch EXCEPT ![b] = "QUEUED"]
      /\ run' = [r \in Runs |-> IF r[1] = b /\ r[2] \in wish[h] THEN "QUEUED" ELSE run[r]]
      /\ pc' = [pc EXCEPT ![h] = "idle"] /\ wish' = [wish EXCEPT ![h] = {}]
      /\ view' = view /\ cur' = cur
  BY ActorTypes DEF CreateInsert, Goto, TypeOK, SummaryInv
<1>2. \A q \in Runs : q[1] \in Batches /\ (q[1] = b => run[q] = "NONE")
  BY <1>1, RunsPairs DEF SummaryInv, RowsTogether
<1>3. /\ \A q \in Runs : q[1] # b => run'[q] = run[q]
      /\ \A q \in Runs : q[1] = b => run'[q] \in {"NONE", "QUEUED"}
      /\ batch'[b] = "QUEUED" /\ \A c \in Batches : c # b => batch'[c] = batch[c]
  BY <1>1, <1>2 DEF TypeOK
<1>4. RowsTogether'
  BY <1>2, <1>3 DEF SummaryInv, RowsTogether
<1>5. Told(run', b) = "QUEUED"
  <2>1. PICK m \in wish[h] : m \in Models
    BY <1>1
  <2>2. <<b, m>> \in Runs /\ <<b, m>>[1] = b /\ <<b, m>>[2] = m
    BY <2>1 DEF Runs
  <2>3. run'[<<b, m>>] = "QUEUED"
    BY <1>1, <2>1, <2>2
  <2>4. "QUEUED" \in Held(run', b)
    BY <2>2, <2>3 DEF Held
  <2>5. \A s \in Held(run', b) : s = "QUEUED"
    BY <1>3 DEF Held
  <2>. QED
    BY <2>4, <2>5 DEF Told
<1>6. ASSUME NEW c \in Batches, batch'[c] # "NONE" PROVE batch'[c] = Told(run', c)
  <2>1. CASE c = b
    BY <1>3, <1>5, <2>1
  <2>2. CASE c # b
    <3>1. Told(run', c) = Told(run, c)
      BY <1>3, <2>2, ToldAlone
    <3>. QED
      BY <1>3, <1>6, <2>2, <3>1 DEF SummaryInv
  <2>. QED
    BY <2>1, <2>2
<1>7. ASSUME NEW w \in Workers PROVE Busy(w)'
  <2>1. Busy(w) /\ pc'[w] = pc[w] /\ cur'[w] = cur[w] /\ view'[w] = view[w]
    BY <1>1, ActorTypes, ConstantsAssumption DEF SummaryInv, TypeOK
  <2>2. Current(w) => Current(w)'
    BY <1>1, <1>2, <1>3, <2>1 DEF Current
  <2>3. pc[w] \in {"claimed", "called"} => run'[cur[w]] = "RUNNING"
    <3>1. pc[w] \in {"claimed", "called"} => cur[w] \in Runs /\ run[cur[w]] = "RUNNING"
      BY <2>1 DEF Busy, TypeOK
    <3>. QED
      BY <1>2, <1>3, <3>1
  <2>. QED
    BY <2>1, <2>2, <2>3 DEF Busy
<1>8. \A g \in Handlers : pc'[g] = "insert" => wish'[g] # {}
  BY <1>1, ActorTypes DEF SummaryInv, TypeOK
<1>. QED
  BY <1>4, <1>6, <1>7, <1>8 DEF SummaryInv

\* The reads, the end and the death of a worker.
LEMMA ReadOnly ==
  ASSUME TypeOK, SummaryInv,
         \/ DropAttachment \/ UNCHANGED vars
         \/ \E h \in Handlers, M \in (SUBSET Models) \ {{}} : CreateRead(h, M)
         \/ \E w \in Workers :
              \/ WorkerList(w) \/ WorkerReload(w) \/ WorkerReported(w) \/ WorkerExit(w) \/ Kill(w)
              \/ \E r \in Runs : WorkerSkip(w, r)
  PROVE  /\ SummaryInv' /\ UNCHANGED <<run, batch>>
         /\ \A h \in Handlers :
              pc'[h] = "insert" => NotRequested(wish'[h]) \/ (pc[h] = "insert" /\ wish'[h] = wish[h])
<1>. DEFINE Asked == \A h \in Handlers :
              pc'[h] = "insert" => NotRequested(wish'[h]) \/ (pc[h] = "insert" /\ wish'[h] = wish[h])
<1>. USE ActorTypes, ConstantsAssumption
<1>1. CASE DropAttachment \/ UNCHANGED vars
  <2>1. UNCHANGED <<run, batch, pc, wish, cur, view>>
    BY <1>1 DEF DropAttachment, vars, rows
  <2>2. \A h \in Handlers : pc'[h] = "insert" => wish'[h] # {}
    BY <2>1 DEF SummaryInv
  <2>. QED
    BY <2>1, <2>2, RowsRest
<1>2. ASSUME NEW h \in Handlers, NEW M \in (SUBSET Models) \ {{}}, CreateRead(h, M)
      PROVE  SummaryInv' /\ UNCHANGED <<run, batch>> /\ Asked
  <2>1. /\ UNCHANGED <<run, batch, cur, view>> /\ NotRequested(M)
        /\ pc' = [pc EXCEPT ![h] = "insert"] /\ wish' = [wish EXCEPT ![h] = M] /\ M # {}
    BY <1>2 DEF CreateRead, Goto, rows
  <2>2. \A g \in Handlers : pc'[g] = "insert" => wish'[g] # {}
    BY <2>1 DEF SummaryInv, TypeOK
  <2>3. \A w \in Workers : pc'[w] = pc[w] /\ cur'[w] = cur[w] /\ view'[w] = view[w]
    BY <2>1 DEF TypeOK
  <2>4. Asked
    BY <2>1 DEF TypeOK
  <2>. QED
    BY <2>1, <2>2, <2>3, <2>4, RowsRest
<1>3. ASSUME NEW w \in Workers,
             \/ WorkerList(w) \/ WorkerReload(w) \/ WorkerReported(w) \/ WorkerExit(w) \/ Kill(w)
             \/ \E r \in Runs : WorkerSkip(w, r)
      PROVE  SummaryInv' /\ UNCHANGED <<run, batch>> /\ Asked
  <2>1. /\ UNCHANGED <<run, batch, wish>>
        /\ \A p \in Actors : p # w => pc'[p] = pc[p] /\ cur'[p] = cur[p] /\ view'[p] = view[p]
    BY <1>3 DEF WorkerList, WorkerReload, WorkerReported, WorkerExit, Kill, WorkerSkip, Goto, rows, TypeOK
  <2>2. \/ pc'[w] = pc[w] /\ cur'[w] = cur[w] /\ view'[w] = view[w]
        \/ pc'[w] \in {"idle", "reported"}
        \/ pc'[w] = "next" /\ view'[w] = Snapshot
        \/ pc'[w] = "called" /\ pc[w] = "claimed" /\ view'[w] = Snapshot /\ cur'[w] = cur[w]
    BY <1>3 DEF WorkerList, WorkerReload, WorkerReported, WorkerExit, Kill, WorkerSkip, Goto, rows, TypeOK
  <2>3. \A h \in Handlers : pc'[h] = "insert" => wish'[h] # {}
    BY <2>1 DEF SummaryInv
  <2>4. \A v \in Workers :
           \/ pc'[v] = pc[v] /\ cur'[v] = cur[v] /\ view'[v] = view[v]
           \/ pc'[v] \in {"idle", "reported"}
           \/ pc'[v] = "next" /\ view'[v] = Snapshot
           \/ pc'[v] = "called" /\ pc[v] = "claimed" /\ view'[v] = Snapshot /\ cur'[v] = cur[v]
    BY <2>1, <2>2
  <2>. QED
    BY <2>1, <2>3, <2>4, RowsRest
<1>. QED
  BY <1>1, <1>2, <1>3

\* The commits of the worker never open a batch again.
LEMMA WorkerCommit ==
  ASSUME TypeOK, SummaryInv, OneWorker, NEW w \in Workers,
         WorkerOutcome(w) \/ \E r \in Runs : WorkerMissing(w, r) \/ WorkerClaim(w, r)
  PROVE  SummaryInv' /\ Settling
<1>1. CASE WorkerOutcome(w)
  <2>1. /\ pc[w] \in {"next", "called"} /\ cur[w] \in Runs
        /\ view[w].run[cur[w]] \in {"QUEUED", "RUNNING"} /\ wish' = wish
    BY <1>1 DEF WorkerOutcome, TypeOK, SummaryInv, Busy
  <2>2. PICK s \in {"COMPLETED", "FAILED"} : Finish(w, cur[w], s)
    BY <1>1 DEF WorkerOutcome
  <2>. QED
    BY <2>1, <2>2, OutcomeStep
<1>2. ASSUME NEW r \in Runs, WorkerMissing(w, r)
      PROVE  SummaryInv' /\ Settling
  <2>1. /\ pc[w] \in {"next", "called"} /\ Finish(w, r, "FAILED")
        /\ view[w].run[r] \in {"QUEUED", "RUNNING"} /\ wish' = wish
    BY <1>2 DEF WorkerMissing, IsNext
  <2>. QED
    BY <2>1, OutcomeStep
<1>. QED
  BY <1>1, <1>2, StartStep

LEMMA SummaryStep ==
  ASSUME OneWorker, TypeOK, SummaryInv, [Next]_vars
  PROVE  SummaryInv'
BY NewBatch, ReadOnly, WorkerCommit DEF Next, WorkerStep

\* With one worker, whatever it is killed in and however many administrators ask,
\* the status of every batch is the summary of its runs (_refresh_batch_status).
THEOREM BatchSummary == ASSUME OneWorker PROVE Spec => []BatchSummarisesRuns
<1>1. SummaryInv => BatchSummarisesRuns
  BY DEF SummaryInv, BatchSummarisesRuns, Told, Held
<1>. QED
  BY SummaryInitInv, SummaryStep, <1>1, TypeCorrect, PTL DEF Spec

\* Nobody is about to insert what is queued or running already.
ChoiceInv ==
  /\ SummaryInv /\ OneBatchPerChoice
  /\ \A h \in Handlers : pc[h] = "insert" => NotRequested(wish[h])

LEMMA ChoiceStep ==
  ASSUME OneWorker, OneHandler, TypeOK, ChoiceInv, [Next]_vars
  PROVE  ChoiceInv'
<1>1. CASE UNCHANGED <<run, batch>>
           /\ \A h \in Handlers :
                pc'[h] = "insert" => NotRequested(wish'[h]) \/ (pc[h] = "insert" /\ wish'[h] = wish[h])
  <2>1. OneBatchPerChoice'
    BY <1>1 DEF ChoiceInv, OneBatchPerChoice, Chosen
  <2>2. ASSUME NEW h \in Handlers, pc'[h] = "insert" PROVE NotRequested(wish[h])'
    <3>1. NotRequested(wish'[h])
      BY <1>1, <2>2 DEF ChoiceInv
    <3>. QED
      BY <1>1, <3>1 DEF NotRequested, Chosen
  <2>. QED
    BY <2>1, <2>2, SummaryStep DEF ChoiceInv
<1>2. CASE Settling
  <2>1. \A b \in Batches : Chosen(b)' = Chosen(b)
    BY <1>2 DEF Settling, Chosen, Runs
  <2>2. OneBatchPerChoice'
    BY <1>2, <2>1 DEF Settling, ChoiceInv, OneBatchPerChoice
  <2>3. ASSUME NEW h \in Handlers, pc'[h] = "insert" PROVE NotRequested(wish[h])'
    <3>1. NotRequested(wish[h]) /\ wish'[h] = wish[h]
      BY <1>2, <2>3 DEF Settling, ChoiceInv
    <3>2. \A b \in Batches : batch'[b] \in ActiveBatch => Chosen(b)' # wish[h]
      BY <1>2, <2>1, <3>1 DEF Settling, NotRequested
    <3>. QED
      BY <3>1, <3>2 DEF NotRequested
  <2>. QED
    BY <2>2, <2>3, SummaryStep DEF ChoiceInv
<1>3. ASSUME NEW h \in Handlers, NEW b \in Batches, CreateInsert(h, b) PROVE ChoiceInv'
  <2>1. /\ pc[h] = "insert" /\ batch[b] = "NONE" /\ wish[h] \subseteq Models /\ NotRequested(wish[h])
        /\ batch' = [batch EXCEPT ![b] = "QUEUED"] /\ pc'[h] = "idle"
        /\ run' = [r \in Runs |-> IF r[1] = b /\ r[2] \in wish[h] THEN "QUEUED" ELSE run[r]]
    BY <1>3, ActorTypes DEF CreateInsert, Goto, TypeOK, ChoiceInv
  <2>2. \A m \in Models : \A c \in Batches :
          <<c, m>> \in Runs /\ <<c, m>>[1] = c /\ <<c, m>>[2] = m
    BY DEF Runs
  <2>3. \A m \in Models : run[<<b, m>>] = "NONE"
    BY <2>1, <2>2 DEF ChoiceInv, SummaryInv, RowsTogether
  <2>4. Chosen(b)' = wish[h]
    BY <2>1, <2>2, <2>3 DEF Chosen
  <2>5. \A c \in Batches : c # b => Chosen(c)' = Chosen(c) /\ batch'[c] = batch[c]
    BY <2>1, <2>2 DEF Chosen, TypeOK
  <2>6. OneBatchPerChoice'
    BY <2>1, <2>4, <2>5 DEF ChoiceInv, OneBatchPerChoice, NotRequested
  <2>7. \A g \in Handlers : pc'[g] = "idle"
    BY <2>1 DEF OneHandler
  <2>. QED
    BY <2>6, <2>7, SummaryStep DEF ChoiceInv
<1>. QED
  BY <1>1, <1>2, <1>3, ReadOnly, WorkerCommit DEF Next, WorkerStep, ChoiceInv

\* One administrator after the other, and one worker: the same models are never
\* queued or running twice (the 409 of create_batch).
THEOREM OneBatch == ASSUME OneWorker, OneHandler PROVE Spec => []OneBatchPerChoice
<1>1. Init => ChoiceInv
  <2>. SUFFICES ASSUME Init PROVE ChoiceInv
    OBVIOUS
  <2>1. \A b \in Batches : batch[b] \notin ActiveBatch
    BY DEF Init, ActiveBatch
  <2>2. \A h \in Handlers : pc[h] = "idle"
    BY ActorTypes DEF Init
  <2>. QED
    BY <2>1, <2>2, SummaryInitInv DEF ChoiceInv, OneBatchPerChoice
<1>2. ChoiceInv => OneBatchPerChoice
  BY DEF ChoiceInv
<1>. QED
  BY <1>1, <1>2, ChoiceStep, TypeCorrect, PTL DEF Spec
=============================================================================

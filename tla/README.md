# STACCATO in TLA+

STACCATO watches highways: cameras and a video analysis server (`ai-vm`), a web
backend (`flask-vm`, Flask + MySQL + Socket.IO), a frontend (`frontend-vm`,
Next.js) and a database (`db-vm`). These modules model the parts of it whose
correctness depends on the order in which processes, threads and requests act.
TLC checks them on small instances; TLAPS proves every safety property, action property
and refinement that the passing runs check, for every instance.

    tlc -workers 2 -config RA_serial.cfg MCReportAnalysis.tla
    tlapm ReportAnalysis_proofs.tla

## The system

| Component | State it keeps | Operations | Hard behaviours | What makes it correct | Modules |
|---|---|---|---|---|---|
| **Report analysis jobs** (`report_upload/service.py`, `report_analysis_worker.py`) | rows of reports, attachments, jobs, incidents | request, worker batch, retry, add/delete attachment, delete report, set status | no row locks: an operation reads one snapshot, decides, commits later; a minutes-long AI call between two commits; killed processes | one active job per attachment, none on a deleted one, one runner and one incident per job, no job stuck | `ReportAnalysis` |
| **Report records** (`report_upload/service.py`) | a report's row, location, status history | draft, create, edit, status, delete | overlapping requests on one row | deleted stays deleted, history adds up | `ReportRecord` |
| **Model comparison** (`report_model_comparison/service.py`, worker, systemd timer) | batch rows, one run row per model | request a batch, timer-driven worker | a batch status recomputed from a snapshot opened before the AI call; a worker killed by `TimeoutStartSec` | no queued run forgotten, batch = summary of its runs, batches end | `ModelComparison` |
| **AI gateway** (`ai_gateway/service.py`) | none | one HTTP call with a timeout | failure, no result yet | every answer becomes an outcome of the job | in `ReportAnalysis`, `ModelComparison` |
| **Camera pipeline** (`ai-vm/app/camera_worker.py`, `inference_worker.py`, `analysis_queue.py`, `bbox_store.py`, `cameras.py`, `main.py`) | latest frame and JPEG cache, drop-oldest queue, boxes, worker states | start, stop, view, push, pop, publish | threads that outlive `stop()`, two locks that do not exclude each other, a cache keyed by a counter that moves first | a stopped camera is still, the cache lags one frame at most | `CameraPipeline`, `LatestImage` |
| **Event clips** (`event_clip_worker.py`, `ring_buffer.py`) | ring, active clips, a bounded write queue | detect, frame, complete, write, stop | frames between two steps, a full queue, stop before hand-over | a clip keeps its window, every event is sent or counted as dropped | `EventClips` |
| **MJPEG slots** (`stream_server.py`) | two counters and a table under a lock | claim, release (generator, response, cleanup) | several releases of one slot, disconnects at any point | counters = held slots, limits kept, slots come back | `StreamSlots` |
| **Report detection** (`main.py`, `report_stop_analyzer.py`) | a semaphore, temporary and annotated files, tracks | detect | exceptions half-way, an unlink that fails; lost and mixed-up tracks | permits and files come back, one event per stop of a track | `ReportDetection`, `StopAnalyzer` |
| **Event relay and incidents** (`relay_client.py`, `ai_relay`, `incident_event`) | events, incidents, realtime events (PENDING/SENT/FAILED) | store, create incident, emit | a timeout after the server stored it, the same event twice at once, emission after the commit, a row looked for in the newest 1000 only | stored with its incident, announced once, SENT only if emitted, one row unless the search misses it | `EventRelay` |
| **Incident workflow** (`incident/routes.py`) | status, `resolved_at`, history | update status, upload | updates from one loaded status | history is a chain where nothing overlapped | `IncidentStatus`, `StoredFiles` |
| **Accounts and Socket.IO** (`auth/service.py`, `utils/security.py`, `socketio/events.py`) | user, signup request, codes, OAuth states, sessions, sockets | signup, resend, verify, Google, login, review, withdraw, connect, join | two rows per review, a code cancelled after it was used, sockets checked only when they connect | rows agree, only the approved act | `Accounts` |
| **Chat** (`chat/service.py`) | rooms, members, messages, read marks | create, add, leave, close, send, unsend, read | no unique key, no lock | a serial order, but for what overlapped | `Chat` |
| **Board, bug reports, resources** | rows with counters, files beside rows | edit, open, close, delete, upload, replace | lost updates; a disk that is no part of the transaction | no write undone, every row has its file, no file without a row | `SharedRows`, `StoredFiles` |
| **CCTV tables and ITS list** (`cctv/routes.py`, `its_cctv_cache.py`) | cameras, regions, wall slots; a cached list | edits; save, load | overlapping puts; a temporary file two threads share, a save dated before another one | tables agree, the published list is whole and the newest | `CctvRecords`, `ItsCache` |
| **Media cleanup** (`scripts/cleanup_event_media.py`) | files on disk, events that name them | two sweeps | events stored after they were read | protected media stay | `MediaCleanup` |
| **Daily report scripts**, **replay/media/dashboard/notification/location queries**, **detectors and overlay**, **frontend** | none of their own | reads, proxies, drawing, numbers | little | see *Not modelled* | none |

How they interact: the capture thread of a camera (`CameraPipeline`) feeds the latest
image (`LatestImage`), the ring and the clips (`EventClips`), and the viewers
(`StreamSlots`). A finished clip's event goes through the relay client to `flask-vm`
(`EventRelay`), which makes an incident of it and announces it over Socket.IO; operators
then work on that incident (`IncidentStatus`) and talk about it (`Chat`). Citizens upload
reports to `flask-vm` (`ReportRecord`, `StoredFiles`); two batch workers, separate
processes on the same database, send the attachments to the AI server's `/detect`
(`ReportAnalysis`, `ModelComparison`, `ReportDetection`). Nothing but the database
connects web requests and workers.

## Reading and writing rows

The modules of the backend rest on the same reading of the database layer (MySQL InnoDB
and SQLAlchemy, which the repository uses and does not contain; the operators `Flush`,
`Look` and `Snapshot` are marked external in `PROJECT.json`):

- A transaction reads in the snapshot that its first read opened (REPEATABLE READ).
  Hardly any query of these modules locks a row. So the read and the commit of an
  operation are two actions, with every other actor's steps in between.
- After a commit every loaded row is expired. The next use of one (in the reports
  service the Socket.IO emitter, in the comparisons `report.cctv_id` or the next
  run) opens the next snapshot. It is an action of its own (`Reload`,
  `WorkerReported`, `WorkerReload`).
- An UPDATE names only the columns whose value differs from the loaded one
  (`Flush`). A stale reader may thus write less than its code says.
- In MySQL an UPDATE waits for a row another transaction has updated and not
  committed. An action that writes is a whole commit, so this wait has no state.
- Where the tables have a unique key (event ids, incident codes, e-mail codes, camera
  codes) the second insert fails and its request rolls back; where they have none (active
  jobs, chat members, regions of one type) both rows are there.

On the AI server the steps are those between two acquisitions of a lock, or between two
accesses of a field that no lock guards; `/detect` is a coroutine that never awaits after
its upload is read, so its actions exclude each other.

Many properties of the backend say: *the rows agree, unless two requests overlapped*. To
say which, a row carries how many rows its request had `seen` when it was read, or a
history variable names the overlap. What is excused is then exactly the overlap, and any
other way to the same state is a violation.

## Modules

| Module | What it is |
|---|---|
| `ReportAnalysis`, `AnalysisPromise` | the analysis jobs of one report; the abstract specification, in which a check and the write it guards are one step |
| `ModelComparison` | batches and runs of the model comparison of one attachment |
| `CameraPipeline` | one camera: its generations of workers, their threads, the requests that start, view and stop it |
| `LatestImage` | the latest frame of a worker and its cached JPEG |
| `EventClips` | ring, active clips, write queue and writer of one camera |
| `StreamSlots`, `Admission` | slots of viewers; the abstract pool they implement |
| `ReportDetection`, `StopAnalyzer` | one upload to `/detect`; the tracks and stop events of its video |
| `EventRelay`, `EventDelivery` | from the relay client to the incident and its announcement; the abstract promise |
| `IncidentStatus` | the status of one incident and its history |
| `Accounts`, `Chat` | one account with its sessions; rooms, members, messages, marks |
| `ReportRecord`, `SharedRows`, `StoredFiles` | a report's row; rows many requests write; files beside rows |
| `MediaCleanup`, `CctvRecords`, `ItsCache` | the sweeping script; the camera tables; the cached public list |
| `MCReportAnalysis`, `MCModelComparison`, `MCAiServer`, `MCEvents`, `MCAccounts`, `MCChat`, `MCRecords` | instances for TLC |
| `ReportAnalysis_proofs`, `ReportAnalysisSerial_proofs`, `ModelComparison_proofs`, `Accounts_proofs` | theorems of these modules, of the first one also for its serial instances |
| `AiServer_proofs` | theorems of `CameraPipeline`, `LatestImage`, `ReportDetection`, `StreamSlots` |
| `Events_proofs` | theorems of `EventClips`, `EventRelay`, `IncidentStatus`, `StopAnalyzer` |
| `Records_proofs`, `Files_proofs` | theorems of `SharedRows`, `ItsCache`, `ReportRecord`, `CctvRecords`, `Chat`; of `StoredFiles`, `MediaCleanup` |

`MCAiServer`, `MCEvents`, `MCAccounts` and `MCRecords` instantiate several modules. The
parts of one instance share no state that a step of one could change for another (each MC
module says what they do share), so a variable `part`, chosen at the start, says which one
a behaviour follows. Nothing is lost by that: the interleavings of parts that share nothing
add products of states and no new ones.

### ReportAnalysis

Actors are web threads (`Handlers`) and worker processes (`Workers`). `pc` says
where an operation is; `view` is `job_status` as the actor's session last loaded it.

| Code | Actions |
|---|---|
| `request_report_analysis` | `AnalyzeRead` (live attachments without an active job) and `AnalyzeInsert` |
| `process_queued_report_analysis_jobs` | `WorkerList` (the `Limit` oldest), `WorkerSkip`, `WorkerReported`, `WorkerExit` |
| `process_report_analysis_job` | `WorkerClaim` (commit PROCESSING), `Reload`, then `AnswerCompleted`, `AnswerPending` or `AnswerFailed` |
| `retry_analysis_job` | `RetryRead`, `RetryQueue` (commit QUEUED), `RetryReload`, `RetryStart` (commit PROCESSING), then the same answers |
| `add_report_attachments`, `delete_report_attachment`, `delete_report` | `Attach*`, `DropAttachment*`, `DropReport*` |
| `update_report_status`, `approve_report`, `reject_report` | `SetStatusRead`, `SetStatusCommit` |
| a kill, a deployment, an uncaught exception | `Crash` |

`AnswerPending` follows the code in treating the two runners differently: the worker
puts an unfinished job back to QUEUED, the retry writes the status the AI server
names. `orphans` is a history variable: jobs in progress that no process runs, because
the runner was killed or the AI server's word was believed.

The statuses of a report are classes: OPEN (any status in which attachments may
change), CLOSED, CANCELLED, DELETED. `DeletedNotAnalysed`, `NoDuplicateActiveJob` and
`AtMostOneIncident` relate rows that different endpoints write.

### ModelComparison

`create_batch` is `CreateRead` and `CreateInsert`; `process_queued_comparison_runs` is
`WorkerList`, `WorkerSkip`, `WorkerReported` and `WorkerExit`; `process_comparison_run`
is `WorkerMissing` (attachment deleted), `WorkerClaim`, `WorkerReload` and
`WorkerOutcome`; `_refresh_batch_status` is `Statuses`, `Summary` and the second half of
`Finish`. `view` is the worker's whole snapshot, because the batch is recomputed from it.
`Kill` ends a worker anywhere.

### The AI server

- **`CameraPipeline`**. Each start makes a new worker with a capture and an inference
  thread (`cap`, `inf`); `asked` are their stop events. `CaptureOpen`, `CaptureLost`,
  `CaptureFrame`, `CaptureEnd` are `_capture_loop`; `InferencePop`, `InferenceDetect`,
  `InferenceEnd` the inference loop, which tests its event, takes a frame, and publishes
  after a detection of any length. `Stop*` are the steps of `CameraWorker.stop`: flag,
  join of two seconds (`StopJoin`, which gives up on a thread that has not ended), stop of
  the inference, clearing of the boxes. `StartRequest`, `ViewRequest`, `ViewLocked`,
  `StopRequest` are the endpoints, under the registry's lock, the camera's lock, or none.
- **`LatestImage`**. `CountFrame` and `SwapFrame` are the two lines of the capture loop;
  `CopyFrame`, `Encoded`, `ServeCached` a reader's.
- **`EventClips`**. `AppendFrame` and `OnFrame` are the capture thread; `AutoEvent` and
  `ManualEvent` copy the ring and `Activate` registers the clip; `Put` hands complete
  clips to the queue or drops them; `TestLoop`, `GetJob`, `WriteClip` are the
  writer; `StopClips` and `FinalizeAll` are `stop()`.
- **`StreamSlots`**. `Claim` is `claim_stream_slot`; `paths` are the releases that will
  come for it (generator, response, clean-up), of which `GiveBack` counts the first.
- **`ReportDetection`**, **`StopAnalyzer`**. One action per step of the handler between two
  points where it may fail or other requests may run, of which the last removes the
  temporary file or, with an unlink that fails, leaves it (`stuck`) and answers 200 all the
  same; one action per frame and detection
  of the analyzer (`MatchTrack`, `Updated`, `NewTrack`).

### Events and incidents

`EventRelay`: `SendEvent` and `GiveUp` are the client, which calls once with a timeout
while the request goes on; `PostEvent` a caller that repeats; `ReadRows`, `Commit`, `Emit`,
`Mark` and `Reply` are `create_event` and `create_its_event`; `Restart` kills the backend
anywhere. `recent` is the table of realtime events: a relayed event looks for its row among
the `SearchLimit` newest and adds one if it finds none (`RowFound`, `WithEventRow`), and the
rows of incidents and of reports (`RecordReport`) push it down. Which rows are the newest is
decided by times the payload gives, so a row may be missed as soon as there are more rows
than the limit. `IncidentStatus`: `LoadIncident` and `SaveStatus`.

### Requests on rows and files

In `Accounts`, `Chat`, `ReportRecord`, `SharedRows`, `CctvRecords` one action opens the
snapshot and decides (`Begin`, `Ask`, `Load`, `Edit`), one per operation commits, and one
fails. In `CctvRecords` no request changes the code of a camera: `update_cctv` writes the new
code before its own query for another camera of that code, which flushes it and finds the
camera itself, so the answer is always 409 and nothing is committed. In `SharedRows` the
history `unmade` names the columns whose last edit asked for the value it had loaded while
another edit changed it. `StoredFiles` has the disk's steps between them, the clean-up handlers of each
endpoint, and `Killed`. `MediaCleanup` is the script's steps beside `NameMedia`, a stored
event. `ItsCache` dates the list, opens the temporary file, which every thread of a process
calls the same, writes it in two parts and renames it; a reader takes a list that has not
expired (`Ttl`) or, if `AllowStale`, one no older than `StaleMax`.

## Runs

All runs use `CHECK_DEADLOCK FALSE`: the bounds end every behaviour, and the system
itself may be idle for ever.

| Run | Instance | Result |
|---|---|---|
| `serial` (RA_serial) | 1 web thread, 1 worker, no retry; 2 attachments, 3 jobs, 2 kills; 423,519 states | `TypeOK`, `NoDuplicateActiveJob`, `DeletedNotAnalysed`, `AtMostOneIncident` hold, and the code implements `AnalysisPromise` |
| `concurrent` (RA_concurrent) | 2 web threads that analyse and retry beside 1 worker; 2 jobs, 2 retries, 1 kill; 203,894 states | `RunningHasRunner` and `RunsEnd` hold under every interleaving |
| `duplicate` (RA_duplicate) | 2 web threads | `NoDuplicateActiveJob` violated |
| `deleted` (RA_deleted) | 2 web threads, analyse and delete | `DeletedNotAnalysed` violated |
| `stale` (RA_stale) | a retry beside a worker | `OnlyQueuedIsProcessed` violated |
| `one_worker` (MC_one_worker) | 1 worker, 1 administrator, 2 models, 3 batches, 2 kills; 224,411 states | `BatchSummarisesRuns`, `OneBatchPerChoice`, `BatchEnds` hold |
| `two_workers` (MC_two_workers) | 2 workers, 2 batches, 1 kill; 1,851,011 states up to symmetry of models and workers | `TypeOK`, `NoRunForgotten` hold |
| `ai_server` (AI_server) | 2 request threads, 2 generations of a camera; 2 readers, 4 images; 2 viewers of 2 cameras; 2 uploads, 1 permit; 113,769 states | a stopped camera is still (`StoppedCameraIsStill`) and stops (`StopTakesEffect`); viewers replace only newcomers; `CacheAtMostOneBehind`; slots are counted (`CountersMatchSlots`), a pool (`ImplementsPool`) and come back (`SlotsComeBack`); `NeverTooMany`, `NothingHeldAfterSuccess` |
| `events` (Events) | 2 clips over 3 frames, ring 2, queue 1; 2 events of one incident code, 2 web threads, a restart, 2 rows of which a search sees 1; 3 status updates by 2 operators; 344,706 states | `ClipKeepsItsWindow`, `EventsLeave`, `NoticesAreTrue`, `ImplementsDelivery`, `IncidentRecordAddsUp` hold |
| `accounts` (Accounts) | 1 account, 2 web threads, 2 codes, 1 OAuth state; 2 people, 2 rooms, 2 memberships, 1 message, 2 marks; 2.04 million states up to symmetry of threads | `AccountRecordsAgree`, `OnlyTheApprovedAct`, `ChatIsSerialButForOverlaps` hold |
| `chat_duplicate` (Chat_duplicate) | 2 people, 2 web threads | `NoDuplicateMember` violated |
| `records` (Records) | 2 threads; 3 status changes; 3 writes; 3 files; 3 media; 2 puts of 2 regions; 3 list threads in 2 processes; 4 frames of 2 vehicles; 2.97 million states up to symmetry | the nine invariants of `ReportRecord`, `SharedRows`, `StoredFiles`, `MediaCleanup`, `CctvRecords`, `ItsCache`, `StopAnalyzer` hold |

### Why the bounds are enough

- *Jobs and attachments.* Every property speaks of at most two jobs and their
  attachments. Three jobs with two attachments give a job after a finished one on the
  same attachment, two at once in one request, and a list longer than `Limit` = 2, so
  that the worker leaves one for its next start.
- *Runners.* Two retries and a worker give every pair, and a third, of a stale and a
  fresh reader of one row, and with two jobs a worker that finds the second one of its
  list taken (`WorkerSkip`). Two workers are checked in `two_workers`; the proofs cover
  any number of each.
- *Kills.* A second kill finds the rows the first one left. Nothing in the code looks
  at such rows, so a third adds nothing.
- *`MaxIncidents`* is 2 where `AtMostOneIncident` is checked, so the second incident
  is not cut off. In `concurrent` it is 0, since no property there is about incidents:
  a result with detections changes the same rows there as one without.
- *`MaxBatches`* 3 gives a batch requested again after an earlier one of the same
  models has ended, while one of other models is open; `Limit` 2 cuts a batch in two.
- *Generations of a camera.* A late thread of the first worker meets the second one and
  the requests on it; a third generation meets the second as the second meets the first.
  `QueueSize` 1 makes a push drop what waits.
- *Clips.* A ring of two frames and three frames in all let a frame leave the ring, fall
  between the copy and the registration, and end a clip; a queue of one is full with the
  second clip.
- *Slots.* Two viewers at limits 2 and 1 reach the limit of a camera; the limit of all
  cannot refuse the second of two, and rests on the proofs (`LimitsHold`,
  `SlotsImplementPool`). A slot's releases are at most three. *Uploads.* Two, with one permit, contend for it.
- *Events.* The two events' ids agree in their first 50 characters, which is all that an
  incident's code takes of them, so two events with one incident are in the instance.
  `SearchLimit` stands for the 1000 of the code; `MaxRows` ends new requests and reports once
  the table has so many rows, which is one more than a search sees.
- *Requests on one row.* Two threads give every overlap of two requests; three writes (or
  changes, files, updates) put one after an overlap, which must recover. What the
  properties excuse is the overlap of a pair.
- *List threads.* Two in one process share a temporary file, the third in another does not.
  `Ttl` 0 and `StaleMax` 1 give a fresh list, a stale one and one too old within `MaxTicks`.
- *Stop analyzer.* The times are in frames: danger after 2, stale after 2, four in all,
  so a stop, a move, and a track lost and found again fit.

### Fairness

- *ReportAnalysis.* Weak fairness of `HandlerStep(h)` and of `WorkerStep(w)`: an
  operation that began goes on, since its thread runs and the AI call has a timeout.
  Not fair: a client's request, a crash, and `WorkerList`, since no unit of
  `deploy/systemd` starts `report_analysis_worker` (`docs/backend-adversarial-debug-report.md`
  notes it too). So `RunsEnd` speaks of jobs that
  are in PROCESSING, and nothing is claimed of jobs in the queue.
- *ModelComparison.* Weak fairness of the whole `WorkerStep(w)`, listing included: the
  timer starts the worker again 30 s after it ended (`OnUnitInactiveSec`). Requests,
  deletions of attachments and kills are not fair.
- *CameraPipeline.* Weak fairness of each thread of a worker that was made (a read and a
  detection end, in whatever time) and of `StopStep(h)`: a stop that began goes on, for its
  joins have a timeout. Requests are not fair.
- *StreamSlots.* Weak fairness of `EndStream(c)` when the camera does not run (the
  generator's loop ends) and of the releases that are due (`finally` and clean-up
  stacks run). A viewer of a running camera may stay for ever.
- *EventClips.* Weak fairness of the capture thread until the camera is stopped, of the
  writer, of the second half of an event (`Activate`), of a hand-over and of the second half
  of `stop()` (`FinalizeAll`). New events and `stop()` are not fair. `EventsLeave` says what
  becomes of every event: it is sent, or counted as dropped, and what else may keep it from
  that is named exactly: the frames ended before its window or before its clip was active
  (`CutShort`), or its clip became active after `stop()` had handed over the others, or came
  into the queue after the writer had ended (`CameAfterStop`).

Liveness (`RunsEnd`, `BatchEnds`, `StopTakesEffect`, `SlotsComeBack`, `EventsLeave`) is
checked without symmetry.

### Refinements

`ReportAnalysis` implements `AnalysisPromise` when nothing overlaps; `StreamSlots`
implements `Admission` (a claim takes a slot of a pool, the first of its releases gives it
back, and the other ones stutter); `EventRelay` implements `EventDelivery` (an event is
stored with its incident in one step, announced once, acknowledged when stored) under
overlaps, timeouts, repeats and restarts. Each is checked by TLC and proved.

## What the code does not keep

Four runs show where a check reads one snapshot and the write it guards comes later.
Each run names the doc, the message or the comment that says otherwise (`findings` in
`PROJECT.json`).

- **`duplicate`**: two overlapping requests both find no active job of the attachment
  and both insert one.
- **`deleted`**: an analysis request and the deletion of its attachment overlap; the
  worker then sends a deleted attachment to the AI server.
- **`stale`**: a retry commits QUEUED, then PROCESSING; a worker that listed in between
  processes the job as well, because it tests the status in its own snapshot. The
  same behaviour, continued, creates two incidents for one job.
- **`chat_duplicate`**: two requests add one person to a room at once; he has two rows,
  and leaving ends one of them.

Seen while reading, without a run of their own. Where a property of a passing run names
the case as its exception, the property is given.

*Reports and comparisons*

- `BatchSummarisesRuns` is not kept by two comparison workers: each recomputes from a
  snapshot in which the other's run is RUNNING, and the batch stays RUNNING. The
  `oneshot` systemd unit excludes it; a worker run by hand beside the timer does not.
- A comparison worker killed in an AI call leaves its run RUNNING. The batch never
  ends and `create_batch` refuses the same models with 409 from then on (`BatchEnds`
  names this exception). A report job left in PROCESSING is stuck the same way: retry
  wants FAILED, a request reuses it, and its attachment cannot be deleted.
- `request_report_analysis` does not look at the report's status, though
  `_allowed_actions` offers the action for active reports only.
- `update_report_status` reads the status before a concurrent `delete_report` commits
  CANCELLED and writes an open status over it; `delete_report` writes no status history.
- `delete_report_attachment` looks at analysis jobs and not at comparison batches.
- A database error inside `_create_incidents_from_analysis` is swallowed with the
  session in a failed transaction: the commit that ends the job fails too.
- `Incident`s are created for reports, but `converted_incident_id`, which
  `delete_report` tests, is never set.
- Socket.IO has no message queue: what a worker process emits reaches no browser.
- A deleted report is reopened by a status update that overlaps its deletion
  (`DeletedReportStaysDeleted`); two edits at once insert two locations (`ReportRecordAddsUp`).
- `report_upload/service.py` defines several functions twice (1827-2050, 2238-2447); the
  first definitions never run.

*AI server*

- `/detect`'s answer 429 cannot happen (`NeverTooMany`): the coroutine holds its permit
  without an await, and keeps every other request waiting meanwhile.
- The temporary upload stays on the disk after any exception, and after an answer 200 if its
  unlink failed (`NothingHeldAfterSuccess`).
- A reader between the frame counter and the swap caches the old frame under the new
  version (`CacheAtMostOneBehind`).
- A thread that outlives `stop()`'s two seconds may publish boxes of a stopped camera
  (`late` in `StoppedCameraIsStill`).
- `stop()` of the clips sets the stop flag before it hands over: the writer may see an empty
  queue and end, and these events are never sent. A full queue drops the event with its clip
  (`EventsLeave`). A manual event on a stopped worker never completes.
- The detector's cooldown starts also for an event that the camera's own cooldown drops.
- The ITS cache knows neither the box nor the road type asked for, and an empty answer
  overwrites it; its temporary file is named after the process only, and a save that is slow
  may put an older list over a newer one (`CacheIsWhole`). With a TTL above the stale limit a
  list older than that limit is served.
- A standing vehicle whose track is lost gets a second event under its new tracker id:
  `OneEventPerStop` is about tracks.

*Events and incidents*

- When another request makes the incident of an event between the read and the commit of the
  relay, the relay answers with an error and the event is not stored (`ImplementsDelivery` allows it).
- The realtime event of a report (`app/__init__.py`) is committed as SENT before it is emitted.
- A backend killed between commit and emission leaves a realtime event PENDING for ever.
- The row of recent incidents of an event is looked for in the 1000 newest rows only: an
  older event that is sent again gets a second row (`NoticesAreTrue`).

*Accounts and chat*

- A resend may write CANCELLED over VERIFIED; two overlapping reviews may bring a withdrawn
  account back (`AccountRecordsAgree`, `OnlyTheApprovedAct`).
- E-mail codes are unique for ever, out of a million.
- `join_report` does not ask whether the account is still ACTIVE: a socket goes on after a
  withdrawal or a rejection, and no property says otherwise.
- An incident may get two rooms; setting its status never closes its room.

*Rows and files*

- Overlapping opens lose a count (`SharedRowsKeepTheirWrites`); `update_bug_report` reopens
  a closed report; `close_bug_report` on a row it loaded CLOSED answers that it is closed
  though a request that overlapped it has reopened the row.
- `update_resource` removes the old file before its commit; the board's create has no
  clean-up (`RowHasItsFile`, `NoOrphanFile`).
- The cleanup script may delete the media of an event stored after it read the events; of
  two events of one file the older one's severity wins (`ProtectedMediaKept`).
- The code of a camera can never be changed: `update_cctv` answers 409 to every new code.
  Overlapping puts of regions leave two rows of a type (`CctvTablesAgree`).

## Proofs

Every safety invariant, action property and refinement of the passing runs is also a
theorem: it holds for any number of attachments, models, cameras, clients, events,
threads, rows and files, and for any of the bounds. The assumptions are the named ones on
the constants of each module, which TLC evaluates in the runs: actors of different kinds
are disjoint, the sets whose members are counted are finite, bounds and limits are in Nat
(the sizes of a queue, a ring and a semaphore and the danger time of a stop are not 0), the
worker's `Limit` of the comparison is the 1 to 3 the code cuts it to, and the values that
stand for *none* are not among the real ones. Three theorem groups have hypotheses beyond that, because the code keeps the property only so:

| Hypothesis | Where | Why |
|---|---|---|
| `Serial`: one web thread, one worker, no retry | `ReportAnalysisSerial_proofs` | the runs `duplicate`, `deleted` and `stale` are what happens without it |
| `OneWorker` | `BatchSummary` | two workers recompute a batch from snapshots that miss each other's run; the `oneshot` unit starts one |
| `OneWorker`, `OneHandler` | `OneBatch` | two requests at once both find no open batch |

An invariant is seldom inductive as it stands. What each proof adds to it:

**`ReportAnalysis_proofs`**: `TypeCorrect`, `RunningHasRunnerHolds`. The runner that
`RunningHasRunner` names may have loaded the outcome another one has just committed, and
then `Flush` leaves its column alone. `Accounted` asks for a runner that *will* write: one
that has not reloaded yet, or loaded the job in progress. A claim makes its claimant such a
runner, an outcome of another runner takes the job out of progress, and a kill adds to
`orphans`.

**`ReportAnalysisSerial_proofs`**: `SerialSafety`, with `SerialDeleted` and
`SerialIncidents` as statements of their own; `SerialQueued`, the worker claims only what is
QUEUED; `SerialImplementsPromise`. `SerialInv` adds what a split operation relies on:
what the handler decided still holds when it commits (`DecisionStands`), the worker's view is
not stale where it is used (`WorkerUpToDate`), and rows and incidents come in order
(`RowsInOrder`).

**`ModelComparison_proofs`**

- `TypeCorrect`, and `NoRunForgottenHolds` for any number of workers. `QueueInv` says how
  far an open snapshot may lag (`Behind`): it may miss batches and show old statuses, but
  a run that is QUEUED now and whose batch it knows is QUEUED in it. So a recomputation from
  it sees that run and leaves the batch open.
- `BatchSummary`. With one worker nothing else changes a run, so what its open snapshot
  knows of a batch is how the batch still is (`Current`); batches it does not know have been
  inserted since. `SummaryInv` also has to name the status a batch really has (`Told`: QUEUED
  while all its runs are), since the property speaks of classes only.
- `OneBatch`. `ChoiceInv` adds that nobody who is about to insert a batch has models that
  are queued or running.

**`AiServer_proofs`**

- `PipelineSafety` and `ViewersReplace`, for any number of handlers and generations.
  `PipelineInv` says how far every stop has come (`HandlerOk`): after the capture's join that
  thread has ended or the worker is `late`, after the inference's nothing waits any more.
  One handler at most is under the registry's lock (`OneHolder`), and its worker is the
  registered one. A thread that has ended stays ended, so a worker that was stopped stays
  still (`GoneAreStill`). `ViewersReplace` is an action property: what a viewer saw at its own
  check had ended, so a running worker it replaces must have come later.
- `ImageSafety`. In `ImageInv` the latest frame lags behind its counter inside the swap and
  nowhere else, and every JPEG, cached or being encoded, that bears the current version is
  of that frame or the one before (`Recent`).
- `DetectionLimit`, `DetectionReleases`. `DetectInv` adds `OneRuns`: one request is between
  two awaits, and a permit is out only while that one detects. A file that stays behind an
  answer 200 is one of `stuck`.
- `SlotTypeCorrect`, `CountersExact`, `LimitsHold`, `SlotsImplementPool`. `SlotInv` adds the
  types (counters in Nat, so that taking one away is exact) and that a client has a slot if
  and only if it has a request. A claim adds one to the set of holders and to both counters,
  the first release takes one from all three, and a later one changes nothing; the
  cardinalities are moved with `FS_AddElement` and `FS_RemoveElement`.

**`Events_proofs`**

- `ClipSafety`. `ClipInv` says what a clip has at every moment, not only when it is handed
  over: the frames of its window that the ring still held when it was copied (`FromRing`) and
  those that passed since it became active (`FromThere`); and an event is in one place, the
  making, the active clips, the queue or the end (`OnePlace`).
- `NoticesHold`, `RelayImplementsDelivery`. `RelayInv`: the stored rows agree (`RowsAgree`),
  a row a request has found is still there (`FoundIsThere`: rows are only added), and one
  request at most is about to tell of an incident (`OneTells`). What a request did not
  find may be there when it commits; the unique keys make that commit fail, so the one that
  succeeds is the only one to announce. Of the rows of recent incidents `RowsOf` says that an
  event has one if and only if it is stored, and that a second one comes after more rows than
  the search sees.
- `RecordAddsUp` (incidents). `LoadedStands`: what an update has loaded is still the status
  if no row was added since, and a resolution it has seen is still set.
- `OneEvent`. `TrackOk` reads a track against the path the vehicle drove: `since` is a
  sighting from which on it stands, every event was of such a stand of the danger time, and
  between two events, and since the last when another may come, it moved (`ToldOk`). That
  the danger time is not 0 is needed: at 0 a track that has just moved could be told of.

**`Records_proofs`**

- `RowsSafety`. An open holds a value and a count of opens it saw, which together say
  by how much its write may fall short (`OpenFacts`); an edit names only columns that are no
  counters, and what it loaded of such a column is still there if no edit of it was
  committed since (`EditFacts`).
- `ListSafety`. A file has one name at most, raced or not (`NamesApart`); until two saves
  of a process overlap, each is alone in it and has its file to itself (`AloneUnlessRaced`). A
  list is no older than any that was published when it was dated (`DatedInTime`), so only a
  save overtaken since then puts an older one in the place of the newest.
- `RecordAddsUp` and `DeletedStays` (reports). A change, made or about to be, starts from the
  status its request saw last in the history, which had not ended (`StartsWell`,
  `WritesWell`), and a deleted report has an ending change in its history.
- `CctvTables`. What an edit has read of the regions is still so unless a put was committed
  since (`RoiOk`), and the slot's columns it is about to write fit the camera (`SlotOk`). The rows
  a put adds come in an order the database chooses, so the proof speaks of any order (`SetToSeq`).
- `ChatIsSerial`. Rooms, members, messages and marks are only added and never change whose
  they are, and nobody comes back into a row he left (`Kept`). So what a
  request has found stands, but for leaving and closing, which is what `late` records, and
  what it has not found was added since, which is what `seen` counts.

**`Files_proofs`**

- `RowsHaveFiles`, `NoOrphans`. What an upload has saved is whole and its own (`Apart`), no
  row names it before its commit unless the answer to that commit was lost (`UploadOk`), and
  what an update replaces was a resource's and goes before the commit.
- `ProtectedMedia`. What the script read of the events is right but for a file that an older
  event names with another severity (`ReadRight`); the size it counts with is that of what
  is left and nothing protected was deleted (`Progress`); the oldest go first
  (`OldestFirst`).

**`Accounts_proofs`**: `RecordsSafety`, `ApprovedSafety`. `AccountInv` tells the story of the
account and its signup request together (`StoryOk`), in which every disorder costs a second
review; what a request loaded was so once, and what it may do with it is bounded by that
(`LoadedOk`); a row it saw PENDING may have changed, but one it saw ended is never pending
again (`SeenOk`), from which two pending codes mean that the second did not see the first.

Only model-checked: the liveness properties (`RunsEnd`, `BatchEnds`, `StopTakesEffect`,
`SlotsComeBack`, `EventsLeave`), which need fairness and ENABLED, out of this prover's
reach. The violations of the runs `duplicate`, `deleted`, `stale` and `chat_duplicate` are
counterexamples and need no proof.

## Not modelled

- The two daily report scripts: each gathers numbers and inserts one row.
- Replay, AI media, dashboard, notification, location search, the security log, and the
  listing, detail and statistics queries of every module: they read and keep no state.
- Numerical code and drawing: detectors, model loading, tracking thresholds, ROI geometry,
  the real-time filter, overlays, post-processing. What they find is an input.
- Edits of a profile or a password, permissions and authorisation beyond an account's
  status, texts, types, limits, timestamps that nothing compares, `retry_count`, metrics,
  the result document.
- Rows are never removed by the code, so branches for a missing job, run or batch row are
  left out.
- The frontend: views of the API. The token refresh of `apiClient.ts` is the only
  concurrent part of it and is planned.

## Plan

Done: the analysis jobs and the comparison, the AI server, the way of an event, accounts
and chat, the records and files of the backend, and a theorem for every safety property of
the runs.

Left, in this order:

1. Type correctness of the modules whose types are so far a part of their inductive
   invariants, as theorems of their own.
2. The token refresh of the frontend beside the backend's sessions.
3. Action properties of single rows (which columns an operation may never touch), for which
   the invariants proved here are enough.

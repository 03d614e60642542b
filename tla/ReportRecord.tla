------------------------------ MODULE ReportRecord ------------------------------
(***************************************************************************)
(* One report as a record: draft, submission, edits with its location,     *)
(* status changes with their history rows, and deletion (flask-vm          *)
(* report_upload/service.py).                                              *)
(*                                                                         *)
(* A request reads in the snapshot its first query opened (Begin) and      *)
(* writes only the columns whose value it changed, at one commit (Create,  *)
(* SetStatus, SavePlace).                                                  *)
(* Permissions, texts and the analysis jobs (ReportAnalysis) are left out; *)
(* nothing in the code sets converted_incident_id, so the test for it in   *)
(* delete_report never refuses.                                            *)
(***************************************************************************)
EXTENDS Naturals, Sequences, FiniteSets

CONSTANTS
  RecordThreads,   \* web threads
  MaxChanges,      \* bound: status changes,
  MaxPlaces        \* location rows

ASSUME RecordAssumption == MaxChanges \in Nat /\ MaxPlaces \in Nat

VARIABLES
  record,    \* [status, deleted]: the row; deleted: deleted_at is set
  changes,   \* history: every committed status change, [from, to, told, seen]; told:
             \* with a row in report_status_histories; seen: how many its request saw
  places,    \* location rows: how many rows the request that added one saw
  writing    \* each web thread's request: what it is about to write

recordVars == <<record, changes, places, writing>>

Reading == [op |-> "none"]
NoRecord == [status |-> "NONE", deleted |-> FALSE]

RecordInit ==
  /\ record = NoRecord /\ changes = <<>> /\ places = <<>>
  /\ writing = [w \in RecordThreads |-> Reading]

-----------------------------------------------------------------------------
(* What a request finds in its snapshot *)

\* list_reports with a status filter does not ask for deleted_at; without one,
\* list_report_drafts and get_report do.
ListedUnder(status) == record.status = status
DraftListed == record.status = "DRAFT" /\ ~record.deleted
Readable == record.status # "NONE" /\ ~record.deleted

\* _is_draft, _is_report_editable: neither asks for deleted_at.
IsDraft == record.status = "DRAFT"
IsEditable == record.status \notin {"NONE", "CLOSED", "CANCELLED", "DELETED"}

AllowedStatuses ==
  {"SUBMITTED", "REVIEWING", "APPROVED", "REJECTED", "CLOSED", "RESOLVED", "CANCELLED", "DELETED"}

Ended == {"CANCELLED", "DELETED"}

\* Mutant: whatever the report's own status.
AnyStatus == IF Readable THEN AllowedStatuses ELSE {}

\* update_report_status, approve_report, reject_report: the statuses it may be
\* given.  CANCELLED and DELETED do not set deleted_at here.
NewStatuses ==
  IF Readable /\ record.status \notin Ended THEN AllowedStatuses \ {record.status} ELSE {}

StatusWrite(to, told, drop) ==
  [op |-> "status", from |-> record.status, to |-> to, told |-> told, drop |-> drop, seen |-> Len(changes)]

\* create_report_draft and create_report: one new row; a location or none.
CreateWrites ==
  IF record.status = "NONE"
    THEN {[op |-> "create", status |-> s, places |-> n] : s \in {"DRAFT", "SUBMITTED"}, n \in {0, 1}}
    ELSE {}

\* submit_report_draft
SubmitWrites == IF IsDraft THEN {StatusWrite("SUBMITTED", TRUE, FALSE)} ELSE {}

StatusWrites == {StatusWrite(s, TRUE, FALSE) : s \in NewStatuses}

\* delete_report_draft: no history row.
DropDraftWrites == IF IsDraft THEN {StatusWrite("DELETED", FALSE, TRUE)} ELSE {}

\* delete_report: no history row either; it asks for the status, not for
\* deleted_at.
DropWrites ==
  IF record.status \notin {"NONE", "CANCELLED", "DELETED"} THEN {StatusWrite("CANCELLED", FALSE, TRUE)} ELSE {}

\* _upsert_report_location: the report's first row, or a new one.
PlaceWrites == {[op |-> "place", new |-> places = <<>>, seen |-> Len(places)]}

\* update_report_draft, update_report
EditDraftWrites == IF IsDraft THEN PlaceWrites ELSE {}
EditWrites == IF IsEditable THEN PlaceWrites ELSE {}

\* A request's first query, require_auth's, opens the snapshot.
Begin(w) ==
  /\ writing[w] = Reading
  /\ \E q \in CreateWrites \cup SubmitWrites \cup StatusWrites \cup DropDraftWrites \cup DropWrites
              \cup EditDraftWrites \cup EditWrites :
       writing' = [writing EXCEPT ![w] = q]
  /\ UNCHANGED <<record, changes, places>>

-----------------------------------------------------------------------------
(* The commits *)

Wrote(w, op) ==
  /\ writing[w].op = op
  /\ writing' = [writing EXCEPT ![w] = Reading]

Create(w) ==
  LET q == writing[w] IN
  /\ Wrote(w, "create")
  /\ record.status = "NONE"     \* another request's report is another row
  /\ record' = [status |-> q.status, deleted |-> FALSE]
  /\ places' = [i \in 1 .. q.places |-> 0]
  /\ UNCHANGED changes

\* Mutant: the status is read for the history row after it was set.
ToldLate(q) == [from |-> q.to, to |-> q.to, told |-> q.told, seen |-> q.seen]

\* _apply_report_status, _add_status_history
Change(q) == [from |-> q.from, to |-> q.to, told |-> q.told, seen |-> q.seen]

\* The status differs from the one it loaded, so it is written whatever the row
\* says by now; deleted_at only by a deletion.
SetStatus(w) ==
  LET q == writing[w] IN
  /\ Wrote(w, "status")
  /\ Len(changes) < MaxChanges
  /\ record' = [status |-> q.to, deleted |-> record.deleted \/ q.drop]
  /\ changes' = Append(changes, Change(q))
  /\ UNCHANGED places

SavePlace(w) ==
  LET q == writing[w] IN
  /\ Wrote(w, "place")
  /\ IF q.new
       THEN Len(places) < MaxPlaces /\ places' = Append(places, q.seen)
       ELSE UNCHANGED places
  /\ UNCHANGED <<record, changes>>

\* A database error: rollback.
Fail(w) ==
  /\ writing[w] # Reading
  /\ Wrote(w, writing[w].op)
  /\ UNCHANGED <<record, changes, places>>

RecordNext ==
  \E w \in RecordThreads :
    Begin(w) \/ Create(w) \/ SetStatus(w) \/ SavePlace(w) \/ Fail(w)

RecordSpec == RecordInit /\ [][RecordNext]_recordVars

-----------------------------------------------------------------------------
\* The record and its history agree: the row has the status of the last change;
\* of two history rows in a row the second one starts where the first one ended,
\* unless its request had begun before the first one was committed; a report has
\* two locations only through requests that overlapped.
ReportRecordAddsUp ==
  /\ changes # <<>> => record.status = changes[Len(changes)].to
  /\ \A i, j \in 1 .. Len(changes) :
       /\ i < j /\ changes[i].told /\ changes[j].told
       /\ \A k \in i + 1 .. j - 1 : ~changes[k].told
       => changes[j].from = changes[i].to \/ changes[j].seen < i
  /\ \A i \in 1 .. Len(changes) : changes[i].from # changes[i].to
  /\ \A i \in 2 .. Len(places) : places[i] = 0

\* A report that was deleted or cancelled stays so: a list of the living statuses
\* shows it only after a change whose request had not seen the end; and the
\* operations on drafts, which do not ask for deleted_at, never meet a deleted one.
DeletedReportStaysDeleted ==
  /\ IsDraft => DraftListed
  /\ \A s \in AllowedStatuses \ Ended :
       ListedUnder(s) /\ (record.deleted \/ \E i \in 1 .. Len(changes) : changes[i].to \in Ended) =>
         \E i \in 1 .. Len(changes) - 1 : changes[i].to \in Ended /\ changes[i + 1].seen < i
=============================================================================

----------------------------- MODULE IncidentStatus -----------------------------
(***************************************************************************)
(* The status of one incident (flask-vm incident/routes.py,                *)
(* update_incident_status).                                                *)
(*                                                                         *)
(* An update loads the incident, sets any valid status, sets the time of   *)
(* the resolution if it had none, and adds a row to the history, which     *)
(* names the status it loaded.  Nothing is locked: the load and the commit *)
(* are two steps.  An UPDATE writes the columns that differ from what was  *)
(* loaded (see Flush in ReportAnalysis).                                   *)
(***************************************************************************)
EXTENDS Naturals, Sequences

CONSTANTS
  Operators,   \* web threads
  Statuses,    \* VALID_STATUSES
  Final,       \* FINAL_STATUSES
  MaxUpdates   \* bound: updates

ASSUME StatusAssumption == Final \subseteq Statuses /\ "DETECTED" \in Statuses \ Final

VARIABLES
  status,     \* incident_status
  resolved,   \* whether resolved_at is set
  history,    \* incident_status_history: [from, to, read]: `read' is how many rows
              \* there were when the update loaded the incident
  update      \* what each operator's update has loaded

statusVars == <<status, resolved, history, update>>
NoUpdate == [on |-> FALSE]

StatusInit ==
  /\ status = "DETECTED"
  /\ resolved = FALSE
  /\ history = <<>>
  /\ update = [o \in Operators |-> NoUpdate]

LoadIncident(o) ==
  /\ update[o] = NoUpdate
  /\ Len(history) < MaxUpdates
  /\ update' = [update EXCEPT ![o] =
       [on |-> TRUE, status |-> status, resolved |-> resolved, read |-> Len(history)]]
  /\ UNCHANGED <<status, resolved, history>>

\* Mutant: the previous status is taken after the new one is set.
TakenLate(u, next) == next

PreviousStatus(u, next) == u.status

SaveStatus(o, next) ==
  LET u == update[o] IN
  /\ u.on /\ Len(history) < MaxUpdates
  /\ status' = IF next # u.status THEN next ELSE status
  /\ resolved' = IF next \in Final /\ ~u.resolved THEN TRUE ELSE resolved
  /\ history' = Append(history, [from |-> PreviousStatus(u, next), to |-> next, read |-> u.read])
  /\ update' = [update EXCEPT ![o] = NoUpdate]

StatusNext == \E o \in Operators : LoadIncident(o) \/ \E next \in Statuses : SaveStatus(o, next)

StatusSpec == StatusInit /\ [][StatusNext]_statusVars

-----------------------------------------------------------------------------
StatusTypeOK ==
  /\ status \in Statuses /\ resolved \in BOOLEAN
  /\ history \in Seq([from : Statuses, to : Statuses, read : Nat])
  /\ \A o \in Operators :
       update[o] = NoUpdate
         \/ update[o] \in [on : {TRUE}, status : Statuses, resolved : BOOLEAN, read : Nat]

\* Row k was written by an update that no other one overlapped.
Alone(k) == history[k].read = k - 1

\* The history is a chain from DETECTED to the present status wherever no two
\* updates overlapped, and a final status has the time of its resolution
\* whether they did or not (update_incident_status).
IncidentRecordAddsUp ==
  /\ \A k \in 1 .. Len(history) :
       Alone(k) => \/ history[k].from = IF k = 1 THEN "DETECTED" ELSE history[k - 1].to
                   \/ k > 1 /\ ~Alone(k - 1)
  /\ LET n == Len(history) IN n > 0 /\ Alone(n) => status = history[n].to
  /\ status \in Final => resolved
=============================================================================

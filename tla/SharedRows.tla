------------------------------- MODULE SharedRows -------------------------------
(***************************************************************************)
(* Rows that many requests write at once (flask-vm): a board post with its *)
(* view counter (board/services), a report's attachment with its two       *)
(* counters (report_upload/service.py), a bug report (bug_report).         *)
(*                                                                         *)
(* Every one of these requests loads the row, sets columns of the object   *)
(* in memory, and commits those whose value differs from the loaded one;   *)
(* one that returns before its commit leaves nothing, for the session is   *)
(* dropped.  Whether the report of the attachment is deleted is            *)
(* ReportRecord's; a deleted one only makes fewer requests.                *)
(***************************************************************************)
EXTENDS Naturals, FiniteSets

CONSTANTS
  RowThreads,        \* web threads
  Statuses,          \* BUG_REPORT_STATUSES; "CLOSED" is one, "REFUSED" stands for none
  MaxWrites          \* bound: requests committed

ASSUME RowsAssumption ==
  /\ "CLOSED" \in Statuses
  /\ "REFUSED" \notin Statuses
  /\ MaxWrites \in Nat

VARIABLES
  cols,      \* the committed columns
  request,   \* each thread's request: [op, loaded, sets]; sets: column -> value; and the
             \* opens and edits that were committed when it loaded the row
  opens,     \* each counter's committed opens (history)
  overlap,   \* the counters of which two opens overlapped (history)
  asked,     \* the value the last committed edit of each column asked for (history)
  edits,     \* each column's committed edits (history)
  unmade,    \* the columns whose last edit asked for the value it had loaded, another
             \* edit of the column being committed in between (history)
  writes     \* requests committed (history)

rowVars == <<cols, request, opens, overlap, asked, edits, unmade, writes>>

Counters == {"view_count", "access_count", "download_count"}
NoRequest == [op |-> "none"]

Row0 ==
  [post_status |-> "ACTIVE", title |-> "old", is_pinned |-> 0, view_count |-> 0,
   access_count |-> 0, download_count |-> 0, bug_status |-> "OPEN", severity |-> "MINOR"]

\* After create_board_post, create_report and create_bug_report.
RowsInit ==
  /\ cols = Row0 /\ asked = Row0
  /\ request = [w \in RowThreads |-> NoRequest]
  /\ opens = [c \in Counters |-> 0] /\ overlap = {}
  /\ edits = [c \in DOMAIN Row0 |-> 0] /\ unmade = {} /\ writes = 0

-----------------------------------------------------------------------------
(* What the requests set *)

\* detail_post, update_post and delete_post refuse a deleted post.
PostThere == cols.post_status # "DELETED"

Raised(c) == [d \in {c} |-> cols[c] + 1]

\* detail_post
OpenPost == IF PostThere THEN {Raised("view_count")} ELSE {}

\* get_attachment_file, as a preview or as a download: the file is sent, whether
\* the counter can be written or not.
OpenFile == {Raised("access_count"), Raised("download_count")}

\* update_post by the author or a SUPER_ADMIN, who alone may pin.
EditPost ==
  IF PostThere
    THEN {[c \in {"title"} |-> "new"], [c \in {"is_pinned"} |-> 1],
          [c \in {"title", "is_pinned"} |-> IF c = "title" THEN "old" ELSE 0]} ELSE {}

\* delete_post
DeletePost == IF PostThere THEN {[c \in {"post_status"} |-> "DELETED"]} ELSE {}

\* update_bug_report: any status, from any; close_bug_report.
EditBug == {[c \in {"bug_status"} |-> s] : s \in Statuses} \cup {[c \in {"severity"} |-> "MAJOR"]}
CloseBug == {[c \in {"bug_status"} |-> "CLOSED"]}

\* Titles and columns set before the request is refused: an author who pins, a
\* severity or a status that is none.
Refusals ==
  (IF PostThere THEN {[c \in {"title"} |-> "refused"]} ELSE {}) \cup {[c \in {"bug_status"} |-> "REFUSED"]}

Load(w) ==
  /\ request[w] = NoRequest
  /\ \E op \in {"open", "edit", "refuse"} :
     \E sets \in CASE op = "open" -> OpenPost \cup OpenFile
                   [] op = "edit" -> EditPost \cup DeletePost \cup EditBug \cup CloseBug
                   [] OTHER -> Refusals :
       request' = [request EXCEPT ![w] =
         [op |-> op, loaded |-> cols, sets |-> sets, seen |-> opens, edits |-> edits]]
  /\ UNCHANGED <<cols, opens, overlap, asked, edits, unmade, writes>>

-----------------------------------------------------------------------------
(* How they end *)

\* Mutant: every column goes back, as it was loaded or set.
WholeRow(q) == [c \in DOMAIN cols |-> IF c \in DOMAIN q.sets THEN q.sets[c] ELSE q.loaded[c]]

\* The columns of the UPDATE: those that differ from what was loaded.
Written(q) ==
  [c \in DOMAIN cols |-> IF c \in DOMAIN q.sets /\ q.sets[c] # q.loaded[c] THEN q.sets[c] ELSE cols[c]]

CommitOpen(w) ==
  LET q == request[w] IN
  /\ q.op = "open" /\ writes < MaxWrites
  /\ \E c \in DOMAIN q.sets :
       /\ opens' = [opens EXCEPT ![c] = @ + 1]
       /\ overlap' = IF q.seen[c] = opens[c] THEN overlap ELSE overlap \cup {c}
  /\ cols' = Written(q)
  /\ request' = [request EXCEPT ![w] = NoRequest]
  /\ writes' = writes + 1
  /\ UNCHANGED <<asked, edits, unmade>>

CommitEdit(w) ==
  LET q == request[w] IN
  /\ q.op = "edit" /\ writes < MaxWrites
  /\ cols' = Written(q)
  /\ asked' = [c \in DOMAIN asked |-> IF c \in DOMAIN q.sets THEN q.sets[c] ELSE asked[c]]
  /\ edits' = [c \in DOMAIN edits |-> IF c \in DOMAIN q.sets THEN edits[c] + 1 ELSE edits[c]]
  /\ unmade' = (unmade \ DOMAIN q.sets) \cup
                {c \in DOMAIN q.sets : q.sets[c] = q.loaded[c] /\ q.edits[c] # edits[c]}
  /\ writes' = writes + 1
  /\ request' = [request EXCEPT ![w] = NoRequest]
  /\ UNCHANGED <<opens, overlap>>

\* A refused request, and a commit that fails: nothing is written.
Dropped(w) ==
  /\ request[w] # NoRequest
  /\ request' = [request EXCEPT ![w] = NoRequest]
  /\ UNCHANGED <<cols, opens, overlap, asked, edits, unmade, writes>>

RowsNext == \E w \in RowThreads : Load(w) \/ CommitOpen(w) \/ CommitEdit(w) \/ Dropped(w)

RowsSpec == RowsInit /\ [][RowsNext]_rowVars

-----------------------------------------------------------------------------
\* Requests on one row do not undo each other where they are about different things:
\* a counter is short of the committed opens only if two opens of that counter
\* overlapped, and never ahead of them, whatever edits came between; and a column has
\* the value its last edit asked for, whatever opens, refused requests and edits of
\* other columns came between, unless that edit asked for the value it had loaded and
\* another edit of the column had been committed since: a report closed by a request
\* that loaded it closed, while another reopens it, stays open.
SharedRowsKeepTheirWrites ==
  /\ \A c \in Counters :
       /\ cols[c] <= opens[c]
       /\ cols[c] = opens[c] \/ c \in overlap
  /\ \A c \in DOMAIN cols \ Counters : cols[c] = asked[c] \/ c \in unmade
=============================================================================

---------------------------------- MODULE Chat ----------------------------------
(***************************************************************************)
(* Chat rooms: the room of one incident and rooms without an incident,     *)
(* their members, messages and read marks (flask-vm chat/service.py).      *)
(*                                                                         *)
(* Each request reads in the snapshot its first query opened (Ask) and     *)
(* writes at one commit (the other actions) what the snapshot made it      *)
(* decide on; no table has a unique key but its id, so what a request does *)
(* not see it may insert again.  A request sees the rows it has added      *)
(* itself: a person named twice gets one row.                              *)
(*                                                                         *)
(* Left out: member roles, texts, rooms' lists and details, the time; of   *)
(* several incident rooms the oldest by created_at is any of them, since   *)
(* the time is taken before the commit and kept in seconds.                *)
(***************************************************************************)
EXTENDS Naturals, Sequences, FiniteSets, SequencesExt

CONSTANTS
  People, Supers,             \* users; super admins
  ChatThreads,                \* web threads
  MaxRooms, MaxMembers,       \* bounds: rooms, member rows,
  MaxMessages, MaxReads       \* messages, read marks

ASSUME ChatAssumption == IsFiniteSet(People) /\ Supers \subseteq People

VARIABLES
  chatRooms,  \* [type, status, creator, seen]
  members,    \* [room, user, left, seen]
  messages,   \* [room, sender, deleted, out, late]: out if the room was over or the
              \* sender no member at the commit, late if somebody left or a room ended
              \* while it was being sent
  reads,      \* [message, user, seen]
  chat        \* each web thread's request: what it is about to write

\* `seen' is how many rows of the table the request that added one had seen.

chatVars == <<chatRooms, members, messages, reads, chat>>

Quiet == [op |-> "none"]

ChatInit ==
  /\ chatRooms = <<>> /\ members = <<>> /\ messages = <<>> /\ reads = <<>>
  /\ chat = [w \in ChatThreads |-> Quiet]

-----------------------------------------------------------------------------
(* What a request sees, and what it therefore is about to write *)

\* _active_member, _is_room_member
ActiveRows(r, u) == {i \in 1 .. Len(members) : members[i].room = r /\ members[i].user = u /\ ~members[i].left}

\* The rooms of those an operation on a room is for.
MyRooms(u) == {r \in 1 .. Len(chatRooms) : chatRooms[r].status # "DELETED" /\ ActiveRows(r, u) # {}}

\* Mutant: only an open room is the incident's.
OpenRoomsOnly == {r \in 1 .. Len(chatRooms) : chatRooms[r].type = "INCIDENT" /\ chatRooms[r].status = "OPEN"}

\* _find_incident_room
IncidentRooms ==
  {r \in 1 .. Len(chatRooms) : chatRooms[r].type = "INCIDENT" /\ chatRooms[r].status \in {"OPEN", "CLOSED"}}

\* _ensure_room_member for each of `us': whom it does not see there.
Missing(r, us) == {u \in us : ActiveRows(r, u) = {}}

\* ensure_incident_chat_room, for get_or_create_chat_room and
\* assign_incident_chat_room: the one who asks and those he names.
IncidentRequests(u) ==
  {[op |-> "room", type |-> "INCIDENT", room |-> r, users |-> Missing(r, us), seen |-> Len(members), by |-> u,
    rooms |-> Len(chatRooms)] :
     us \in {x \in SUBSET People : u \in x},
     r \in IF IncidentRooms = {} THEN {0} ELSE IncidentRooms}

\* create_general_chat_room: a DM with one other, a GROUP with others.
GeneralRequests(u) ==
  {[op |-> "room", type |-> type, room |-> 0, users |-> us \cup {u}, seen |-> Len(members), by |-> u,
    rooms |-> Len(chatRooms)] :
     us \in (SUBSET (People \ {u})) \ {{}}, type \in {"DM", "GROUP"}}

\* add_chat_room_members: to a closed room too.
AddRequests(u) ==
  {[op |-> "add", room |-> r, users |-> Missing(r, us), seen |-> Len(members)] :
     r \in MyRooms(u), us \in (SUBSET People) \ {{}}}

\* leave_chat_room: the first of the rows.
LeaveRequests(u) ==
  UNION {{[op |-> "leave", row |-> i] : i \in ActiveRows(r, u)} : r \in MyRooms(u)}

\* close_incident_chat_room, for a status that ends the incident.  Nothing
\* but this request closes the room, whatever the incident's own status.
CloseRequests == {[op |-> "end", room |-> r, status |-> "CLOSED"] : r \in IncidentRooms}

\* delete_chat_room: not an incident's.
DeleteRoomRequests(u) ==
  {[op |-> "end", room |-> r, status |-> "DELETED"] :
     r \in {x \in 1 .. Len(chatRooms) :
              /\ chatRooms[x].status # "DELETED" /\ chatRooms[x].type # "INCIDENT"
              /\ chatRooms[x].creator = u \/ u \in Supers}}

Writable(r) == chatRooms[r].status = "OPEN"

\* send_chat_message
SendRequests(u) ==
  {[op |-> "send", room |-> r, by |-> u, late |-> FALSE] : r \in {x \in MyRooms(u) : Writable(x)}}

\* get_chat_messages: the messages a member sees.
Visible(r) == {i \in 1 .. Len(messages) : messages[i].room = r /\ ~messages[i].deleted}

\* delete_chat_message: by its sender or a super admin, a member either way.
UnsendRequests(u) ==
  {[op |-> "unsend", message |-> i] :
     i \in {x \in UNION {Visible(r) : r \in MyRooms(u)} : messages[x].sender = u \/ u \in Supers}}

Marked(i, u) == \E k \in 1 .. Len(reads) : reads[k].message = i /\ reads[k].user = u

\* mark_chat_room_read up to a message: those it sees and finds no mark for.
ReadRequests(u) ==
  UNION {{[op |-> "read", by |-> u, seen |-> Len(reads),
           marks |-> {i \in Visible(r) : i <= last /\ ~Marked(i, u)}] : last \in Visible(r)} :
         r \in MyRooms(u)}

Requested(u) ==
  IncidentRequests(u) \cup GeneralRequests(u) \cup AddRequests(u) \cup LeaveRequests(u)
    \cup CloseRequests \cup DeleteRoomRequests(u) \cup SendRequests(u) \cup UnsendRequests(u)
    \cup ReadRequests(u)

\* The request's first query, require_auth's, opens the snapshot.
Ask(w, u) ==
  /\ chat[w] = Quiet
  /\ \E q \in Requested(u) : chat' = [chat EXCEPT ![w] = q]
  /\ UNCHANGED <<chatRooms, members, messages, reads>>

-----------------------------------------------------------------------------
(* The commits *)

Done(w, op) ==
  /\ chat[w].op = op
  /\ chat' = [chat EXCEPT ![w] = Quiet]

\* Somebody leaves or a room ends: the messages being sent are late (history).
RowsEnd(w, op) ==
  /\ chat[w].op = op
  /\ chat' = [x \in ChatThreads |->
       IF x = w THEN Quiet ELSE IF chat[x].op = "send" THEN [chat[x] EXCEPT !.late = TRUE] ELSE chat[x]]

\* An error of the database: rollback.
FailChat(w) ==
  /\ chat[w] # Quiet
  /\ Done(w, chat[w].op)
  /\ UNCHANGED <<chatRooms, members, messages, reads>>

WithMembers(r, us, seen) ==
  members \o SetToSeq({[room |-> r, user |-> u, left |-> FALSE, seen |-> seen] : u \in us})

MakeRoom(w) ==
  LET q == chat[w] IN
  /\ Done(w, "room")
  /\ IF q.room = 0
       THEN /\ Len(chatRooms) < MaxRooms
            /\ chatRooms' = Append(chatRooms, [type |-> q.type, status |-> "OPEN",
                                               creator |-> q.by, seen |-> q.rooms])
            /\ members' = WithMembers(Len(chatRooms) + 1, q.users, q.seen)
       ELSE /\ members' = WithMembers(q.room, q.users, q.seen)
            /\ UNCHANGED chatRooms
  /\ Len(members') <= MaxMembers
  /\ UNCHANGED <<messages, reads>>

AddMembers(w) ==
  /\ Done(w, "add")
  /\ members' = WithMembers(chat[w].room, chat[w].users, chat[w].seen)
  /\ Len(members') <= MaxMembers
  /\ UNCHANGED <<chatRooms, messages, reads>>

Leave(w) ==
  /\ RowsEnd(w, "leave")
  /\ members' = [members EXCEPT ![chat[w].row].left = TRUE]
  /\ UNCHANGED <<chatRooms, messages, reads>>

EndRoom(w) ==
  /\ RowsEnd(w, "end")
  /\ chatRooms' = [chatRooms EXCEPT ![chat[w].room].status = chat[w].status]
  /\ UNCHANGED <<members, messages, reads>>

Send(w) ==
  LET q == chat[w] IN
  /\ Done(w, "send")
  /\ Len(messages) < MaxMessages
  /\ messages' = Append(messages,
       [room |-> q.room, sender |-> q.by, deleted |-> FALSE,
        out |-> chatRooms[q.room].status # "OPEN" \/ ActiveRows(q.room, q.by) = {},
        late |-> q.late])
  /\ UNCHANGED <<chatRooms, members, reads>>

Unsend(w) ==
  /\ Done(w, "unsend")
  /\ messages' = [messages EXCEPT ![chat[w].message].deleted = TRUE]
  /\ UNCHANGED <<chatRooms, members, reads>>

MarkRead(w) ==
  LET q == chat[w] IN
  /\ Done(w, "read")
  /\ reads' = reads \o SetToSeq({[message |-> i, user |-> q.by, seen |-> q.seen] : i \in q.marks})
  /\ Len(reads') <= MaxReads
  /\ UNCHANGED <<chatRooms, members, messages>>

-----------------------------------------------------------------------------
ChatNext ==
  \E w \in ChatThreads :
    \/ \E u \in People : Ask(w, u)
    \/ FailChat(w) \/ MakeRoom(w) \/ AddMembers(w) \/ Leave(w) \/ EndRoom(w)
    \/ Send(w) \/ Unsend(w) \/ MarkRead(w)

ChatSpec == ChatInit /\ [][ChatNext]_chatVars

-----------------------------------------------------------------------------
\* Two rows say the same thing - one person in one room, the incident's room, one
\* person's mark on one message - only if the request for the second one did not
\* see the first; and a message reaches an ended room, or comes from somebody who
\* left, only if the room ended or he left while it was being sent.
ChatIsSerialButForOverlaps ==
  /\ \A i, j \in 1 .. Len(members) :
       i < j /\ members[i].room = members[j].room /\ members[i].user = members[j].user
             /\ ~members[i].left /\ ~members[j].left => members[j].seen < i
  /\ \A i, j \in 1 .. Len(chatRooms) :
       i < j /\ chatRooms[i].type = "INCIDENT" /\ chatRooms[j].type = "INCIDENT"
         => chatRooms[j].seen < i
  /\ \A i, j \in 1 .. Len(reads) :
       i < j /\ reads[i].message = reads[j].message /\ reads[i].user = reads[j].user
         => reads[j].seen < i
  /\ \A i \in 1 .. Len(messages) : messages[i].out => messages[i].late

\* A person has one current row in a room: "members are not created twice"
\* (_ensure_room_member).
NoDuplicateMember ==
  \A i, j \in 1 .. Len(members) :
    i # j /\ members[i].room = members[j].room /\ members[i].user = members[j].user
      => members[i].left \/ members[j].left
=============================================================================

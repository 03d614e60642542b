------------------------------- MODULE EventRelay -------------------------------
(***************************************************************************)
(* From the AI server's relay client to the incidents of the backend       *)
(* (ai-vm/app/relay_client.py; flask-vm modules ai_relay and               *)
(* incident_event).                                                        *)
(*                                                                         *)
(* POST /api/events stores the event and makes its incident in one         *)
(* transaction, then announces the incident and notes in a second one      *)
(* whether that worked.  POST /internal/its/events makes an incident       *)
(* alone.  The unique keys are the event's id and the incident's code; a   *)
(* request that finds them taken at its INSERT gets an error and rolls     *)
(* back.  The client sends an event once and gives up after a timeout,     *)
(* while the request may go on; others with the token may send it again.   *)
(*                                                                         *)
(* Each event has a row among those of recent incidents, which also hold   *)
(* one for each incident and one for each citizen's report.  A repeated    *)
(* event updates its row, if it finds it: the search sees the SearchLimit  *)
(* rows of the latest times, and the times are the senders'.               *)
(*                                                                         *)
(* Left out: the columns of the rows, the list and detail endpoints.       *)
(***************************************************************************)
EXTENDS Naturals, Sequences, FiniteSets

CONSTANTS
  AllEvents,   \* event ids
  Codes,       \* incident codes
  Code,        \* [AllEvents -> Codes]: the first 50 characters of an id
  WebThreads,  \* web threads
  SearchLimit, \* rows the search for an event's row looks through: 1000
  MaxRows      \* bound: no request is begun with so many rows

Other == "incident or report"

ASSUME RelayAssumption ==
  /\ Code \in [AllEvents -> Codes]
  /\ SearchLimit \in Nat /\ MaxRows \in Nat
  /\ Other \notin AllEvents

Idle == [at |-> "idle"]

VARIABLES
  aiEvents,    \* ids with a row in ai_events
  incidents,   \* codes with an incident
  notice,      \* send_status of each incident's realtime event, or "none"
  recent,      \* rows of recent incidents in the order of their ids: whose each is
  heard,       \* how often the browsers heard of each incident
  web,         \* each web thread's request
  client       \* the AI server's call for each event: "none", "waiting", "ok", "failed"

relayVars == <<aiEvents, incidents, notice, recent, heard, web, client>>

RelayInit ==
  /\ aiEvents = {} /\ incidents = {}
  /\ notice = [i \in Codes |-> "none"]
  /\ recent = <<>>
  /\ heard = [i \in Codes |-> 0]
  /\ web = [r \in WebThreads |-> Idle]
  /\ client = [e \in AllEvents |-> "none"]

dbVars == <<aiEvents, incidents, notice, recent>>

Become(r, req) == web' = [web EXCEPT ![r] = req]
Request(r, kind, e, sender) ==
  /\ web[r] = Idle
  /\ Become(r, [at |-> "read", kind |-> kind, event |-> e, client |-> sender])

-----------------------------------------------------------------------------
(* The client and the other senders *)

\* RelayClient.send_event, from the write loop, once for each event: the request
\* arrives or does not.
SendEvent(e) ==
  /\ client[e] = "none"
  /\ \/ /\ client' = [client EXCEPT ![e] = "waiting"]
        /\ \E r \in WebThreads : Request(r, "relay", e, TRUE)
     \/ /\ client' = [client EXCEPT ![e] = "failed"]
        /\ UNCHANGED web
  /\ UNCHANGED <<dbVars, heard>>

\* The client's timeout.
GiveUp(e) ==
  /\ client[e] = "waiting"
  /\ client' = [client EXCEPT ![e] = "failed"]
  /\ UNCHANGED <<dbVars, heard, web>>

\* Someone else posts an event, to either endpoint.
PostEvent(r, e, kind) ==
  /\ Len(recent) < MaxRows
  /\ Request(r, kind, e, FALSE)
  /\ UNCHANGED <<dbVars, heard, client>>

\* _emit_report_created_after_request: a new report gets its row.
RecordReport ==
  /\ Len(recent) < MaxRows
  /\ recent' = Append(recent, Other)
  /\ UNCHANGED <<aiEvents, incidents, notice, heard, web, client>>

\* An answer, if the client still waits for it.
Answer(r, verdict) ==
  /\ Become(r, Idle)
  /\ client' = IF web[r].client /\ client[web[r].event] = "waiting"
                 THEN [client EXCEPT ![web[r].event] = verdict]
                 ELSE client

-----------------------------------------------------------------------------
(* The request: create_event, create_its_event *)

\* A payload that lacks a field, or an error of the database, at any time before
\* the commit: rollback and 400 or 500.
Refuse(r) ==
  /\ web[r].at \in {"read", "commit"}
  /\ Answer(r, "failed")
  /\ UNCHANGED <<dbVars, heard>>

HasRow(e) == \E k \in 1 .. Len(recent) : recent[k] = e

\* _find_realtime_event_for_ai_event: among more rows than the limit the event's
\* may be too old.
RowFound(req) ==
  {found \in BOOLEAN :
     IF found THEN req.kind = "relay" /\ HasRow(req.event)
              ELSE req.kind = "relay" /\ HasRow(req.event) => Len(recent) > SearchLimit}

\* The first query opens the transaction's snapshot.
ReadRows(r) ==
  /\ web[r].at = "read"
  /\ \E found \in RowFound(web[r]) :
       Become(r, [at |-> "commit", kind |-> web[r].kind, event |-> web[r].event,
                  client |-> web[r].client,
                  sawEvent |-> web[r].event \in aiEvents,
                  sawRow |-> found,
                  sawIncident |-> Code[web[r].event] \in incidents])
  /\ UNCHANGED <<dbVars, heard, client>>

\* Mutant: the unique keys are missing.
NoClash(req) == FALSE

\* A row this request means to insert is there by now.
Clash(req) ==
  \/ req.kind = "relay" /\ ~req.sawEvent /\ req.event \in aiEvents
  \/ ~req.sawIncident /\ Code[req.event] \in incidents

\* store_event in the transaction of the incident
StoreEvent(req) ==
  aiEvents' = IF req.kind = "relay" THEN aiEvents \cup {req.event} ELSE aiEvents

\* _sync_realtime_event: the row that was found is updated.
WithEventRow(rows, req) ==
  IF req.kind = "its" \/ req.sawRow THEN rows ELSE Append(rows, req.event)

WithIncidentRow(rows, req) == IF req.sawIncident THEN rows ELSE Append(rows, Other)

\* create_from_its_event: an incident of this code is left as it is.
CreateIncident(req) ==
  IF req.sawIncident
    THEN UNCHANGED <<incidents, notice>>
    ELSE /\ incidents' = incidents \cup {Code[req.event]}
         /\ notice' = [notice EXCEPT ![Code[req.event]] = "PENDING"]

\* The commit, or the IntegrityError.
Commit(r) ==
  LET req == web[r] IN
  /\ req.at = "commit"
  /\ IF Clash(req)
       THEN Answer(r, "failed") /\ UNCHANGED dbVars
       ELSE /\ StoreEvent(req) /\ CreateIncident(req)
            /\ recent' = WithIncidentRow(WithEventRow(recent, req), req)
            /\ Become(r, [at |-> IF req.sawIncident THEN "answer" ELSE "emit",
                          event |-> req.event, client |-> req.client])
            /\ UNCHANGED client
  /\ UNCHANGED heard

\* emit_realtime_event_by_id: browsers hear of the incident, or the emit raises.
Emit(r) ==
  /\ web[r].at = "emit"
  /\ \E works \in BOOLEAN :
       /\ heard' = [heard EXCEPT ![Code[web[r].event]] = IF works THEN @ + 1 ELSE @]
       /\ Become(r, [at |-> "mark", event |-> web[r].event, client |-> web[r].client,
                     works |-> works])
  /\ UNCHANGED <<dbVars, client>>

\* Mutant: the row is marked whatever became of the emit.
SentAnyway(works) == "SENT"

SendStatus(works) == IF works THEN "SENT" ELSE "FAILED"

\* Its status is committed; an error of that is logged.
Mark(r) ==
  /\ web[r].at = "mark"
  /\ notice' \in {notice, [notice EXCEPT ![Code[web[r].event]] = SendStatus(web[r].works)]}
  /\ Become(r, [at |-> "answer", event |-> web[r].event, client |-> web[r].client])
  /\ UNCHANGED <<aiEvents, incidents, recent, heard, client>>

\* The event is broadcast and the answer given; it reads the row again, which
\* may fail.
Reply(r) ==
  /\ web[r].at = "answer"
  /\ \E verdict \in {"ok", "failed"} : Answer(r, verdict)
  /\ UNCHANGED <<dbVars, heard>>

\* The process of the backend dies: its open transactions are rolled back.
Restart ==
  /\ web' = [r \in WebThreads |-> Idle]
  /\ client' = [e \in AllEvents |-> IF client[e] = "waiting" THEN "failed" ELSE client[e]]
  /\ UNCHANGED <<dbVars, heard>>

-----------------------------------------------------------------------------
Serve(r) == Refuse(r) \/ ReadRows(r) \/ Commit(r) \/ Emit(r) \/ Mark(r) \/ Reply(r)

RelayNext ==
  \/ \E e \in AllEvents : SendEvent(e) \/ GiveUp(e)
  \/ \E r \in WebThreads :
       \/ \E e \in AllEvents, kind \in {"relay", "its"} : PostEvent(r, e, kind)
       \/ Serve(r)
  \/ RecordReport \/ Restart

RelaySpec == RelayInit /\ [][RelayNext]_relayVars

-----------------------------------------------------------------------------
Requests == [at : {"idle"}]
  \cup [at : {"read"}, kind : {"relay", "its"}, event : AllEvents, client : BOOLEAN]
  \cup [at : {"commit"}, kind : {"relay", "its"}, event : AllEvents, client : BOOLEAN,
       sawEvent : BOOLEAN, sawRow : BOOLEAN, sawIncident : BOOLEAN]
  \cup [at : {"emit", "answer"}, event : AllEvents, client : BOOLEAN]
  \cup [at : {"mark"}, event : AllEvents, client : BOOLEAN, works : BOOLEAN]

RelayTypeOK ==
  /\ aiEvents \subseteq AllEvents /\ incidents \subseteq Codes
  /\ notice \in [Codes -> {"none", "PENDING", "SENT", "FAILED"}]
  /\ recent \in Seq(AllEvents \cup {Other})
  /\ heard \in [Codes -> Nat]
  /\ web \in [WebThreads -> Requests]
  /\ client \in [AllEvents -> {"none", "waiting", "ok", "failed"}]

\* However requests, timeouts and restarts interleave, the relay stores an event
\* with its incident, announces an incident once at most and after its commit,
\* and tells the client "stored" only of what is.
Delivery == INSTANCE EventDelivery WITH
  stored <- aiEvents,
  filed <- incidents,
  announced <- heard,
  acked <- {e \in AllEvents : client[e] = "ok"}
ImplementsDelivery == Delivery!DeliverySpec

\* What the table of realtime events says of an incident's announcement is what
\* the browsers got (emit_realtime_event_by_id).  Every stored event has a row of
\* recent incidents, and a second one only if it was sent again when there were
\* more rows than the search looks through (_sync_realtime_event).
NoticesAreTrue ==
  /\ \A i \in Codes :
       /\ notice[i] = "SENT" => heard[i] = 1
       /\ notice[i] \in {"FAILED", "none"} => heard[i] = 0
  /\ \A e \in AllEvents : HasRow(e) <=> e \in aiEvents
  /\ \A k \in 1 .. Len(recent) :
       recent[k] # Other /\ (\E j \in 1 .. k - 1 : recent[j] = recent[k])
       => k > SearchLimit + 1
=============================================================================

------------------------------- MODULE CctvRecords -------------------------------
(***************************************************************************)
(* The CCTV tables an administrator edits: the cameras with their codes,   *)
(* the regions of interest of one camera, and one slot of the wall that    *)
(* shows a camera (flask-vm cctv/routes.py).                               *)
(*                                                                         *)
(* A request reads in the snapshot its first query opened (Edit) and       *)
(* writes at its commit the columns that differ from what it loaded; a     *)
(* bulk UPDATE sees the rows of the moment, and the row and gap locks let  *)
(* two writers pass one after the other, or fail.  No unique key keeps a   *)
(* camera from having two regions of one type.                             *)
(*                                                                         *)
(* A camera keeps the code it was created with: the query by which         *)
(* update_cctv looks for another camera with the new code flushes that     *)
(* code and finds the camera itself, so the request always ends in 409     *)
(* and is rolled back.  It is no action here.                              *)
(*                                                                         *)
(* Left out: polygons, names, the other columns, the list from the AI      *)
(* server.                                                                 *)
(***************************************************************************)
EXTENDS Naturals, Sequences, FiniteSets, SequencesExt

CONSTANTS
  Admins,          \* web threads of administrators
  RoiTypes,        \* VALID_ROI_TYPES
  Cams, Codes,     \* camera ids that may be given out; codes; MainCam has the regions
  MainCam,
  NoCam,           \* NULL
  MaxRois, MaxPuts \* bounds: region rows, put_cctv_rois committed

ASSUME CctvAssumption == IsFiniteSet(RoiTypes) /\ MainCam \in Cams /\ NoCam \notin Cams \cup Codes

VARIABLES
  cams,    \* [state, code] of each id: "new", "there" or "gone"
  rois,    \* the regions of MainCam: [type, active, seen]; seen: rows its request saw
  drawn,   \* [active, puts, seen]: types the last put asked for, puts so far, and how
           \* many of them it had seen (history)
  slot,    \* [cctv, code]: the slot's row
  edit     \* each administrator's request

cctvVars == <<cams, rois, drawn, slot, edit>>

Idle == [op |-> "none"]

\* Before anything was edited: MainCam, with one code of the codes.
CctvInit ==
  /\ \E c \in Codes : cams = [i \in Cams |-> IF i = MainCam THEN [state |-> "there", code |-> c]
                                              ELSE [state |-> "new", code |-> NoCam]]
  /\ rois = <<>> /\ drawn = [active |-> {}, puts |-> 0, seen |-> 0]
  /\ slot = [cctv |-> NoCam, code |-> NoCam]
  /\ edit = [a \in Admins |-> Idle]

There == {i \in Cams : cams[i].state = "there"}
CodeOf(i) == IF i = NoCam THEN NoCam ELSE cams[i].code

-----------------------------------------------------------------------------
(* What a request reads and is about to write *)

RowsOf(t) == {i \in 1 .. Len(rois) : rois[i].type = t}

\* put_cctv_rois: for each type of the payload a row of the type, if it sees one;
\* any payload, the empty one too.  `same': the row has that is_active already.
RoiRequests ==
  IF MainCam \notin There THEN {}
  ELSE UNION {
    {[op |-> "rois", want |-> want, row |-> row, seen |-> Len(rois), puts |-> drawn.puts,
      same |-> {t \in DOMAIN want : row[t] # 0 /\ rois[row[t]].active = want[t]}] :
       row \in {r \in [DOMAIN want -> 0 .. Len(rois)] :
                  \A t \in DOMAIN want : IF RowsOf(t) = {} THEN r[t] = 0 ELSE r[t] \in RowsOf(t)}} :
    want \in UNION {[ts -> BOOLEAN] : ts \in SUBSET RoiTypes}}

\* put_cctv_slots, _update_slot_from_payload: a camera it sees, or none.  Only what
\* differs from the loaded row is written.
SlotRequests ==
  {[op |-> "slot", cctv |-> i, code |-> CodeOf(i), sets |-> i # slot.cctv, recodes |-> CodeOf(i) # slot.code] :
     i \in There \cup {NoCam}}

\* create_cctv: a code it sees nobody has.
FreeCodes == Codes \ {cams[i].code : i \in There}
CreateRequests == {[op |-> "create", code |-> c] : c \in FreeCodes}

\* delete_cctv
DeleteRequests == {[op |-> "delete", cam |-> i] : i \in There}

Edit(a) ==
  /\ edit[a] = Idle
  /\ \E q \in RoiRequests \cup SlotRequests \cup CreateRequests \cup DeleteRequests :
       edit' = [edit EXCEPT ![a] = q]
  /\ UNCHANGED <<cams, rois, drawn, slot>>

-----------------------------------------------------------------------------
(* The commits *)

Edited(a, op) ==
  /\ edit[a].op = op
  /\ edit' = [edit EXCEPT ![a] = Idle]

\* Mutant: a type the payload does not have keeps its region.
KeptRow(q, i) ==
  IF rois[i].type \in DOMAIN q.want /\ q.row[rois[i].type] = i /\ rois[i].type \notin q.same
    THEN [rois[i] EXCEPT !.active = q.want[rois[i].type]] ELSE rois[i]

\* The rows it found, then the bulk update of the types it was not given.
PutRow(q, i) ==
  IF rois[i].type \notin DOMAIN q.want THEN [rois[i] EXCEPT !.active = FALSE] ELSE KeptRow(q, i)

NewRows(q) ==
  {[type |-> t, active |-> q.want[t], seen |-> q.seen] : t \in {u \in DOMAIN q.want : q.row[u] = 0}}

PutRois(a) ==
  LET q == edit[a] IN
  /\ Edited(a, "rois")
  /\ MainCam \in There      \* the foreign key
  /\ drawn.puts < MaxPuts
  /\ rois' = [i \in 1 .. Len(rois) |-> PutRow(q, i)] \o SetToSeq(NewRows(q))
  /\ Len(rois') <= MaxRois
  /\ drawn' = [active |-> {t \in DOMAIN q.want : q.want[t]}, puts |-> drawn.puts + 1, seen |-> q.puts]
  /\ UNCHANGED <<cams, slot>>

PutSlot(a) ==
  LET q == edit[a] IN
  /\ Edited(a, "slot")
  /\ q.sets /\ q.cctv # NoCam => q.cctv \in There     \* the foreign key
  /\ slot' = [cctv |-> IF q.sets THEN q.cctv ELSE slot.cctv,
              code |-> IF q.recodes THEN q.code ELSE slot.code]
  /\ UNCHANGED <<cams, rois, drawn>>

\* The code is unique.
CreateCam(a) ==
  LET q == edit[a] IN
  /\ Edited(a, "create")
  /\ q.code \in FreeCodes
  /\ \E i \in Cams :
       /\ cams[i].state = "new"
       /\ cams' = [cams EXCEPT ![i] = [state |-> "there", code |-> q.code]]
  /\ UNCHANGED <<rois, drawn, slot>>

\* A camera with regions stays: the foreign key of cctv_rois.
DeleteCam(a) ==
  LET q == edit[a] IN
  /\ Edited(a, "delete")
  /\ q.cam \in There /\ (q.cam = MainCam => rois = <<>>)
  /\ cams' = [cams EXCEPT ![q.cam] = [state |-> "gone", code |-> NoCam]]
  /\ slot' = IF slot.cctv = q.cam THEN [cctv |-> NoCam, code |-> NoCam] ELSE slot
  /\ UNCHANGED <<rois, drawn>>

\* A key refuses it, a deadlock, an error of the database: rollback.
FailEdit(a) ==
  /\ edit[a] # Idle
  /\ Edited(a, edit[a].op)
  /\ UNCHANGED <<cams, rois, drawn, slot>>

CctvNext ==
  \E a \in Admins :
    Edit(a) \/ PutRois(a) \/ PutSlot(a) \/ CreateCam(a) \/ DeleteCam(a) \/ FailEdit(a)

CctvSpec == CctvInit /\ [][CctvNext]_cctvVars

-----------------------------------------------------------------------------
\* The regions in force are those the last put asked for, unless it had not seen the
\* put before it or a type has two rows; and a type gets a second row only from a put
\* that had not seen the first.  A slot names the code of the camera it shows, also
\* when puts and deletions overlap.
CctvTablesAgree ==
  /\ \A i, j \in 1 .. Len(rois) : i < j /\ rois[i].type = rois[j].type => rois[j].seen < i
  /\ \/ drawn.puts # drawn.seen + 1
     \/ \E t \in RoiTypes : Cardinality(RowsOf(t)) > 1
     \/ {rois[i].type : i \in {k \in 1 .. Len(rois) : rois[k].active}} = drawn.active
  /\ slot.cctv \in There \cup {NoCam}
  /\ slot.code = CodeOf(slot.cctv)
=============================================================================

---------------------------- MODULE Files_proofs ----------------------------
(*****************************************************************************)
(* The files of attachments, resources and events, for any number of threads, *)
(* uploads and files, whatever fails or is killed.                           *)
(*                                                                           *)
(* A file belongs to one upload, to a row or to a resource; it can do without *)
(* only for a reason that is recorded (blame).  The sweep of event media goes by *)
(* what it read when it began: what it deletes although an event needs it was *)
(* named since, or is older than the limit of protected files.               *)
(*****************************************************************************)
EXTENDS MediaCleanup, StoredFiles, FiniteSetTheorems, SequenceTheorems,
        WellFoundedInduction, TLAPS

-----------------------------------------------------------------------------
(* Files beside rows: attachments of reports and the file of a resource *)

SaveRecord == [op : {"save"}, kind : {"report", "bug", "mobile", "board"}, saved : SUBSET Files]
CleanRecord == [op : {"clean"}, saved : SUBSET Files]
StoreRecord == [op : {"store"}, old : 0 .. MaxFiles, oldSize : Nat, seen : Nat]
NewFileRecord == [op : {"replace", "commit"}, old : 0 .. MaxFiles, oldSize : Nat, seen : Nat, file : Files]
Uploads == {Waiting} \cup SaveRecord \cup CleanRecord \cup StoreRecord \cup NewFileRecord
Blames == {"none", "save", "no cleaning", "commit", "remove", "overlap", "killed"}

FilesTypeOK ==
  /\ disk \in [Files -> {"none", "part", "whole"}]
  /\ size \in [Files -> Nat]
  /\ used \in 0 .. MaxFiles
  /\ rows \subseteq 1 .. used
  /\ resource \in [path : 0 .. MaxFiles, size : Nat, deleted : BOOLEAN, made : Nat, stale : BOOLEAN]
  /\ blame \in [Files -> Blames]
  /\ upload \in [UploadThreads -> Uploads]

\* The files an upload has saved, and the one it replaces.
Own(q) == IF q.op \in {"save", "clean"} THEN q.saved ELSE IF q.op \in {"replace", "commit"} THEN {q.file} ELSE {}
Replaced(q) == IF q.op \in {"store", "replace", "commit"} THEN {q.old} \ {0} ELSE {}

\* What an upload has saved is whole and no row names it yet, unless the answer to
\* the commit was lost; what it replaces is a resource's, and goes before the commit.
UploadOk(q) ==
  /\ Own(q) \cup Replaced(q) \subseteq 1 .. used
  /\ \A f \in Own(q) : disk[f] = "whole" /\ f # resource.path
  /\ \A f \in Own(q) \cap rows : q.op = "clean" /\ blame[f] = "commit"
  /\ \A f \in Replaced(q) : f \notin rows /\ disk[f] # "part"
  /\ q.op = "replace" => q.old # 0
  /\ q.op = "commit" => \A f \in Replaced(q) : disk[f] = "none" \/ blame[f] # "none"
  /\ q.op \in {"store", "replace", "commit"} =>
       q.seen <= resource.made /\ (q.seen = resource.made => q.oldSize = resource.size)

\* No file is two uploads', and none is replaced before its resource has it.
Apart ==
  \A v, w \in UploadThreads :
    /\ v # w => Own(upload[v]) \cap Own(upload[w]) = {}
    /\ Own(upload[v]) \cap Replaced(upload[w]) = {}

ResourceOk ==
  /\ resource.path \in 0 .. used /\ resource.path \notin rows
  /\ resource.path # 0 => disk[resource.path] # "part"

FilesInv ==
  /\ FilesTypeOK
  /\ \A w \in UploadThreads : UploadOk(upload[w])
  /\ Apart
  /\ ResourceOk
  /\ RowHasItsFile
  /\ NoOrphanFile

LEMMA FilesInitInv == ASSUME FilesInit PROVE FilesInv
<1>. USE FilesAssumption
<1>1. FilesTypeOK
  <2>1. Waiting \in Uploads /\ "none" \in Blames
    BY DEF Uploads, Blames
  <2>. QED
    BY <2>1 DEF FilesInit, FilesTypeOK, Files
<1>2. \A w \in UploadThreads : upload[w].op = "none"
  BY DEF FilesInit, Waiting
<1>3. \A w \in UploadThreads : Own(upload[w]) = {} /\ Replaced(upload[w]) = {}
  BY <1>2 DEF Own, Replaced
<1>4. \A w \in UploadThreads : UploadOk(upload[w])
  BY <1>2, <1>3 DEF UploadOk
<1>5. Apart
  BY <1>3 DEF Apart
<1>6. rows = {} /\ used = 0 /\ resource.path = 0 /\ \A f \in Files : disk[f] = "none"
  BY DEF FilesInit
<1>7. ResourceOk /\ RowHasItsFile /\ NoOrphanFile
  BY <1>6 DEF ResourceOk, RowHasItsFile, NoOrphanFile, Servable
<1>. QED
  BY <1>1, <1>4, <1>5, <1>7 DEF FilesInv

\* Which record an upload is, by its operation.
LEMMA UploadFields ==
  ASSUME NEW q \in Uploads
  PROVE  /\ q.op = "none" <=> q = Waiting
         /\ q.op = "save" <=> q \in SaveRecord
         /\ q.op = "clean" <=> q \in CleanRecord
         /\ q.op = "store" <=> q \in StoreRecord
         /\ q.op \in {"replace", "commit"} <=> q \in NewFileRecord
         /\ q.op \in {"none", "save", "clean", "store", "replace", "commit"}
BY DEF Uploads, Waiting, SaveRecord, CleanRecord, StoreRecord, NewFileRecord

LEMMA InUseIsOwn == InUse = UNION {Own(upload[w]) : w \in UploadThreads}
BY DEF InUse, Own

\* The file a step saves, if it saves one.
Fresh == {used'} \ {used}

\* A step of one upload: what may change of the files, and of what is kept about them.
StepOf(w) ==
  /\ FilesTypeOK'
  /\ \A v \in UploadThreads \ {w} : upload'[v] = upload[v]
  /\ used' \in {used, used + 1}
  /\ \A f \in Files \ Fresh :
       disk'[f] = disk[f] \/ (disk'[f] = "none" /\ f \in Own(upload[w]) \cup Replaced(upload[w]))
  /\ \A f \in Files \ Fresh :
       \/ blame'[f] = blame[f]
       \/ blame'[f] # "none" /\ f \in Own(upload[w]) \cup Replaced(upload[w]) \cup {resource.path}
  /\ \A f \in rows' \ rows : f \in Own(upload[w])
  /\ rows \subseteq rows'
  /\ resource'.path = resource.path \/ resource'.path \in Own(upload[w])
  /\ (resource'.made = resource.made /\ resource'.size = resource.size) \/ resource'.made > resource.made
  /\ Own(upload'[w]) \subseteq Own(upload[w]) \cup Fresh
  /\ Replaced(upload'[w]) \subseteq Replaced(upload[w]) \cup {resource.path}

LEMMA UsedNat ==
  ASSUME FilesInv
  PROVE  /\ used \in Nat /\ used + 1 \notin rows /\ used + 1 # resource.path
         /\ resource.path \in 0 .. used /\ (resource.path # 0 => resource.path \in 1 .. used)
<1>1. used \in 0 .. MaxFiles /\ resource.path \in 0 .. used /\ rows \subseteq 1 .. used
  BY DEF FilesInv, FilesTypeOK, ResourceOk
<1>. QED
  BY <1>1, FilesAssumption

LEMMA UsedGrows == ASSUME FilesInv, used' \in {used, used + 1} PROVE used' \in Nat /\ used <= used'
  BY UsedNat

LEMMA OldFiles == ASSUME FilesInv, used' \in {used, used + 1} PROVE 1 .. used \subseteq Files \ Fresh
  BY FilesAssumption DEF FilesInv, FilesTypeOK, Fresh, Files

LEMMA OtherStays ==
  ASSUME FilesInv, NEW w \in UploadThreads, StepOf(w), NEW q \in Uploads, UploadOk(q),
         Own(q) \cap Own(upload[w]) = {}, Own(q) \cap Replaced(upload[w]) = {},
         Replaced(q) \cap Own(upload[w]) = {}
  PROVE  UploadOk(q)'
<1>1. /\ used \in Nat /\ used' \in Nat /\ used <= used'
      /\ resource.made \in Nat /\ resource'.made \in Nat
  BY FilesAssumption DEF FilesInv, FilesTypeOK, StepOf
<1>2. \A f \in Own(q) \cup Replaced(q) : f \in 1 .. used
  BY DEF UploadOk
<1>3. /\ \A f \in Own(q) : disk'[f] = disk[f]
      /\ \A f \in Replaced(q) : disk'[f] = disk[f] \/ disk'[f] = "none"
  BY <1>2, OldFiles DEF StepOf
<1>4. Own(q) \cup Replaced(q) \subseteq 1 .. used'
  BY <1>1, <1>2
<1>5. \A f \in Own(q) : disk'[f] = "whole" /\ f # resource'.path /\ blame'[f] = blame[f]
  <2>1. \A f \in Own(q) : disk[f] = "whole" /\ f # resource.path
    BY DEF UploadOk
  <2>2. \A f \in Own(q) : f # resource'.path
    BY <2>1 DEF StepOf
  <2>3. \A f \in Own(q) : blame'[f] = blame[f]
    BY <1>2, <2>1, OldFiles DEF StepOf
  <2>. QED
    BY <1>3, <2>1, <2>2, <2>3
<1>6. \A f \in Own(q) \cap rows' : q.op = "clean" /\ blame'[f] = "commit"
  <2>1. \A f \in Own(q) \cap rows' : f \in rows
    BY DEF StepOf
  <2>. QED
    BY <1>5, <2>1 DEF UploadOk
<1>7. \A f \in Replaced(q) : f \notin rows' /\ disk'[f] # "part"
  <2>1. \A f \in Replaced(q) : f \notin rows'
    BY DEF StepOf, UploadOk
  <2>. QED
    BY <1>3, <2>1 DEF UploadOk
<1>8. q.op = "commit" => \A f \in Replaced(q) : disk'[f] = "none" \/ blame'[f] # "none"
  <2>1. \A f \in Replaced(q) : blame'[f] = blame[f] \/ blame'[f] # "none"
    BY <1>2, OldFiles DEF StepOf
  <2>. QED
    BY <1>3, <2>1 DEF UploadOk
<1>9. q.op \in {"store", "replace", "commit"} =>
        q.seen <= resource'.made /\ (q.seen = resource'.made => q.oldSize = resource'.size)
  <2>1. q.op \in {"store", "replace", "commit"} => q.seen \in Nat
    BY UploadFields DEF StoreRecord, NewFileRecord
  <2>2. (resource'.made = resource.made /\ resource'.size = resource.size) \/ resource'.made > resource.made
    BY DEF StepOf
  <2>. QED
    BY <1>1, <2>1, <2>2 DEF UploadOk
<1>10. q.op = "replace" => q.old # 0
  BY DEF UploadOk
<1>. QED
  BY <1>4, <1>5, <1>6, <1>7, <1>8, <1>9, <1>10 DEF UploadOk, Own, Replaced

LEMMA OthersStay ==
  ASSUME FilesInv, NEW w \in UploadThreads, StepOf(w), NEW v \in UploadThreads \ {w}
  PROVE  UploadOk(upload[v])'
<1>1. upload'[v] = upload[v] /\ UploadOk(upload[v]) /\ upload[v] \in Uploads
  BY DEF FilesInv, FilesTypeOK, StepOf
<1>2. /\ Own(upload[v]) \cap Own(upload[w]) = {} /\ Own(upload[v]) \cap Replaced(upload[w]) = {}
      /\ Replaced(upload[v]) \cap Own(upload[w]) = {}
  BY DEF FilesInv, Apart
<1>3. PICK q \in Uploads : q = upload[v]
  BY <1>1
<1>4. UploadOk(q)'
  BY <1>1, <1>2, <1>3, OtherStays
<1>. QED
  BY <1>1, <1>3, <1>4 DEF UploadOk, Own, Replaced

LEMMA StillApart ==
  ASSUME FilesInv, NEW w \in UploadThreads, StepOf(w),
         \A f \in Own(upload'[w]) : f \notin Replaced(upload'[w])
  PROVE  Apart'
<1>1. \A v \in UploadThreads : Own(upload[v]) \cup Replaced(upload[v]) \subseteq 1 .. used /\ resource.path \notin Own(upload[v])
  BY DEF FilesInv, UploadOk
<1>2. used \in Nat /\ used + 1 \notin 1 .. used /\ resource.path \in 0 .. used
  BY DEF FilesInv, FilesTypeOK, ResourceOk
<1>3. \A v \in UploadThreads \ {w} : upload'[v] = upload[v]
  BY DEF StepOf
<1>4. /\ Own(upload'[w]) \subseteq Own(upload[w]) \cup {used + 1}
      /\ Replaced(upload'[w]) \subseteq Replaced(upload[w]) \cup {resource.path}
  BY DEF StepOf, Fresh
<1>5. Apart
  BY DEF FilesInv
<1>6. resource.path # used + 1
  BY <1>2
<1>. QED
  BY <1>1, <1>2, <1>3, <1>4, <1>5, <1>6 DEF Apart

\* No file is left over by a step that leaves none of its own.
LEMMA OrphanStep ==
  ASSUME FilesInv, NEW w \in UploadThreads, StepOf(w),
         \A f \in Files :
           f \in Own(upload[w]) \cup Fresh \cup {resource.path} /\ disk'[f] # "none"
           => f \in rows' \cup {resource'.path} \cup Own(upload'[w]) \/ blame'[f] # "none"
  PROVE  NoOrphanFile'
<1>1. InUse' = UNION {Own(upload'[v]) : v \in UploadThreads}
  BY DEF InUse, Own
<1>2. SUFFICES ASSUME NEW f \in Files, disk'[f] # "none", blame'[f] = "none",
                      f \notin Own(upload[w]) \cup Fresh \cup {resource.path}
               PROVE  f \in rows' \cup InUse'
  <2>1. Own(upload'[w]) \subseteq InUse'
    BY <1>1
  <2>. QED
    BY <2>1 DEF NoOrphanFile, Servable
<1>3. disk[f] # "none"
  BY <1>2 DEF StepOf
<1>4. blame[f] = "none"
  BY <1>2 DEF StepOf
<1>5. f \in rows \cup InUse
  BY <1>2, <1>3, <1>4 DEF FilesInv, NoOrphanFile, Servable
<1>6. CASE f \in rows
  BY <1>6 DEF StepOf
<1>7. CASE f \in InUse
  <2>1. PICK v \in UploadThreads : f \in Own(upload[v])
    BY <1>7, InUseIsOwn
  <2>2. v # w /\ upload'[v] = upload[v]
    BY <1>2, <2>1 DEF StepOf
  <2>. QED
    BY <1>1, <2>1, <2>2
<1>. QED
  BY <1>5, <1>6, <1>7

RowsOk == \A f \in rows : disk[f] = "whole" \/ blame[f] = "commit"

ResourceRowOk ==
  resource.path # 0 =>
    /\ \/ disk[resource.path] = "whole" \/ blame[resource.path] \in {"no cleaning", "killed"}
       \/ \E w \in UploadThreads : upload[w].op = "commit" /\ upload[w].old = resource.path
    /\ resource.size = size[resource.path] \/ resource.stale

LEMMA RowsStep ==
  ASSUME FilesInv, NEW w \in UploadThreads, StepOf(w),
         \A f \in Own(upload[w]) \cap rows' : disk'[f] = "whole" \/ blame'[f] = "commit"
  PROVE  RowsOk'
<1>1. SUFFICES ASSUME NEW f \in rows', f \notin Own(upload[w]) PROVE disk'[f] = "whole" \/ blame'[f] = "commit"
  BY DEF RowsOk
<1>2. f \in rows /\ f \notin Replaced(upload[w]) /\ f # resource.path
  BY <1>1 DEF StepOf, FilesInv, UploadOk, ResourceOk
<1>3. f \in Files \ Fresh
  BY <1>2, OldFiles DEF StepOf, FilesInv, FilesTypeOK
<1>4. disk'[f] = disk[f] /\ blame'[f] = blame[f]
  BY <1>1, <1>2, <1>3 DEF StepOf
<1>. QED
  BY <1>2, <1>4 DEF FilesInv, RowHasItsFile

\* The resource's row stays, and so does its file but for a reason.
LEMMA ResourceStays ==
  ASSUME FilesInv, NEW w \in UploadThreads, StepOf(w),
         resource'.path = resource.path, resource'.size = resource.size, resource'.stale = resource.stale,
         \A f \in 1 .. used : size'[f] = size[f],
         resource.path # 0 =>
           /\ disk'[resource.path] = disk[resource.path]
           /\ \/ blame'[resource.path] = blame[resource.path]
              \/ blame'[resource.path] \in {"no cleaning", "killed"} \/ disk[resource.path] = "whole",
         resource.path # 0 /\ upload[w].op = "commit" /\ upload[w].old = resource.path =>
           blame'[resource.path] \in {"no cleaning", "killed"}
  PROVE  ResourceOk' /\ ResourceRowOk'
<1>1. used \in Nat /\ used' \in Nat /\ used <= used'
  BY UsedNat, UsedGrows DEF StepOf
<1>2. resource.path \notin rows'
  BY DEF FilesInv, ResourceOk, StepOf, UploadOk
<1>3. ResourceOk'
  <2>1. resource.path \in 0 .. used'
    <3>1. resource.path \in 0 .. used
      BY UsedNat
    <3>2. \A p \in 0 .. used : p \in 0 .. used'
      BY ONLY <1>1
    <3>. QED
      BY <3>1, <3>2
  <2>2. resource.path # 0 => disk'[resource.path] # "part"
    BY DEF FilesInv, ResourceOk
  <2>. QED
    BY <1>2, <2>1, <2>2 DEF ResourceOk
<1>4. ASSUME resource.path # 0
      PROVE  \/ disk'[resource.path] = "whole" \/ blame'[resource.path] \in {"no cleaning", "killed"}
             \/ \E v \in UploadThreads : upload'[v].op = "commit" /\ upload'[v].old = resource.path
  <2>1. CASE disk[resource.path] = "whole" \/ blame[resource.path] \in {"no cleaning", "killed"}
    BY <1>4, <2>1
  <2>2. CASE \E v \in UploadThreads : upload[v].op = "commit" /\ upload[v].old = resource.path
    BY <1>4, <2>2 DEF StepOf
  <2>. QED
    BY <1>4, <2>1, <2>2 DEF FilesInv, RowHasItsFile
<1>5. resource.path # 0 => size'[resource.path] = size[resource.path]
  BY UsedNat
<1>6. resource.path # 0 => resource.size = size[resource.path] \/ resource.stale
  BY DEF FilesInv, RowHasItsFile
<1>. QED
  BY <1>3, <1>4, <1>5, <1>6 DEF ResourceRowOk

LEMMA FileStep ==
  ASSUME FilesInv, NEW w \in UploadThreads, StepOf(w), UploadOk(upload[w])',
         \A f \in Own(upload'[w]) : f \notin Replaced(upload'[w]),
         ResourceOk', ResourceRowOk', RowsOk', NoOrphanFile'
  PROVE  FilesInv'
<1>1. \A v \in UploadThreads : UploadOk(upload[v])'
  BY OthersStay
<1>. QED
  BY <1>1, StillApart DEF FilesInv, StepOf, RowHasItsFile, RowsOk, ResourceRowOk

(* Attachments *)

\* An upload of attachments goes on, or ends.
LEMMA AttachmentStep ==
  ASSUME FilesInv, NEW w \in UploadThreads, StepOf(w), UploadOk(upload[w])',
         upload[w].op \in {"none", "save", "clean"}, upload'[w].op \in {"none", "save", "clean"},
         resource' = resource,
         \A f \in 1 .. used : size'[f] = size[f],
         resource.path # 0 => blame'[resource.path] = blame[resource.path],
         \A f \in Own(upload[w]) \cap rows' : disk'[f] = "whole" \/ blame'[f] = "commit",
         \A f \in Files :
           f \in Own(upload[w]) \cup Fresh /\ disk'[f] # "none"
           => f \in rows' \cup Own(upload'[w]) \/ blame'[f] # "none"
  PROVE  FilesInv'
<1>1. Replaced(upload[w]) = {} /\ Replaced(upload'[w]) = {}
  BY DEF Replaced
<1>2. resource.path # 0 => disk'[resource.path] = disk[resource.path]
  <2>1. resource.path # 0 => resource.path \in Files \ Fresh /\ resource.path \notin Own(upload[w])
    BY UsedNat, OldFiles DEF StepOf, FilesInv, UploadOk
  <2>. QED
    BY <1>1, <2>1 DEF StepOf
<1>3. ResourceOk' /\ ResourceRowOk'
  BY <1>2, ResourceStays
<1>4. NoOrphanFile'
  BY OrphanStep
<1>5. RowsOk'
  BY RowsStep
<1>. QED
  BY <1>1, <1>3, <1>4, <1>5, FileStep

\* What the handler goes on with after an error.
LEMMA RecoverType ==
  ASSUME NEW q \in SaveRecord
  PROVE  /\ Recover(q) \in {Waiting} \cup CleanRecord
         /\ Recover(q).op \in {"none", "clean"}
         /\ Own(Recover(q)) = IF Cleans(q) THEN q.saved ELSE {}
         /\ Own(q) = q.saved /\ Replaced(q) = {} /\ Replaced(Recover(q)) = {}
<1>1. CASE Cleans(q)
  <2>1. Recover(q) = [op |-> "clean", saved |-> q.saved]
    BY <1>1 DEF Recover, AfterError
  <2>. QED
    BY <1>1, <2>1 DEF SaveRecord, CleanRecord, Own, Replaced
<1>2. CASE ~Cleans(q)
  BY <1>2 DEF Recover, AfterError, Waiting, SaveRecord, Own, Replaced
<1>. QED
  BY <1>1, <1>2

LEMMA StartUploadStep == ASSUME FilesInv, NEW w \in UploadThreads, StartUpload(w) PROVE FilesInv'
<1>1. PICK kind \in {"report", "bug", "mobile", "board"} :
        upload' = [upload EXCEPT ![w] = [op |-> "save", kind |-> kind, saved |-> {}]]
  BY DEF StartUpload
<1>. DEFINE q == [op |-> "save", kind |-> kind, saved |-> {}]
<1>2. UNCHANGED <<disk, size, used, rows, resource, blame>> /\ upload[w].op = "none"
  BY DEF StartUpload, Waiting
<1>3. q \in Uploads /\ q.op = "save" /\ Own(q) = {} /\ Replaced(q) = {} /\ Own(upload[w]) = {}
  BY <1>2 DEF Uploads, SaveRecord, Own, Replaced
<1>. HIDE DEF q
<1>4. FilesTypeOK' /\ upload'[w] = q
  BY <1>1, <1>2, <1>3 DEF FilesInv, FilesTypeOK, q
<1>5. StepOf(w) /\ Fresh = {}
  BY <1>1, <1>2, <1>3, <1>4 DEF StepOf, Fresh, FilesInv, FilesTypeOK
<1>6. UploadOk(upload[w])'
  BY <1>3, <1>4 DEF UploadOk
<1>. QED
  BY <1>2, <1>3, <1>4, <1>5, <1>6, AttachmentStep

LEMMA SaveAttachmentStep == ASSUME FilesInv, NEW w \in UploadThreads, SaveAttachment(w) PROVE FilesInv'
<1>. DEFINE q == upload[w]
            next == [q EXCEPT !.saved = q.saved \cup {used + 1}]
<1>1. /\ q.op = "save" /\ (q.kind \in {"mobile", "board"} => q.saved = {})
      /\ used < MaxFiles /\ used' = used + 1 /\ UNCHANGED <<rows, resource>>
      /\ \/ /\ disk' = [disk EXCEPT ![used + 1] = "whole"]
            /\ size' = [size EXCEPT ![used + 1] = 0]
            /\ upload' = [upload EXCEPT ![w] = next]
            /\ UNCHANGED blame
         \/ /\ disk' = [disk EXCEPT ![used + 1] = "part"]
            /\ blame' = Blamed({used + 1}, "save")
            /\ upload' = [upload EXCEPT ![w] = Recover(q)]
            /\ UNCHANGED size
  BY DEF SaveAttachment, SaveFile
<1>2. q \in SaveRecord /\ Own(q) = q.saved /\ Replaced(q) = {} /\ UploadOk(q)
  BY <1>1, UploadFields DEF FilesInv, FilesTypeOK, Own, Replaced
<1>3. used \in Nat /\ MaxFiles \in Nat /\ Files = 1 .. MaxFiles /\ used + 1 \in Files
  BY <1>1, UsedNat, FilesAssumption DEF Files
<1>4. Fresh = {used + 1} /\ 1 .. used \subseteq Files \ {used + 1}
  BY <1>1, <1>3 DEF Fresh
<1>5. next \in SaveRecord /\ next.op = "save" /\ Own(next) = q.saved \cup {used + 1} /\ Replaced(next) = {}
  BY <1>2, <1>3 DEF SaveRecord, Own, Replaced
<1>6. resource.path # used + 1 /\ used + 1 \notin rows
  BY UsedNat
<1>. HIDE DEF next, q
<1>7. CASE /\ disk' = [disk EXCEPT ![used + 1] = "whole"]
           /\ size' = [size EXCEPT ![used + 1] = 0]
           /\ upload' = [upload EXCEPT ![w] = next]
           /\ UNCHANGED blame
  <2>1. FilesTypeOK' /\ upload'[w] = next
    BY <1>1, <1>3, <1>5, <1>7 DEF FilesInv, FilesTypeOK, Uploads
  <2>2. StepOf(w)
    BY <1>1, <1>2, <1>3, <1>4, <1>5, <1>7, <2>1 DEF StepOf, FilesInv, FilesTypeOK, q
  <2>3. UploadOk(upload[w])'
    BY <1>1, <1>2, <1>3, <1>5, <1>6, <1>7, <2>1 DEF UploadOk, FilesInv, FilesTypeOK
  <2>4. /\ upload[w].op \in {"none", "save", "clean"} /\ upload'[w].op \in {"none", "save", "clean"}
        /\ resource' = resource
        /\ resource.path # 0 => blame'[resource.path] = blame[resource.path]
    BY <1>1, <1>5, <1>7, <2>1 DEF q
  <2>5. \A f \in 1 .. used : size'[f] = size[f]
    BY <1>3, <1>4, <1>7 DEF FilesInv, FilesTypeOK
  <2>6. \A f \in Own(upload[w]) \cap rows' : disk'[f] = "whole" \/ blame'[f] = "commit"
    BY <1>1, <1>2, <1>7 DEF UploadOk, q
  <2>7. Own(upload[w]) \cup Fresh \subseteq Own(upload'[w])
    BY <1>2, <1>4, <1>5, <2>1 DEF q
  <2>. QED
    BY <2>2, <2>3, <2>4, <2>5, <2>6, <2>7, AttachmentStep
<1>8. CASE /\ disk' = [disk EXCEPT ![used + 1] = "part"]
           /\ blame' = Blamed({used + 1}, "save")
           /\ upload' = [upload EXCEPT ![w] = Recover(q)]
           /\ UNCHANGED size
  <2>. DEFINE r == Recover(q)
  <2>1. /\ r \in {Waiting} \cup CleanRecord /\ r.op \in {"none", "clean"}
        /\ Own(r) = Own(q) /\ Replaced(r) = {}
    <3>1. Own(r) = IF Cleans(q) THEN q.saved ELSE {}
      BY <1>2, RecoverType
    <3>2. ~Cleans(q) => q.saved = {}
      BY <1>1 DEF Cleans
    <3>. QED
      BY <1>2, <3>1, <3>2, RecoverType
  <2>. HIDE DEF r
  <2>2. /\ \A f \in Files \ Fresh : disk'[f] = disk[f] /\ blame'[f] = blame[f]
        /\ blame'[used + 1] = "save" /\ blame' \in [Files -> Blames]
    BY <1>3, <1>4, <1>8 DEF FilesInv, FilesTypeOK, Blamed, Blames
  <2>3. upload'[w] = r /\ upload' \in [UploadThreads -> Uploads] /\ \A v \in UploadThreads \ {w} : upload'[v] = upload[v]
    BY <1>8, <2>1 DEF FilesInv, FilesTypeOK, Uploads, r
  <2>4. FilesTypeOK'
    <3>1. FilesTypeOK
      BY DEF FilesInv
    <3>2. disk' \in [Files -> {"none", "part", "whole"}] /\ size' \in [Files -> Nat]
      BY <1>8, <3>1 DEF FilesTypeOK
    <3>3. used' \in 0 .. MaxFiles /\ rows' \subseteq 1 .. used'
      BY <1>1, <1>3, <3>1 DEF FilesTypeOK
    <3>. QED
      BY <1>1, <2>2, <2>3, <3>1, <3>2, <3>3 DEF FilesTypeOK
  <2>5. StepOf(w)
    BY <1>1, <1>2, <2>1, <2>2, <2>3, <2>4 DEF StepOf, q
  <2>6. UploadOk(upload[w])'
    BY <1>1, <1>2, <1>3, <1>4, <2>1, <2>2, <2>3 DEF UploadOk
  <2>7. resource.path # 0 => blame'[resource.path] = blame[resource.path]
    BY <1>4, <2>2, UsedNat
  <2>8. /\ \A f \in Own(q) \cap rows : disk'[f] = "whole"
        /\ \A f \in Files : f \in Own(q) \cup Fresh => f \in Own(r) \/ blame'[f] # "none"
    BY <1>2, <1>4, <2>1, <2>2 DEF UploadOk
  <2>. QED
    BY <1>1, <1>8, <2>1, <2>3, <2>5, <2>6, <2>7, <2>8, AttachmentStep DEF q
<1>. QED
  BY <1>1, <1>7, <1>8

\* A step that saves no file.
LEMMA NoFileSaved ==
  ASSUME FilesInv, NEW w \in UploadThreads, UNCHANGED <<size, used>>,
         disk' \in [Files -> {"none", "part", "whole"}], blame' \in [Files -> Blames],
         rows' \subseteq 1 .. used, resource' = resource,
         NEW r \in Uploads, upload' = [upload EXCEPT ![w] = r]
  PROVE  /\ FilesTypeOK' /\ upload'[w] = r /\ Fresh = {}
         /\ \A v \in UploadThreads \ {w} : upload'[v] = upload[v]
<1>1. FilesTypeOK
  BY DEF FilesInv
<1>2. upload' \in [UploadThreads -> Uploads] /\ upload'[w] = r /\ \A v \in UploadThreads \ {w} : upload'[v] = upload[v]
  BY <1>1 DEF FilesTypeOK
<1>3. Fresh = {}
  BY DEF Fresh
<1>. QED
  BY <1>1, <1>2, <1>3 DEF FilesTypeOK

\* An upload that is under way; what it blames its files for.
LEMMA SavedFacts ==
  ASSUME FilesInv, NEW w \in UploadThreads, upload[w].op \in {"save", "clean"}
  PROVE  /\ upload[w].op = "save" => upload[w] \in SaveRecord
         /\ upload[w].op = "clean" => upload[w] \in CleanRecord
         /\ Own(upload[w]) = upload[w].saved /\ Replaced(upload[w]) = {} /\ UploadOk(upload[w])
         /\ upload[w].saved \subseteq Files
<1>1. upload[w] \in Uploads /\ UploadOk(upload[w])
  BY DEF FilesInv, FilesTypeOK
<1>2. (upload[w].op = "save" => upload[w] \in SaveRecord) /\ (upload[w].op = "clean" => upload[w] \in CleanRecord)
  BY <1>1, UploadFields
<1>3. upload[w].saved \subseteq Files
  BY <1>2 DEF SaveRecord, CleanRecord
<1>. QED
  BY <1>1, <1>2, <1>3 DEF Own, Replaced

LEMMA BlamedFacts ==
  ASSUME FilesInv, NEW fs \in SUBSET Files, NEW why \in Blames, why # "none"
  PROVE  /\ Blamed(fs, why) \in [Files -> Blames]
         /\ \A f \in Files \ fs : Blamed(fs, why)[f] = blame[f]
         /\ \A f \in fs : Blamed(fs, why)[f] = why
         /\ blame \in [Files -> Blames]
BY DEF FilesInv, FilesTypeOK, Blamed

\* The handler gives up, or goes on to clean.
LEMMA RecoverFacts ==
  ASSUME FilesInv, NEW w \in UploadThreads, upload[w].op = "save"
  PROVE  /\ Recover(upload[w]) \in Uploads /\ Recover(upload[w]).op \in {"none", "clean"}
         /\ Own(Recover(upload[w])) \subseteq upload[w].saved /\ Replaced(Recover(upload[w])) = {}
         /\ Own(Recover(upload[w])) = upload[w].saved \/ upload[w].kind = "board"
<1>1. upload[w] \in SaveRecord
  BY SavedFacts
<1>2. /\ Recover(upload[w]) \in {Waiting} \cup CleanRecord
      /\ Recover(upload[w]).op \in {"none", "clean"}
      /\ Own(Recover(upload[w])) = IF Cleans(upload[w]) THEN upload[w].saved ELSE {}
      /\ Replaced(Recover(upload[w])) = {}
  BY <1>1, RecoverType
<1>3. Own(Recover(upload[w])) = upload[w].saved \/ upload[w].kind = "board"
  BY <1>2 DEF Cleans
<1>. QED
  BY <1>2, <1>3 DEF Uploads

LEMMA FailUploadStep == ASSUME FilesInv, NEW w \in UploadThreads, FailUpload(w) PROVE FilesInv'
<1>1. /\ upload[w].op = "save" /\ UNCHANGED <<disk, size, used, rows, resource>>
      /\ blame' = IF upload[w].kind = "board" THEN Blamed(upload[w].saved, "no cleaning") ELSE blame
      /\ upload' = [upload EXCEPT ![w] = Recover(upload[w])]
  BY DEF FailUpload
<1>2. PICK r \in Uploads : r = Recover(upload[w])
  BY <1>1, RecoverFacts
<1>3. /\ r.op \in {"none", "clean"} /\ Own(r) \subseteq upload[w].saved /\ Replaced(r) = {}
      /\ Own(r) = upload[w].saved \/ upload[w].kind = "board"
  BY <1>1, <1>2, RecoverFacts
<1>4. /\ Own(upload[w]) = upload[w].saved /\ Replaced(upload[w]) = {} /\ UploadOk(upload[w])
      /\ upload[w].saved \subseteq Files
  BY <1>1, SavedFacts
<1>5. /\ blame' \in [Files -> Blames]
      /\ \A f \in Files \ upload[w].saved : blame'[f] = blame[f]
      /\ \A f \in upload[w].saved : blame'[f] = IF upload[w].kind = "board" THEN "no cleaning" ELSE blame[f]
  <2>1. CASE upload[w].kind = "board"
    <3>1. "no cleaning" \in Blames /\ upload[w].saved \in SUBSET Files
      BY <1>4 DEF Blames
    <3>2. blame' = Blamed(upload[w].saved, "no cleaning") /\ blame \in [Files -> Blames]
      BY <1>1, <2>1 DEF FilesInv, FilesTypeOK
    <3>. QED
      BY <2>1, <3>1, <3>2 DEF Blamed
  <2>2. CASE upload[w].kind # "board"
    BY <1>1, <1>4, <2>2 DEF FilesInv, FilesTypeOK
  <2>. QED
    BY <2>1, <2>2
<1>6. /\ FilesTypeOK' /\ upload'[w] = r /\ Fresh = {}
      /\ \A v \in UploadThreads \ {w} : upload'[v] = upload[v]
  <2>1. disk \in [Files -> {"none", "part", "whole"}] /\ rows \subseteq 1 .. used
    BY DEF FilesInv, FilesTypeOK
  <2>. QED
    BY <1>1, <1>2, <1>5, <2>1, NoFileSaved
<1>7. StepOf(w)
  BY <1>1, <1>3, <1>4, <1>5, <1>6 DEF StepOf
<1>8. UploadOk(upload[w])'
  BY <1>1, <1>3, <1>4, <1>6 DEF UploadOk
<1>9. resource.path # 0 => blame'[resource.path] = blame[resource.path]
  <2>1. resource.path # 0 => resource.path \in Files \ upload[w].saved
    BY <1>1, <1>4, UsedNat, OldFiles DEF UploadOk
  <2>. QED
    BY <1>5, <2>1
<1>10. \A f \in Own(upload[w]) \cap rows' : disk'[f] = "whole"
  BY <1>1, <1>4 DEF UploadOk
<1>11. \A f \in upload[w].saved : f \in Own(r) \/ blame'[f] # "none"
  BY <1>3, <1>5
<1>. QED
  BY <1>1, <1>3, <1>4, <1>6, <1>7, <1>8, <1>9, <1>10, <1>11, AttachmentStep

LEMMA CommitUploadStep == ASSUME FilesInv, NEW w \in UploadThreads, CommitUpload(w) PROVE FilesInv'
<1>1. /\ upload[w].op = "save" /\ UNCHANGED <<disk, size, used, resource>>
      /\ rows' = rows \cup upload[w].saved
      /\ \/ upload' = [upload EXCEPT ![w] = Waiting] /\ UNCHANGED blame
         \/ upload' = [upload EXCEPT ![w] = Recover(upload[w])] /\ blame' = Blamed(upload[w].saved, "commit")
  BY DEF CommitUpload
<1>2. PICK r \in Uploads :
        /\ upload' = [upload EXCEPT ![w] = r]
        /\ r.op \in {"none", "clean"} /\ Own(r) \subseteq upload[w].saved /\ Replaced(r) = {}
        /\ (r = Waiting /\ blame' = blame /\ Own(r) = {}) \/ blame' = Blamed(upload[w].saved, "commit")
  <2>1. CASE upload' = [upload EXCEPT ![w] = Waiting] /\ UNCHANGED blame
    <3>1. Waiting \in Uploads /\ Waiting.op = "none" /\ Own(Waiting) = {} /\ Replaced(Waiting) = {}
      BY DEF Uploads, Waiting, Own, Replaced
    <3>. QED
      BY <2>1, <3>1
  <2>2. CASE upload' = [upload EXCEPT ![w] = Recover(upload[w])] /\ blame' = Blamed(upload[w].saved, "commit")
    BY <1>1, <2>2, RecoverFacts
  <2>. QED
    BY <1>1, <2>1, <2>2
<1>3. /\ Own(upload[w]) = upload[w].saved /\ Replaced(upload[w]) = {} /\ UploadOk(upload[w])
      /\ upload[w].saved \subseteq Files
  BY <1>1, SavedFacts
<1>4. /\ blame' \in [Files -> Blames]
      /\ \A f \in Files \ upload[w].saved : blame'[f] = blame[f]
      /\ \A f \in upload[w].saved : blame'[f] = "commit" \/ (blame'[f] = blame[f] /\ Own(r) = {})
  <2>1. CASE blame' = blame /\ Own(r) = {}
    BY <2>1 DEF FilesInv, FilesTypeOK
  <2>2. CASE blame' = Blamed(upload[w].saved, "commit")
    <3>1. "commit" \in Blames /\ upload[w].saved \in SUBSET Files
      BY <1>3 DEF Blames
    <3>2. /\ Blamed(upload[w].saved, "commit") \in [Files -> Blames]
          /\ \A f \in Files \ upload[w].saved : Blamed(upload[w].saved, "commit")[f] = blame[f]
          /\ \A f \in upload[w].saved : Blamed(upload[w].saved, "commit")[f] = "commit"
      BY <3>1, BlamedFacts
    <3>. QED
      BY <2>2, <3>2
  <2>. QED
    BY <1>2, <2>1, <2>2
<1>5. \A f \in upload[w].saved : disk[f] = "whole" /\ f \in 1 .. used /\ f # resource.path /\ f \notin rows
  BY <1>1, <1>3 DEF UploadOk
<1>6. /\ FilesTypeOK' /\ upload'[w] = r /\ Fresh = {}
      /\ \A v \in UploadThreads \ {w} : upload'[v] = upload[v]
  <2>1. disk' \in [Files -> {"none", "part", "whole"}] /\ rows' \subseteq 1 .. used
    BY <1>1, <1>5 DEF FilesInv, FilesTypeOK
  <2>. QED
    BY <1>1, <1>2, <1>4, <2>1, NoFileSaved
<1>7. StepOf(w)
  BY <1>1, <1>2, <1>3, <1>4, <1>6 DEF StepOf
<1>8. \A f \in Own(r) : f \in upload[w].saved /\ blame'[f] = "commit" /\ r.op = "clean"
  BY <1>2, <1>4 DEF Own
<1>9. UploadOk(upload[w])'
  BY <1>1, <1>2, <1>5, <1>6, <1>8 DEF UploadOk
<1>10. resource.path # 0 => blame'[resource.path] = blame[resource.path]
  <2>1. resource.path # 0 => resource.path \in Files \ upload[w].saved
    BY <1>1, <1>5, UsedNat, OldFiles
  <2>. QED
    BY <1>4, <2>1
<1>. QED
  BY <1>1, <1>2, <1>3, <1>5, <1>6, <1>7, <1>9, <1>10, AttachmentStep

LEMMA CleanUpStep == ASSUME FilesInv, NEW w \in UploadThreads, CleanUp(w) PROVE FilesInv'
<1>1. upload[w].op = "clean" /\ UNCHANGED <<size, used, rows, resource>>
  BY DEF CleanUp
<1>2. PICK f \in upload[w].saved :
        /\ \/ disk' = [disk EXCEPT ![f] = "none"] /\ UNCHANGED blame
           \/ blame' = Blamed({f}, "remove") /\ UNCHANGED disk
        /\ upload' = [upload EXCEPT ![w] =
             IF upload[w].saved = {f} THEN Waiting ELSE [upload[w] EXCEPT !.saved = upload[w].saved \ {f}]]
  BY DEF CleanUp
<1>3. /\ Own(upload[w]) = upload[w].saved /\ Replaced(upload[w]) = {} /\ UploadOk(upload[w])
      /\ upload[w].saved \subseteq Files /\ upload[w] \in CleanRecord
  BY <1>1, SavedFacts
<1>4. PICK r \in Uploads :
        /\ upload' = [upload EXCEPT ![w] = r] /\ r.op \in {"none", "clean"}
        /\ Own(r) = upload[w].saved \ {f} /\ Replaced(r) = {} /\ (Own(r) # {} => r.op = "clean")
  <2>1. CASE upload[w].saved = {f}
    <3>1. Waiting \in Uploads /\ Waiting.op = "none" /\ Own(Waiting) = {} /\ Replaced(Waiting) = {}
      BY DEF Uploads, Waiting, Own, Replaced
    <3>. QED
      BY <1>2, <2>1, <3>1
  <2>2. CASE upload[w].saved # {f}
    <3>. DEFINE r == [upload[w] EXCEPT !.saved = upload[w].saved \ {f}]
    <3>1. r \in CleanRecord /\ r.op = "clean" /\ r.saved = upload[w].saved \ {f}
      BY <1>3 DEF CleanRecord
    <3>. HIDE DEF r
    <3>2. upload' = [upload EXCEPT ![w] = r]
      BY <1>2, <2>2 DEF r
    <3>. QED
      BY <3>1, <3>2 DEF Uploads, Own, Replaced
  <2>. QED
    BY <2>1, <2>2
<1>5. /\ disk' \in [Files -> {"none", "part", "whole"}] /\ blame' \in [Files -> Blames]
      /\ \A g \in Files \ {f} : disk'[g] = disk[g] /\ blame'[g] = blame[g]
      /\ (disk'[f] = "none" /\ blame'[f] = blame[f]) \/ (disk'[f] = disk[f] /\ blame'[f] = "remove")
  <2>1. f \in Files /\ disk \in [Files -> {"none", "part", "whole"}] /\ blame \in [Files -> Blames]
    BY <1>3 DEF FilesInv, FilesTypeOK
  <2>2. CASE disk' = [disk EXCEPT ![f] = "none"] /\ UNCHANGED blame
    BY <2>1, <2>2
  <2>3. CASE blame' = Blamed({f}, "remove") /\ UNCHANGED disk
    <3>1. "remove" \in Blames /\ {f} \in SUBSET Files
      BY <2>1 DEF Blames
    <3>2. /\ Blamed({f}, "remove") \in [Files -> Blames]
          /\ \A g \in Files \ {f} : Blamed({f}, "remove")[g] = blame[g]
          /\ Blamed({f}, "remove")[f] = "remove"
      BY <3>1, BlamedFacts
    <3>. QED
      BY <2>1, <2>3, <3>2
  <2>. QED
    BY <1>2, <2>2, <2>3
<1>6. \A g \in upload[w].saved :
        disk[g] = "whole" /\ g \in 1 .. used /\ g # resource.path /\ (g \in rows => blame[g] = "commit")
  BY <1>3 DEF UploadOk
<1>7. /\ FilesTypeOK' /\ upload'[w] = r /\ Fresh = {}
      /\ \A v \in UploadThreads \ {w} : upload'[v] = upload[v]
  <2>1. rows' \subseteq 1 .. used
    BY <1>1 DEF FilesInv, FilesTypeOK
  <2>. QED
    BY <1>1, <1>4, <1>5, <2>1, NoFileSaved
<1>8. StepOf(w)
  BY <1>1, <1>3, <1>4, <1>5, <1>7 DEF StepOf
<1>9. UploadOk(upload[w])'
  BY <1>1, <1>3, <1>4, <1>5, <1>6, <1>7 DEF UploadOk
<1>10. resource.path # 0 => blame'[resource.path] = blame[resource.path]
  <2>1. resource.path # 0 => resource.path \in Files \ {f}
    BY <1>1, <1>6, UsedNat, OldFiles
  <2>. QED
    BY <1>5, <2>1
<1>11. \A g \in upload[w].saved \cap rows : disk'[g] = "whole" \/ blame'[g] = "commit"
  BY <1>3, <1>5, <1>6
<1>12. \A g \in upload[w].saved : disk'[g] # "none" => g \in Own(r) \/ blame'[g] # "none"
  BY <1>3, <1>4, <1>5
<1>. QED
  BY <1>1, <1>3, <1>4, <1>7, <1>8, <1>9, <1>10, <1>11, <1>12, AttachmentStep

(* A resource *)

\* What an upload of a resource has, by its operation.
LEMMA StoreFacts ==
  ASSUME FilesInv, NEW w \in UploadThreads, upload[w].op \in {"store", "replace", "commit"}
  PROVE  /\ upload[w] \in Uploads /\ UploadOk(upload[w])
         /\ upload[w].op = "store" => upload[w] \in StoreRecord /\ Own(upload[w]) = {}
         /\ upload[w].op # "store" => upload[w] \in NewFileRecord /\ Own(upload[w]) = {upload[w].file}
         /\ Replaced(upload[w]) = {upload[w].old} \ {0}
         /\ upload[w].old \in 0 .. MaxFiles /\ upload[w].oldSize \in Nat /\ upload[w].seen \in Nat
<1>1. upload[w] \in Uploads /\ UploadOk(upload[w])
  BY DEF FilesInv, FilesTypeOK
<1>2. /\ upload[w].op = "store" => upload[w] \in StoreRecord
      /\ upload[w].op # "store" => upload[w] \in NewFileRecord
  BY <1>1, UploadFields
<1>3. upload[w].old \in 0 .. MaxFiles /\ upload[w].oldSize \in Nat /\ upload[w].seen \in Nat
  BY <1>2 DEF StoreRecord, NewFileRecord
<1>. QED
  BY <1>1, <1>2, <1>3 DEF Own, Replaced

LEMMA StartResourceStep == ASSUME FilesInv, NEW w \in UploadThreads, StartResource(w) PROVE FilesInv'
<1>1. /\ upload[w].op = "none" /\ UNCHANGED <<disk, size, used, rows, resource, blame>>
      /\ upload' = [upload EXCEPT ![w] = [op |-> "store", old |-> resource.path, oldSize |-> resource.size,
                                          seen |-> resource.made]]
  BY DEF StartResource, Waiting
<1>2. /\ resource.path \in 0 .. MaxFiles /\ resource.size \in Nat /\ resource.made \in Nat
      /\ disk \in [Files -> {"none", "part", "whole"}] /\ blame \in [Files -> Blames] /\ rows \subseteq 1 .. used
  BY DEF FilesInv, FilesTypeOK
<1>3. PICK r \in Uploads :
        /\ upload' = [upload EXCEPT ![w] = r]
        /\ r.op = "store" /\ r.old = resource.path /\ r.oldSize = resource.size /\ r.seen = resource.made
  <2>. DEFINE r == [op |-> "store", old |-> resource.path, oldSize |-> resource.size, seen |-> resource.made]
  <2>1. r \in StoreRecord /\ r.op = "store" /\ r.old = resource.path /\ r.oldSize = resource.size /\ r.seen = resource.made
    BY <1>2 DEF StoreRecord
  <2>. HIDE DEF r
  <2>2. upload' = [upload EXCEPT ![w] = r]
    BY <1>1 DEF r
  <2>. QED
    BY <2>1, <2>2 DEF Uploads
<1>4. Own(r) = {} /\ Replaced(r) = {resource.path} \ {0} /\ Own(upload[w]) = {} /\ Replaced(upload[w]) = {}
  BY <1>1, <1>3 DEF Own, Replaced
<1>5. /\ FilesTypeOK' /\ upload'[w] = r /\ Fresh = {}
      /\ \A v \in UploadThreads \ {w} : upload'[v] = upload[v]
  BY <1>1, <1>2, <1>3, NoFileSaved
<1>6. StepOf(w)
  BY <1>1, <1>4, <1>5 DEF StepOf
<1>7. UploadOk(upload[w])'
  <2>1. \A f \in Replaced(r) : f \in 1 .. used /\ f \notin rows /\ disk[f] # "part"
    BY <1>4, UsedNat DEF FilesInv, ResourceOk
  <2>. QED
    BY <1>1, <1>2, <1>3, <1>4, <1>5, <2>1 DEF UploadOk
<1>8. ResourceOk' /\ ResourceRowOk'
  BY <1>1, <1>6, ResourceStays
<1>9. NoOrphanFile'
  <2>1. \A f \in Files : f = resource.path => f \in {resource'.path}
    BY <1>1
  <2>. QED
    BY <1>4, <1>5, <1>6, <2>1, OrphanStep
<1>10. RowsOk'
  BY <1>4, <1>6, RowsStep
<1>. QED
  BY <1>4, <1>5, <1>6, <1>7, <1>8, <1>9, <1>10, FileStep

LEMMA SaveResourceStep == ASSUME FilesInv, NEW w \in UploadThreads, SaveResource(w) PROVE FilesInv'
<1>1. upload[w].op = "store" /\ used < MaxFiles /\ used' = used + 1 /\ UNCHANGED <<rows, resource>>
  BY DEF SaveResource, SaveFile
<1>2. PICK n \in {1, 2} :
        \/ /\ disk' = [disk EXCEPT ![used + 1] = "whole"]
           /\ size' = [size EXCEPT ![used + 1] = n]
           /\ upload' = [upload EXCEPT ![w] =
                [op |-> IF upload[w].old = 0 THEN "commit" ELSE "replace", old |-> upload[w].old,
                 oldSize |-> upload[w].oldSize, seen |-> upload[w].seen, file |-> used + 1]]
           /\ UNCHANGED blame
        \/ /\ disk' = [disk EXCEPT ![used + 1] = "part"]
           /\ blame' = Blamed({used + 1}, "save")
           /\ upload' = [upload EXCEPT ![w] = Waiting]
           /\ UNCHANGED size
  BY DEF SaveResource, SaveFile
<1>3. used \in Nat /\ MaxFiles \in Nat /\ Files = 1 .. MaxFiles /\ used + 1 \in Files
  BY <1>1, UsedNat, FilesAssumption DEF Files
<1>4. Fresh = {used + 1} /\ 1 .. used \subseteq Files \ {used + 1}
  BY <1>1, <1>3 DEF Fresh
<1>5. resource.path # used + 1 /\ used + 1 \notin rows
  BY UsedNat
<1>6. /\ UploadOk(upload[w]) /\ Own(upload[w]) = {} /\ Replaced(upload[w]) = {upload[w].old} \ {0}
      /\ upload[w].old \in 0 .. MaxFiles /\ upload[w].oldSize \in Nat /\ upload[w].seen \in Nat
  BY <1>1, StoreFacts
<1>7. PICK r \in Uploads :
        /\ upload' = [upload EXCEPT ![w] = r]
        /\ \/ /\ disk' = [disk EXCEPT ![used + 1] = "whole"] /\ UNCHANGED blame
              /\ r.op = (IF upload[w].old = 0 THEN "commit" ELSE "replace") /\ r.old = upload[w].old
              /\ r.oldSize = upload[w].oldSize /\ r.seen = upload[w].seen
              /\ Own(r) = {used + 1} /\ Replaced(r) = Replaced(upload[w])
           \/ /\ disk' = [disk EXCEPT ![used + 1] = "part"] /\ blame' = Blamed({used + 1}, "save")
              /\ r.op = "none" /\ Own(r) = {} /\ Replaced(r) = {}
        /\ size' = size \/ \E k \in Nat : size' = [size EXCEPT ![used + 1] = k]
  <2>1. CASE /\ disk' = [disk EXCEPT ![used + 1] = "whole"]
             /\ size' = [size EXCEPT ![used + 1] = n]
             /\ upload' = [upload EXCEPT ![w] =
                  [op |-> IF upload[w].old = 0 THEN "commit" ELSE "replace", old |-> upload[w].old,
                   oldSize |-> upload[w].oldSize, seen |-> upload[w].seen, file |-> used + 1]]
             /\ UNCHANGED blame
    <3>. DEFINE r == [op |-> IF upload[w].old = 0 THEN "commit" ELSE "replace", old |-> upload[w].old,
                      oldSize |-> upload[w].oldSize, seen |-> upload[w].seen, file |-> used + 1]
    <3>1. r \in NewFileRecord
      BY <1>3, <1>6 DEF NewFileRecord
    <3>2. /\ r.op = (IF upload[w].old = 0 THEN "commit" ELSE "replace") /\ r.old = upload[w].old
          /\ r.oldSize = upload[w].oldSize /\ r.seen = upload[w].seen /\ r.file = used + 1
      OBVIOUS
    <3>. HIDE DEF r
    <3>3. Own(r) = {used + 1} /\ Replaced(r) = Replaced(upload[w])
      BY <1>6, <3>2 DEF Own, Replaced
    <3>4. upload' = [upload EXCEPT ![w] = r] /\ n \in Nat
      BY <2>1 DEF r
    <3>5. r \in Uploads
      BY <3>1 DEF Uploads
    <3>. QED
      BY <2>1, <3>2, <3>3, <3>4, <3>5
  <2>2. CASE /\ disk' = [disk EXCEPT ![used + 1] = "part"]
             /\ blame' = Blamed({used + 1}, "save")
             /\ upload' = [upload EXCEPT ![w] = Waiting]
             /\ UNCHANGED size
    <3>1. Waiting \in Uploads /\ Waiting.op = "none" /\ Own(Waiting) = {} /\ Replaced(Waiting) = {}
      BY DEF Uploads, Waiting, Own, Replaced
    <3>. QED
      BY <2>2, <3>1
  <2>. QED
    BY <1>2, <2>1, <2>2
<1>8. /\ blame' \in [Files -> Blames] /\ \A f \in Files \ Fresh : blame'[f] = blame[f]
      /\ blame' = blame \/ blame'[used + 1] = "save"
  <2>1. CASE blame' = Blamed({used + 1}, "save")
    <3>1. {used + 1} \in SUBSET Files /\ "save" \in Blames
      BY <1>3 DEF Blames
    <3>2. /\ Blamed({used + 1}, "save") \in [Files -> Blames]
          /\ \A f \in Files \ {used + 1} : Blamed({used + 1}, "save")[f] = blame[f]
          /\ Blamed({used + 1}, "save")[used + 1] = "save"
      BY <3>1, BlamedFacts
    <3>. QED
      BY <1>4, <2>1, <3>2
  <2>2. CASE blame' = blame
    BY <2>2 DEF FilesInv, FilesTypeOK
  <2>. QED
    BY <1>7, <2>1, <2>2
<1>9. /\ disk' \in [Files -> {"none", "part", "whole"}] /\ size' \in [Files -> Nat]
      /\ \A f \in Files \ Fresh : disk'[f] = disk[f] /\ size'[f] = size[f]
      /\ r.op # "none" => disk'[used + 1] = "whole"
  <2>1. disk \in [Files -> {"none", "part", "whole"}] /\ size \in [Files -> Nat]
    BY DEF FilesInv, FilesTypeOK
  <2>2. /\ size' = size \/ \E k \in Nat : size' = [size EXCEPT ![used + 1] = k]
        /\ \/ disk' = [disk EXCEPT ![used + 1] = "whole"]
           \/ disk' = [disk EXCEPT ![used + 1] = "part"] /\ r.op = "none"
    BY <1>7
  <2>3. size' \in [Files -> Nat] /\ \A f \in Files \ Fresh : size'[f] = size[f]
    BY SMTT(30), <1>3, <1>4, <2>1, <2>2
  <2>. QED
    BY <1>3, <1>4, <2>1, <2>2, <2>3
<1>10. /\ upload' \in [UploadThreads -> Uploads] /\ upload'[w] = r
       /\ \A v \in UploadThreads \ {w} : upload'[v] = upload[v]
  BY <1>7 DEF FilesInv, FilesTypeOK
<1>11. FilesTypeOK'
  <2>1. used' \in 0 .. MaxFiles /\ rows' \subseteq 1 .. used'
    BY <1>1, <1>3 DEF FilesInv, FilesTypeOK
  <2>2. resource' \in [path : 0 .. MaxFiles, size : Nat, deleted : BOOLEAN, made : Nat, stale : BOOLEAN]
    BY <1>1 DEF FilesInv, FilesTypeOK
  <2>. QED
    BY <1>8, <1>9, <1>10, <2>1, <2>2 DEF FilesTypeOK
<1>12. Own(r) \subseteq {used + 1} /\ Replaced(r) \subseteq Replaced(upload[w]) /\ (r.op = "none" => Own(r) = {})
  BY <1>7
<1>13. StepOf(w)
  BY <1>1, <1>4, <1>8, <1>9, <1>10, <1>11, <1>12 DEF StepOf
<1>14. \A f \in Replaced(r) : f \in 1 .. used /\ f \notin rows /\ disk[f] # "part"
  BY <1>6, <1>12 DEF UploadOk
<1>15. UploadOk(upload[w])'
  <2>1. Own(r) \cup Replaced(r) \subseteq 1 .. used'
    BY <1>1, <1>3, <1>12, <1>14
  <2>2. \A f \in Own(r) : disk'[f] = "whole" /\ f # resource.path /\ f \notin rows
    BY <1>5, <1>9, <1>12
  <2>3. \A f \in Replaced(r) : disk'[f] = disk[f]
    BY <1>4, <1>9, <1>14
  <2>4. r.op \in {"none", "commit", "replace"} /\ (r.op = "replace" => r.old # 0) /\ (r.op = "commit" => Replaced(r) = {})
    BY <1>6, <1>7
  <2>5. r.op # "none" => r.oldSize = upload[w].oldSize /\ r.seen = upload[w].seen
    BY <1>7
  <2>6. upload[w].seen <= resource.made /\ (upload[w].seen = resource.made => upload[w].oldSize = resource.size)
    BY <1>1, <1>6 DEF UploadOk
  <2>. QED
    BY <1>1, <1>10, <1>14, <2>1, <2>2, <2>3, <2>4, <2>5, <2>6 DEF UploadOk
<1>16. resource.path # 0 => disk'[resource.path] = disk[resource.path] /\ blame'[resource.path] = blame[resource.path]
  BY <1>4, <1>8, <1>9, UsedNat
<1>17. ResourceOk' /\ ResourceRowOk'
  <2>1. \A f \in 1 .. used : size'[f] = size[f]
    BY <1>4, <1>9
  <2>. QED
    BY <1>1, <1>13, <1>16, <2>1, ResourceStays
<1>18. NoOrphanFile'
  <2>1. used + 1 \in Own(r) \/ blame'[used + 1] # "none"
    <3>1. CASE r.op = "none"
      <4>1. blame' = Blamed({used + 1}, "save")
        BY <1>7, <3>1
      <4>. QED
        BY <1>3, <4>1 DEF Blamed
    <3>2. CASE r.op # "none"
      BY <1>7, <3>2
    <3>. QED
      BY <3>1, <3>2
  <2>2. \A f \in Files : f = resource.path => f \in {resource'.path}
    BY <1>1
  <2>. QED
    BY <1>4, <1>6, <1>10, <1>13, <2>1, <2>2, OrphanStep
<1>19. RowsOk'
  BY <1>6, <1>13, RowsStep
<1>20. \A f \in Own(upload'[w]) : f \notin Replaced(upload'[w])
  BY <1>3, <1>10, <1>12, <1>14
<1>. QED
  BY <1>13, <1>15, <1>17, <1>18, <1>19, <1>20, FileStep

\* The old file goes, or stays and is blamed on the removal.
LEMMA RemoveOldStep == ASSUME FilesInv, NEW w \in UploadThreads, RemoveOld(w) PROVE FilesInv'
<1>1. /\ upload[w].op = "replace" /\ UNCHANGED <<size, used, rows, resource>>
      /\ \/ disk' = [disk EXCEPT ![upload[w].old] = "none"] /\ UNCHANGED blame
         \/ disk[upload[w].old] # "none" /\ blame' = Blamed({upload[w].old}, "remove") /\ UNCHANGED disk
      /\ upload' = [upload EXCEPT ![w] = [upload[w] EXCEPT !.op = "commit"]]
  BY DEF RemoveOld
<1>2. /\ UploadOk(upload[w]) /\ upload[w] \in NewFileRecord
      /\ Own(upload[w]) = {upload[w].file} /\ Replaced(upload[w]) = {upload[w].old} \ {0}
  BY <1>1, StoreFacts
<1>3. PICK r \in Uploads :
        /\ upload' = [upload EXCEPT ![w] = r] /\ r.op = "commit" /\ r.old = upload[w].old
        /\ r.oldSize = upload[w].oldSize /\ r.seen = upload[w].seen /\ r.file = upload[w].file
        /\ Own(r) = Own(upload[w]) /\ Replaced(r) = Replaced(upload[w])
  <2>. DEFINE r == [upload[w] EXCEPT !.op = "commit"]
  <2>1. /\ r \in NewFileRecord /\ r.op = "commit" /\ r.old = upload[w].old
        /\ r.oldSize = upload[w].oldSize /\ r.seen = upload[w].seen /\ r.file = upload[w].file
    BY <1>2 DEF NewFileRecord
  <2>. HIDE DEF r
  <2>2. upload' = [upload EXCEPT ![w] = r]
    BY <1>1 DEF r
  <2>. QED
    BY <1>2, <2>1, <2>2 DEF Uploads, Own, Replaced
<1>4. PICK old \in 1 .. used : old = upload[w].old /\ Replaced(upload[w]) = {old} /\ old # upload[w].file
  <2>1. Own(upload[w]) \cap Replaced(upload[w]) = {}
    BY DEF FilesInv, Apart
  <2>2. upload[w].old # 0 /\ upload[w].old \in Replaced(upload[w])
    BY <1>1, <1>2 DEF UploadOk
  <2>3. upload[w].old \in 1 .. used
    BY <2>2 DEF FilesInv, UploadOk
  <2>. QED
    BY <1>2, <2>1, <2>2, <2>3
<1>5. old \in Files /\ disk \in [Files -> {"none", "part", "whole"}] /\ blame \in [Files -> Blames] /\ rows \subseteq 1 .. used
  BY <1>1, OldFiles DEF FilesInv, FilesTypeOK
<1>6. /\ disk' \in [Files -> {"none", "part", "whole"}] /\ blame' \in [Files -> Blames]
      /\ \A f \in Files \ {old} : disk'[f] = disk[f] /\ blame'[f] = blame[f]
      /\ \/ disk'[old] = "none" /\ blame'[old] = blame[old]
         \/ disk'[old] = disk[old] /\ disk[old] # "none" /\ blame'[old] = "remove"
  <2>1. CASE disk' = [disk EXCEPT ![upload[w].old] = "none"] /\ UNCHANGED blame
    BY <1>4, <1>5, <2>1
  <2>2. CASE disk[upload[w].old] # "none" /\ blame' = Blamed({upload[w].old}, "remove") /\ UNCHANGED disk
    <3>1. {old} \in SUBSET Files /\ "remove" \in Blames
      BY <1>5 DEF Blames
    <3>2. /\ Blamed({old}, "remove") \in [Files -> Blames]
          /\ \A f \in Files \ {old} : Blamed({old}, "remove")[f] = blame[f]
          /\ Blamed({old}, "remove")[old] = "remove"
      BY <3>1, BlamedFacts
    <3>. QED
      BY <1>4, <1>5, <2>2, <3>2
  <2>. QED
    BY <1>1, <2>1, <2>2
<1>7. /\ FilesTypeOK' /\ upload'[w] = r /\ Fresh = {}
      /\ \A v \in UploadThreads \ {w} : upload'[v] = upload[v]
  BY <1>1, <1>3, <1>5, <1>6, NoFileSaved
<1>8. StepOf(w)
  BY <1>1, <1>3, <1>4, <1>6, <1>7 DEF StepOf
<1>9. UploadOk(upload[w])'
  <2>1. \A f \in Own(r) : f \in Files /\ f # old
    BY <1>1, <1>2, <1>3, <1>4, OldFiles DEF UploadOk
  <2>2. \A f \in Own(r) : disk'[f] = "whole" /\ f # resource.path /\ f \notin rows
    BY <1>1, <1>3, <1>6, <2>1, <1>2 DEF UploadOk
  <2>3. disk'[old] = "none" \/ blame'[old] # "none"
    BY <1>6
  <2>4. disk'[old] # "part" /\ old \notin rows
    BY <1>2, <1>4, <1>6 DEF UploadOk
  <2>. QED
    BY <1>1, <1>2, <1>3, <1>4, <1>7, <2>2, <2>3, <2>4 DEF UploadOk
<1>10. ResourceOk' /\ ResourceRowOk'
  <2>1. CASE resource.path # old
    <3>1. resource.path # 0 => disk'[resource.path] = disk[resource.path] /\ blame'[resource.path] = blame[resource.path]
      BY <1>1, <1>6, <2>1, UsedNat, OldFiles
    <3>. QED
      BY <1>1, <1>8, <3>1, ResourceStays
  <2>2. CASE resource.path = old
    <3>1. upload'[w].op = "commit" /\ upload'[w].old = resource'.path /\ w \in UploadThreads
      BY <1>1, <1>3, <1>4, <1>7, <2>2
    <3>2. disk'[resource'.path] # "part"
      BY <1>1, <1>2, <1>4, <1>6, <2>2 DEF UploadOk
    <3>3. resource'.size = size'[resource'.path] \/ resource'.stale
      <4>1. resource.path # 0
        BY <1>4, <2>2, UsedNat
      <4>. QED
        BY <1>1, <4>1 DEF FilesInv, RowHasItsFile
    <3>4. resource'.path \in 0 .. used' /\ resource'.path \notin rows'
      BY <1>1 DEF FilesInv, ResourceOk
    <3>. QED
      BY <3>1, <3>2, <3>3, <3>4 DEF ResourceOk, ResourceRowOk
  <2>. QED
    BY <2>1, <2>2
<1>11. NoOrphanFile'
  <2>1. \A f \in Files : f = resource.path => f \in {resource'.path}
    BY <1>1
  <2>. QED
    BY <1>3, <1>7, <1>8, <2>1, OrphanStep
<1>12. RowsOk'
  <2>1. \A f \in Own(upload[w]) \cap rows' : FALSE
    BY <1>1, <1>2 DEF UploadOk
  <2>. QED
    BY <1>8, <2>1, RowsStep
<1>13. \A f \in Own(upload'[w]) : f \notin Replaced(upload'[w])
  BY <1>2, <1>3, <1>4, <1>7
<1>. QED
  BY <1>8, <1>9, <1>10, <1>11, <1>12, <1>13, FileStep

\* The commit: the new file is the resource's.
LEMMA CommitResourceStep == ASSUME FilesInv, NEW w \in UploadThreads, CommitResource(w) PROVE FilesInv'
<1>1. /\ upload[w].op = "commit" /\ (upload[w].old = 0 => resource.path = 0)
      /\ blame' = IF resource.path \in Files /\ resource.path # upload[w].old
                    THEN Blamed({resource.path}, "overlap") ELSE blame
      /\ resource' = [resource EXCEPT !.path = upload[w].file, !.size = StoreSize(upload[w]),
                                      !.made = resource.made + 1, !.stale = upload[w].seen # resource.made]
      /\ upload' = [upload EXCEPT ![w] = Waiting]
      /\ UNCHANGED <<disk, size, used, rows>>
  BY DEF CommitResource
<1>2. /\ UploadOk(upload[w]) /\ upload[w] \in NewFileRecord /\ upload[w].seen \in Nat
      /\ Own(upload[w]) = {upload[w].file} /\ Replaced(upload[w]) = {upload[w].old} \ {0}
  BY <1>1, StoreFacts
<1>3. PICK new \in 1 .. used : new = upload[w].file /\ disk[new] = "whole" /\ new # resource.path /\ new \notin rows
  BY <1>1, <1>2 DEF UploadOk
<1>4. /\ FilesTypeOK /\ new \in Files /\ resource.made \in Nat /\ resource.size \in Nat /\ size[new] \in Nat
      /\ new \in 0 .. MaxFiles
  BY <1>1, OldFiles DEF FilesInv, FilesTypeOK, Files
<1>5. StoreSize(upload[w]) = IF size[new] = upload[w].oldSize THEN resource.size ELSE size[new]
  BY <1>3 DEF StoreSize
<1>6. /\ resource'.path = new /\ resource'.size = StoreSize(upload[w]) /\ resource'.made = resource.made + 1
      /\ resource'.stale <=> upload[w].seen # resource.made
      /\ resource' \in [path : 0 .. MaxFiles, size : Nat, deleted : BOOLEAN, made : Nat, stale : BOOLEAN]
  <2>1. resource \in [path : 0 .. MaxFiles, size : Nat, deleted : BOOLEAN, made : Nat, stale : BOOLEAN]
    BY <1>4 DEF FilesTypeOK
  <2>2. StoreSize(upload[w]) \in Nat
    BY <1>4, <1>5
  <2>3. PICK s \in BOOLEAN : s = (upload[w].seen # resource.made)
    OBVIOUS
  <2>4. resource' = [resource EXCEPT !.path = new, !.size = StoreSize(upload[w]), !.made = resource.made + 1, !.stale = s]
    BY <1>1, <1>3, <2>3
  <2>5. /\ resource'.path = new /\ resource'.size = StoreSize(upload[w]) /\ resource'.made = resource.made + 1
        /\ resource'.stale = s
    BY <2>1, <2>4
  <2>6. resource' \in [path : 0 .. MaxFiles, size : Nat, deleted : BOOLEAN, made : Nat, stale : BOOLEAN]
    <3>1. new \in 0 .. MaxFiles /\ resource.made + 1 \in Nat
      BY <1>4
    <3>. QED
      BY <2>1, <2>2, <2>4, <3>1
  <2>. QED
    BY <2>3, <2>5, <2>6
<1>7. /\ upload'[w] = Waiting /\ upload' \in [UploadThreads -> Uploads]
      /\ \A v \in UploadThreads \ {w} : upload'[v] = upload[v]
      /\ Own(Waiting) = {} /\ Replaced(Waiting) = {} /\ Waiting.op = "none"
  BY <1>1, <1>4 DEF FilesTypeOK, Uploads, Waiting, Own, Replaced
<1>8. /\ blame' \in [Files -> Blames] /\ \A f \in Files \ {resource.path} : blame'[f] = blame[f]
      /\ resource.path \in Files /\ resource.path # upload[w].old => blame'[resource.path] = "overlap"
      /\ ~(resource.path \in Files /\ resource.path # upload[w].old) => blame' = blame
  <2>1. CASE resource.path \in Files /\ resource.path # upload[w].old
    <3>1. {resource.path} \in SUBSET Files /\ "overlap" \in Blames
      BY <2>1 DEF Blames
    <3>2. /\ Blamed({resource.path}, "overlap") \in [Files -> Blames]
          /\ \A f \in Files \ {resource.path} : Blamed({resource.path}, "overlap")[f] = blame[f]
          /\ Blamed({resource.path}, "overlap")[resource.path] = "overlap"
      BY <3>1, BlamedFacts
    <3>. QED
      BY <1>1, <2>1, <3>2
  <2>2. CASE ~(resource.path \in Files /\ resource.path # upload[w].old)
    BY <1>1, <1>4, <2>2 DEF FilesTypeOK
  <2>. QED
    BY <2>1, <2>2
<1>9. FilesTypeOK' /\ Fresh = {}
  BY <1>1, <1>4, <1>6, <1>7, <1>8 DEF FilesTypeOK, Fresh
<1>10. StepOf(w)
  <2>1. \A f \in Files : blame'[f] = blame[f] \/ (blame'[f] # "none" /\ f = resource.path)
    BY <1>8
  <2>2. resource'.path \in Own(upload[w]) /\ resource'.made > resource.made
    BY <1>2, <1>3, <1>4, <1>6
  <2>. QED
    BY <1>1, <1>7, <1>9, <2>1, <2>2 DEF StepOf
<1>11. UploadOk(upload[w])'
  BY <1>7 DEF UploadOk
<1>12. ResourceOk' /\ ResourceRowOk'
  <2>1. size[new] = resource'.size \/ resource'.stale
    BY <1>1, <1>2, <1>5, <1>6 DEF UploadOk
  <2>. QED
    <3>1. resource'.path \in 0 .. used' /\ resource'.path \notin rows' /\ disk'[resource'.path] = "whole"
      BY <1>1, <1>3, <1>6, UsedNat
    <3>2. resource'.size = size'[resource'.path] \/ resource'.stale
      BY <1>1, <1>6, <2>1
    <3>. QED
      BY <3>1, <3>2 DEF ResourceOk, ResourceRowOk
<1>13. NoOrphanFile'
  <2>1. ASSUME NEW f \in Files, f = resource.path, disk'[f] # "none" PROVE blame'[f] # "none"
    <3>1. CASE f # upload[w].old
      BY <1>8, <2>1, <3>1
    <3>2. CASE f = upload[w].old
      <4>1. f \in Replaced(upload[w])
        BY <1>2, <2>1, <3>2, FilesAssumption DEF Files
      <4>2. blame[f] # "none"
        BY <1>1, <1>2, <2>1, <4>1 DEF UploadOk
      <4>. QED
        BY <1>8, <2>1, <3>2, <4>2
    <3>. QED
      BY <3>1, <3>2
  <2>. QED
    BY <1>2, <1>3, <1>6, <1>9, <1>10, <2>1, OrphanStep
<1>14. RowsOk'
  BY <1>1, <1>2, <1>3, <1>10, RowsStep
<1>. QED
  BY <1>7, <1>10, <1>11, <1>12, <1>13, <1>14, FileStep

\* A request that ends without its commit: it is blamed for what it leaves.
LEMMA GiveUpStep ==
  ASSUME FilesInv, NEW w \in UploadThreads, UNCHANGED <<disk, size, used, rows, resource>>,
         upload' = [upload EXCEPT ![w] = Waiting],
         NEW why \in {"no cleaning", "killed"}, NEW fs, blame' = Blamed(fs, why),
         Own(upload[w]) \subseteq fs, fs \cap Files \subseteq Own(upload[w]) \cup Replaced(upload[w]),
         upload[w].op = "commit" /\ upload[w].old # 0 => upload[w].old \in fs,
         \A f \in Own(upload[w]) : disk[f] = "whole"
  PROVE  FilesInv'
<1>1. /\ Waiting \in Uploads /\ Own(Waiting) = {} /\ Replaced(Waiting) = {} /\ Waiting.op = "none"
  BY DEF Uploads, Waiting, Own, Replaced
<1>2. /\ blame' \in [Files -> Blames] /\ \A f \in Files : blame'[f] = IF f \in fs THEN why ELSE blame[f]
      /\ disk' \in [Files -> {"none", "part", "whole"}] /\ rows' \subseteq 1 .. used
  BY DEF FilesInv, FilesTypeOK, Blamed, Blames
<1>3. /\ FilesTypeOK' /\ upload'[w] = Waiting /\ Fresh = {}
      /\ \A v \in UploadThreads \ {w} : upload'[v] = upload[v]
  BY <1>1, <1>2, NoFileSaved
<1>4. StepOf(w)
  <2>1. \A f \in Files : blame'[f] = blame[f] \/ (blame'[f] # "none" /\ f \in Own(upload[w]) \cup Replaced(upload[w]))
    BY <1>2
  <2>. QED
    BY <1>1, <1>3, <2>1 DEF StepOf
<1>5. UploadOk(upload[w])'
  BY <1>1, <1>3 DEF UploadOk
<1>6. ResourceOk' /\ ResourceRowOk'
  <2>1. resource.path # 0 => resource.path \in Files
    BY UsedNat, OldFiles
  <2>2. resource.path # 0 => blame'[resource.path] = blame[resource.path] \/ blame'[resource.path] \in {"no cleaning", "killed"}
    BY <1>2, <2>1
  <2>3. resource.path # 0 /\ upload[w].op = "commit" /\ upload[w].old = resource.path =>
          blame'[resource.path] \in {"no cleaning", "killed"}
    BY <1>2, <2>1
  <2>. QED
    BY <1>4, <2>2, <2>3, ResourceStays
<1>7. NoOrphanFile'
  <2>1. \A f \in Files : f \in Own(upload[w]) => blame'[f] # "none"
    BY <1>2
  <2>2. \A f \in Files : f = resource.path => f \in {resource'.path}
    OBVIOUS
  <2>. QED
    BY <1>3, <1>4, <2>1, <2>2, OrphanStep
<1>8. RowsOk'
  <2>1. \A f \in Own(upload[w]) \cap rows' : disk'[f] = "whole"
    OBVIOUS
  <2>. QED
    BY <1>4, <2>1, RowsStep
<1>. QED
  BY <1>1, <1>3, <1>4, <1>5, <1>6, <1>7, <1>8, FileStep

LEMMA FailResourceStep == ASSUME FilesInv, NEW w \in UploadThreads, FailResource(w) PROVE FilesInv'
<1>1. /\ upload[w].op = "commit" /\ UNCHANGED <<disk, size, used, rows, resource>>
      /\ blame' = Blamed({upload[w].file, upload[w].old}, "no cleaning")
      /\ upload' = [upload EXCEPT ![w] = Waiting]
  BY DEF FailResource
<1>2. /\ UploadOk(upload[w])
      /\ Own(upload[w]) = {upload[w].file} /\ Replaced(upload[w]) = {upload[w].old} \ {0}
  BY <1>1, StoreFacts
<1>3. 0 \notin Files
  BY FilesAssumption DEF Files
<1>4. \A f \in Own(upload[w]) : disk[f] = "whole"
  BY <1>2 DEF UploadOk
<1>5. {upload[w].file, upload[w].old} \cap Files \subseteq Own(upload[w]) \cup Replaced(upload[w])
  BY <1>2, <1>3
<1>. DEFINE fs == {upload[w].file, upload[w].old}
<1>6. /\ blame' = Blamed(fs, "no cleaning") /\ Own(upload[w]) \subseteq fs
      /\ fs \cap Files \subseteq Own(upload[w]) \cup Replaced(upload[w]) /\ upload[w].old \in fs
  BY <1>1, <1>2, <1>5
<1>. HIDE DEF fs
<1>. QED
  BY <1>1, <1>4, <1>6, GiveUpStep

LEMMA KilledStep == ASSUME FilesInv, NEW w \in UploadThreads, Killed(w) PROVE FilesInv'
<1>. DEFINE fs == (IF upload[w].op \in {"save", "clean"} THEN upload[w].saved ELSE {})
                    \cup (IF upload[w].op \in {"replace", "commit"} THEN {upload[w].file} ELSE {})
                    \cup (IF upload[w].op = "commit" THEN {upload[w].old} ELSE {})
<1>1. /\ upload[w] # Waiting /\ UNCHANGED <<disk, size, used, rows, resource>>
      /\ blame' = Blamed(fs, "killed") /\ upload' = [upload EXCEPT ![w] = Waiting]
  BY DEF Killed
<1>2. UploadOk(upload[w])
  BY DEF FilesInv
<1>3. Own(upload[w]) \subseteq fs /\ fs \subseteq Own(upload[w]) \cup Replaced(upload[w]) \cup {0}
  BY DEF Own, Replaced
<1>4. upload[w].op = "commit" => upload[w].old \in fs
  OBVIOUS
<1>5. \A f \in Own(upload[w]) : disk[f] = "whole"
  BY <1>2 DEF UploadOk
<1>. HIDE DEF fs
<1>6. 0 \notin Files
  BY FilesAssumption DEF Files
<1>7. fs \cap Files \subseteq Own(upload[w]) \cup Replaced(upload[w])
  BY <1>3, <1>6
<1>. QED
  BY <1>1, <1>3, <1>4, <1>5, <1>7, GiveUpStep

LEMMA DeleteResourceStep == ASSUME FilesInv, NEW w \in UploadThreads, DeleteResource(w) PROVE FilesInv'
<1>1. UNCHANGED <<disk, size, used, rows, blame, upload>> /\ resource' = [resource EXCEPT !.deleted = TRUE]
  BY DEF DeleteResource
<1>2. /\ resource'.path = resource.path /\ resource'.size = resource.size /\ resource'.made = resource.made
      /\ resource'.stale = resource.stale
      /\ resource' \in [path : 0 .. MaxFiles, size : Nat, deleted : BOOLEAN, made : Nat, stale : BOOLEAN]
  BY <1>1 DEF FilesInv, FilesTypeOK
<1>3. FilesTypeOK'
  BY <1>1, <1>2 DEF FilesInv, FilesTypeOK
<1>4. \A v \in UploadThreads : UploadOk(upload[v])'
  BY <1>1, <1>2 DEF FilesInv, UploadOk, Own, Replaced
<1>5. Apart' /\ ResourceOk'
  BY <1>1, <1>2 DEF FilesInv, Apart, ResourceOk, Own, Replaced
<1>6. RowHasItsFile'
  BY <1>1, <1>2 DEF FilesInv, RowHasItsFile
<1>7. NoOrphanFile'
  BY <1>1, <1>2 DEF FilesInv, NoOrphanFile, Servable, InUse
<1>. QED
  BY <1>3, <1>4, <1>5, <1>6, <1>7 DEF FilesInv

LEMMA FilesInvStays == ASSUME FilesInv, [FilesNext]_fileVars PROVE FilesInv'
<1>1. ASSUME UNCHANGED fileVars PROVE FilesInv'
  <2>1. UNCHANGED <<disk, size, used, rows, resource, blame, upload>>
    BY <1>1 DEF fileVars
  <2>. QED
    <3>1. FilesTypeOK' /\ ResourceOk' /\ RowHasItsFile'
      BY <2>1 DEF FilesInv, FilesTypeOK, ResourceOk, RowHasItsFile
    <3>2. NoOrphanFile'
      BY <2>1 DEF FilesInv, NoOrphanFile, Servable, InUse
    <3>3. Apart'
      BY <2>1 DEF FilesInv, Apart, Own, Replaced
    <3>4. \A v \in UploadThreads : UploadOk(upload[v])'
      BY <2>1 DEF FilesInv, UploadOk, Own, Replaced
    <3>. QED
      BY <3>1, <3>2, <3>3, <3>4 DEF FilesInv
<1>. QED
  BY <1>1, StartUploadStep, SaveAttachmentStep, FailUploadStep, CommitUploadStep, CleanUpStep, StartResourceStep,
     SaveResourceStep, RemoveOldStep, CommitResourceStep, FailResourceStep, DeleteResourceStep, KilledStep
  DEF FilesNext

\* For any threads and number of files, whatever fails or is killed: a committed row
\* has its whole file unless the answer to a commit was lost, or an update of a
\* resource broke off between removing the old file and its commit.
THEOREM RowsHaveFiles == FilesSpec => []RowHasItsFile
<1>1. FilesInv => RowHasItsFile
  BY DEF FilesInv
<1>. QED
  BY FilesInitInv, FilesInvStays, <1>1, PTL DEF FilesSpec

\* A file that nobody is uploading has a row, or a known reason not to.
THEOREM NoOrphans == FilesSpec => []NoOrphanFile
<1>1. FilesInv => NoOrphanFile
  BY DEF FilesInv
<1>. QED
  BY FilesInitInv, FilesInvStays, <1>1, PTL DEF FilesSpec

-----------------------------------------------------------------------------
(* The sweep of event media *)

Left == sweep.scanned \cap present

MediaTypeOK ==
  /\ present \subseteq Media
  /\ age \in [Media -> 0 .. 2]
  /\ named \in Seq([file : Media, severity : Severities])
  /\ sweep \in [step : {"idle", "scan", "age", "space", "done"},
                refs : [Media -> Severities \cup {"NONE"}], scanned : SUBSET Media, list : SUBSET Media,
                total : Nat, known : Nat]

\* What the events said when they were read: a file of a HIGH event is taken for
\* protected unless an older event names it too, with another severity.
ReadRight ==
  /\ sweep.known <= Len(named)
  /\ \A f \in Media, i \in 1 .. sweep.known :
       named[i] = [file |-> f, severity |-> "HIGH"] =>
         \/ sweep.refs[f] = "HIGH"
         \/ \E j \in 1 .. i - 1 : named[j].file = f /\ named[j].severity # "HIGH"

\* How far the sweep is: what it still looks at, what it has deleted and why, and that
\* the size it counts with is the size of what is left.
Progress ==
  /\ sweep.step = "idle" => sweep.known = 0
  /\ sweep.step \in {"idle", "scan"} => sweep.scanned = {}
  /\ \A f \in Deleted : ~Protected(f)
  /\ sweep.step = "age" =>
       /\ sweep.list \subseteq Left
       /\ \A f \in Deleted : Expired(f)
  /\ sweep.step \in {"space", "done"} =>
       /\ sweep.list = Candidates(Left)
       /\ sweep.total = Cardinality(Left)
  /\ sweep.step = "done" => sweep.total <= MaxMedia \/ sweep.list = {}

\* An old file that may go is not kept for a younger one.
OldestFirst ==
  \A f \in Deleted, g \in Left : ~Expired(f) => age[g] <= age[f] \/ Protected(g)

MediaInv == MediaTypeOK /\ ReadRight /\ Progress /\ OldestFirst

LEMMA MediaInitInv == ASSUME MediaInit PROVE MediaInv
<1>. USE DEF MediaInit
<1>1. MediaTypeOK
  BY DEF MediaTypeOK
<1>2. ReadRight
  <2>1. sweep.known = 0 /\ Len(named) = 0
    OBVIOUS
  <2>. QED
    BY <2>1 DEF ReadRight
<1>3. Deleted = {}
  BY DEF Deleted
<1>4. Progress /\ OldestFirst
  BY <1>3 DEF Progress, OldestFirst
<1>. QED
  BY <1>1, <1>2, <1>4 DEF MediaInv

LEMMA MediaInvSafe == ASSUME MediaInv PROVE ProtectedMediaKept
<1>. USE MediaAssumption
<1>1. \A f \in Deleted, i \in 1 .. Len(named) :
        named[i] = [file |-> f, severity |-> "HIGH"] =>
          \/ i > sweep.known
          \/ \E j \in 1 .. i - 1 : named[j].file = f /\ named[j].severity # "HIGH"
  <2>1. SUFFICES ASSUME NEW f \in Deleted, NEW i \in 1 .. Len(named),
                        named[i] = [file |-> f, severity |-> "HIGH"], ~(i > sweep.known)
                 PROVE  \E j \in 1 .. i - 1 : named[j].file = f /\ named[j].severity # "HIGH"
    OBVIOUS
  <2>2. f \in Media /\ sweep.known \in Nat /\ sweep.refs[f] # "HIGH"
    BY DEF MediaInv, MediaTypeOK, Progress, Deleted, Protected
  <2>3. i \in 1 .. sweep.known
    BY <2>1, <2>2
  <2>. QED
    BY <2>1, <2>2, <2>3 DEF MediaInv, ReadRight
<1>2. \A f \in Deleted, g \in sweep.scanned \cap present : ~Expired(f) => age[g] <= age[f] \/ Protected(g)
  BY DEF MediaInv, OldestFirst, Left
<1>3. ASSUME sweep.step = "done", sweep.list = {}
      PROVE  \A f \in Left : Protected(f)
  BY <1>3 DEF MediaInv, Progress, Candidates
<1>4. sweep.step = "done" =>
        Cardinality(sweep.scanned \cap present) <= MaxMedia \/ \A f \in sweep.scanned \cap present : Protected(f)
  BY <1>3 DEF MediaInv, Progress, Left
<1>. QED
  BY <1>1, <1>2, <1>4 DEF ProtectedMediaKept

\* A nonempty set of numbers has a least one: what CHOOSE finds in Reference.
LEMMA LeastOne ==
  ASSUME NEW S \in SUBSET Nat, S # {}
  PROVE  \E i \in S : \A j \in S : i <= j
<1>1. PICK i \in S : \A j \in S : <<j, i>> \notin OpToRel(<, Nat)
  BY NatLessThanWellFounded, WFMin
<1>2. \A j \in S : ~(j < i)
  BY <1>1 DEF OpToRel
<1>. QED
  BY <1>2

\* A file is taken for what its oldest event says.
LEMMA ReferenceIsOldest ==
  ASSUME MediaTypeOK, NEW f \in Media
  PROVE  /\ Reference(f) \in Severities \cup {"NONE"}
         /\ \A i \in 1 .. Len(named) : named[i].file = f =>
              \E j \in 1 .. i : named[j].file = f /\ Reference(f) = named[j].severity
<1>. DEFINE es == {i \in 1 .. Len(named) : named[i].file = f}
<1>0. \A i \in 1 .. Len(named) : named[i].severity \in Severities
  <2>. DEFINE Event == [file : Media, severity : Severities]
  <2>1. named \in Seq(Event)
    BY DEF MediaTypeOK
  <2>. HIDE DEF Event
  <2>2. \A i \in 1 .. Len(named) : named[i] \in Event
    BY <2>1
  <2>. QED
    BY <2>2 DEF Event
<1>1. CASE es = {}
  BY <1>1 DEF Reference
<1>2. CASE es # {}
  <2>1. es \in SUBSET Nat
    OBVIOUS
  <2>2. \E i \in es : \A j \in es : i <= j
    BY <1>2, <2>1, LeastOne
  <2>3. PICK m \in es : Reference(f) = named[m].severity /\ \A j \in es : m <= j
    <3>1. Reference(f) = named[CHOOSE i \in es : \A j \in es : i <= j].severity
      BY <1>2 DEF Reference
    <3>. QED
      BY <2>2, <3>1
  <2>4. m \in 1 .. Len(named) /\ named[m].file = f
    OBVIOUS
  <2>5. ASSUME NEW i \in 1 .. Len(named), named[i].file = f
        PROVE  m \in 1 .. i
    <3>1. i \in es
      BY <2>5
    <3>. QED
      BY <2>3, <2>4, <3>1
  <2>6. Reference(f) \in Severities
    BY <1>0, <2>3, <2>4
  <2>. QED
    BY <2>3, <2>4, <2>5, <2>6
<1>. QED
  BY <1>1, <1>2

\* An event that is stored changes nothing of those before it.
LEMMA NameMediaStep == ASSUME MediaInv, NameMedia PROVE MediaInv'
<1>. USE MediaAssumption
<1>1. PICK f \in Media, s \in Severities :
        /\ f \in present \/ (age[f] = 0 /\ f \notin sweep.scanned)
        /\ present' = present \cup {f}
        /\ named' = Append(named, [file |-> f, severity |-> s])
  BY DEF NameMedia
<1>2. age' = age /\ sweep' = sweep
  BY DEF NameMedia
<1>3. Left' = Left /\ Deleted' = Deleted
  BY <1>1, <1>2 DEF Left, Deleted
<1>4. MediaTypeOK'
  BY <1>1, <1>2 DEF MediaInv, MediaTypeOK
<1>5. /\ Len(named) \in Nat /\ Len(named') = Len(named) + 1
      /\ \A i \in 1 .. Len(named) : named'[i] = named[i]
  BY <1>1 DEF MediaInv, MediaTypeOK
<1>6. sweep.known \in Nat /\ sweep.known <= Len(named)
  BY DEF MediaInv, MediaTypeOK, ReadRight
<1>7. ReadRight'
  <2>1. \A i \in 1 .. sweep.known : i \in Nat /\ named'[i] = named[i] /\ \A j \in 1 .. i - 1 : named'[j] = named[j]
    BY <1>5, <1>6
  <2>2. sweep'.known <= Len(named')
    BY <1>2, <1>5, <1>6
  <2>3. ASSUME NEW g \in Media, NEW i \in 1 .. sweep.known,
               named'[i] = [file |-> g, severity |-> "HIGH"], sweep.refs[g] # "HIGH"
        PROVE  \E j \in 1 .. i - 1 : named'[j].file = g /\ named'[j].severity # "HIGH"
    BY <2>1, <2>3 DEF MediaInv, ReadRight
  <2>. QED
    BY <1>2, <2>2, <2>3 DEF ReadRight
<1>8. \A g : (Protected(g)' <=> Protected(g)) /\ (Expired(g)' <=> Expired(g))
  BY <1>2 DEF Protected, Expired
<1>9. Candidates(Left)' = Candidates(Left)
  BY <1>2, <1>3 DEF Candidates, Protected
<1>10. Progress'
  BY <1>2, <1>3, <1>8, <1>9 DEF MediaInv, Progress
<1>11. OldestFirst'
  BY <1>2, <1>3, <1>8 DEF MediaInv, OldestFirst
<1>. QED
  BY <1>4, <1>7, <1>10, <1>11 DEF MediaInv

LEMMA ReadEventsStep == ASSUME MediaInv, ReadEvents PROVE MediaInv'
<1>1. /\ sweep.step = "idle" /\ sweep.scanned = {} /\ sweep.list \subseteq Media /\ sweep.total \in Nat
      /\ Len(named) \in Nat
  BY DEF ReadEvents, MediaInv, MediaTypeOK, Progress
<1>2. sweep' = [sweep EXCEPT !.step = "scan", !.refs = [f \in Media |-> Reference(f)], !.known = Len(named)]
      /\ present' = present /\ age' = age /\ named' = named
  BY DEF ReadEvents
<1>3. \A f \in Media : Reference(f) \in Severities \cup {"NONE"}
  BY ReferenceIsOldest DEF MediaInv
<1>4. MediaTypeOK'
  BY <1>1, <1>2, <1>3 DEF MediaInv, MediaTypeOK
<1>5. /\ sweep'.step = "scan" /\ sweep'.scanned = {} /\ sweep'.known = Len(named)
      /\ \A f \in Media : sweep'.refs[f] = Reference(f)
  BY <1>1, <1>2 DEF MediaInv, MediaTypeOK
<1>6. ReadRight'
  <2>1. ASSUME NEW f \in Media, NEW i \in 1 .. Len(named),
               named[i] = [file |-> f, severity |-> "HIGH"], Reference(f) # "HIGH"
        PROVE  \E j \in 1 .. i - 1 : named[j].file = f /\ named[j].severity # "HIGH"
    <3>1. named[i].file = f /\ named[i].severity = "HIGH"
      BY <2>1
    <3>2. PICK j \in 1 .. i : named[j].file = f /\ Reference(f) = named[j].severity
      BY <3>1, ReferenceIsOldest DEF MediaInv
    <3>3. j # i
      BY <2>1, <3>1, <3>2
    <3>. QED
      BY <2>1, <3>2, <3>3
  <2>. QED
    BY <1>1, <1>2, <1>5, <2>1 DEF ReadRight
<1>7. Deleted' = {}
  BY <1>5 DEF Deleted
<1>8. Progress' /\ OldestFirst'
  BY <1>5, <1>7 DEF Progress, OldestFirst
<1>. QED
  BY <1>4, <1>6, <1>8 DEF MediaInv

\* A step of the sweep after the events were read: the severities stay as they were read.
LEMMA SweepStays ==
  ASSUME MediaInv, UNCHANGED <<age, named>>, sweep'.refs = sweep.refs, sweep'.known = sweep.known
  PROVE  /\ ReadRight'
         /\ \A f : (Protected(f)' <=> Protected(f)) /\ (Expired(f)' <=> Expired(f))
<1>1. ReadRight'
  BY DEF MediaInv, ReadRight
<1>. QED
  BY <1>1 DEF Protected, Expired

LEMMA ScanStep == ASSUME MediaInv, Scan PROVE MediaInv'
<1>1. sweep' = [sweep EXCEPT !.step = "age", !.scanned = present, !.list = present]
      /\ present' = present /\ age' = age /\ named' = named
  BY DEF Scan
<1>2. MediaTypeOK'
  BY <1>1 DEF MediaInv, MediaTypeOK
<1>3. /\ sweep'.step = "age" /\ sweep'.scanned = present /\ sweep'.list = present
      /\ sweep'.refs = sweep.refs /\ sweep'.known = sweep.known
  BY <1>1 DEF MediaInv, MediaTypeOK
<1>4. Deleted' = {} /\ Left' = present
  BY <1>1, <1>3 DEF Deleted, Left
<1>5. ReadRight'
  BY <1>1, <1>3, SweepStays
<1>6. Progress' /\ OldestFirst'
  BY <1>3, <1>4 DEF Progress, OldestFirst
<1>. QED
  BY <1>2, <1>5, <1>6 DEF MediaInv

LEMMA SweepByAgeStep == ASSUME MediaInv, SweepByAge PROVE MediaInv'
<1>1. PICK f \in sweep.list :
        /\ present' = IF ~Protected(f) /\ Expired(f) THEN present \ {f} ELSE present
        /\ sweep' = [sweep EXCEPT !.list = sweep.list \ {f}]
  BY DEF SweepByAge
<1>2. sweep.step = "age" /\ age' = age /\ named' = named
  BY DEF SweepByAge
<1>3. MediaTypeOK'
  BY <1>1, <1>2 DEF MediaInv, MediaTypeOK
<1>4. /\ sweep'.step = "age" /\ sweep'.scanned = sweep.scanned /\ sweep'.list = sweep.list \ {f}
      /\ sweep'.refs = sweep.refs /\ sweep'.known = sweep.known
  BY <1>1, <1>2 DEF MediaInv, MediaTypeOK
<1>5. ReadRight' /\ \A g : (Protected(g)' <=> Protected(g)) /\ (Expired(g)' <=> Expired(g))
  BY <1>2, <1>4, SweepStays
<1>6. sweep.list \subseteq Left /\ \A g \in Deleted : Expired(g) /\ ~Protected(g)
  BY <1>2 DEF MediaInv, Progress
<1>7. \A g \in Deleted' : Expired(g) /\ ~Protected(g)
  BY <1>1, <1>4, <1>6 DEF Deleted
<1>8. sweep'.list \subseteq Left'
  BY <1>1, <1>4, <1>6 DEF Left
<1>9. Progress' /\ OldestFirst'
  BY <1>4, <1>5, <1>7, <1>8 DEF Progress, OldestFirst
<1>. QED
  BY <1>3, <1>5, <1>9 DEF MediaInv

LEMMA LeftFinite == ASSUME MediaTypeOK PROVE IsFiniteSet(Left) /\ Cardinality(Left) \in Nat
<1>1. Left \in SUBSET Media
  BY DEF MediaTypeOK, Left
<1>2. IsFiniteSet(Left)
  BY <1>1, MediaAssumption, FS_Subset
<1>. QED
  BY <1>2, FS_CardinalityType

LEMMA CountMediaStep == ASSUME MediaInv, CountMedia PROVE MediaInv'
<1>1. /\ sweep.step = "age" /\ sweep.list = {} /\ present' = present /\ age' = age /\ named' = named
      /\ sweep' = [sweep EXCEPT !.step = "space", !.total = Cardinality(Left), !.list = Candidates(Left)]
  BY DEF CountMedia, Left
<1>2. Cardinality(Left) \in Nat /\ Candidates(Left) \subseteq Media
  BY LeftFinite DEF MediaInv, MediaTypeOK, Left, Candidates
<1>3. MediaTypeOK'
  BY <1>1, <1>2 DEF MediaInv, MediaTypeOK
<1>4. /\ sweep'.step = "space" /\ sweep'.scanned = sweep.scanned /\ sweep'.list = Candidates(Left)
      /\ sweep'.total = Cardinality(Left) /\ sweep'.refs = sweep.refs /\ sweep'.known = sweep.known
  BY <1>1 DEF MediaInv, MediaTypeOK
<1>5. ReadRight' /\ \A g : (Protected(g)' <=> Protected(g)) /\ (Expired(g)' <=> Expired(g))
  BY <1>1, <1>4, SweepStays
<1>6. Left' = Left /\ Deleted' = Deleted /\ Candidates(Left)' = Candidates(Left)
  BY <1>1, <1>4 DEF Left, Deleted, Candidates, Protected
<1>7. Progress'
  BY <1>1, <1>4, <1>5, <1>6 DEF MediaInv, Progress
<1>8. OldestFirst'
  BY <1>1, <1>5, <1>6 DEF MediaInv, OldestFirst
<1>. QED
  BY <1>3, <1>5, <1>7, <1>8 DEF MediaInv

LEMMA SweepForSpaceStep == ASSUME MediaInv, SweepForSpace PROVE MediaInv'
<1>. USE MediaAssumption
<1>1. PICK f \in sweep.list :
        /\ \A g \in sweep.list : age[g] <= age[f]
        /\ present' = present \ {f}
        /\ sweep' = [sweep EXCEPT !.list = sweep.list \ {f}, !.total = sweep.total - 1]
  BY DEF SweepForSpace
<1>2. sweep.step = "space" /\ age' = age /\ named' = named /\ sweep.total > MaxMedia /\ sweep.total \in Nat
  BY DEF SweepForSpace, MediaInv, MediaTypeOK
<1>3. sweep.total - 1 \in Nat
  BY <1>2
<1>4. MediaTypeOK'
  BY <1>1, <1>2, <1>3 DEF MediaInv, MediaTypeOK
<1>5. /\ sweep'.step = "space" /\ sweep'.scanned = sweep.scanned /\ sweep'.list = sweep.list \ {f}
      /\ sweep'.total = sweep.total - 1 /\ sweep'.refs = sweep.refs /\ sweep'.known = sweep.known
  BY <1>1, <1>2 DEF MediaInv, MediaTypeOK
<1>6. ReadRight' /\ \A g : (Protected(g)' <=> Protected(g)) /\ (Expired(g)' <=> Expired(g))
  BY <1>2, <1>5, SweepStays
<1>7. sweep.list = Candidates(Left) /\ sweep.total = Cardinality(Left) /\ \A g \in Deleted : ~Protected(g)
  BY <1>2 DEF MediaInv, Progress
<1>8. f \in Left /\ ~Protected(f)
  BY <1>7 DEF Candidates
<1>9. Left' = Left \ {f} /\ Deleted' = Deleted \cup {f}
  BY <1>1, <1>5, <1>8 DEF Left, Deleted
<1>10. Candidates(Left)' = Candidates(Left) \ {f}
  BY <1>6, <1>9 DEF Candidates
<1>11. Cardinality(Left)' = sweep.total - 1
  <2>1. IsFiniteSet(Left)
    BY LeftFinite DEF MediaInv
  <2>2. Cardinality(Left \ {f}) = Cardinality(Left) - 1
    BY <1>8, <2>1, FS_RemoveElement
  <2>. QED
    BY <1>7, <1>9, <2>2
<1>12. Progress'
  BY <1>5, <1>6, <1>7, <1>8, <1>9, <1>10, <1>11 DEF Progress
<1>13. OldestFirst'
  <2>1. \A g \in Left \ {f} : age[g] <= age[f] \/ Protected(g)
    BY <1>1, <1>7 DEF Candidates
  <2>2. \A h \in Deleted, g \in Left : ~Expired(h) => age[g] <= age[h] \/ Protected(g)
    BY DEF MediaInv, OldestFirst
  <2>. QED
    BY <1>2, <1>6, <1>9, <2>1, <2>2 DEF OldestFirst
<1>. QED
  BY <1>4, <1>6, <1>12, <1>13 DEF MediaInv

LEMMA EndSweepStep == ASSUME MediaInv, EndSweep PROVE MediaInv'
<1>1. /\ sweep.step = "space" /\ (sweep.total <= MaxMedia \/ sweep.list = {})
      /\ sweep' = [sweep EXCEPT !.step = "done"] /\ present' = present /\ age' = age /\ named' = named
  BY DEF EndSweep
<1>2. MediaTypeOK'
  BY <1>1 DEF MediaInv, MediaTypeOK
<1>3. /\ sweep'.step = "done" /\ sweep'.scanned = sweep.scanned /\ sweep'.list = sweep.list
      /\ sweep'.total = sweep.total /\ sweep'.refs = sweep.refs /\ sweep'.known = sweep.known
  BY <1>1 DEF MediaInv, MediaTypeOK
<1>4. ReadRight' /\ \A g : (Protected(g)' <=> Protected(g)) /\ (Expired(g)' <=> Expired(g))
  BY <1>1, <1>3, SweepStays
<1>5. Left' = Left /\ Deleted' = Deleted /\ Candidates(Left)' = Candidates(Left)
  BY <1>1, <1>3 DEF Left, Deleted, Candidates, Protected
<1>6. Progress'
  BY <1>1, <1>3, <1>4, <1>5 DEF MediaInv, Progress
<1>7. OldestFirst'
  BY <1>1, <1>4, <1>5 DEF MediaInv, OldestFirst
<1>. QED
  BY <1>2, <1>4, <1>6, <1>7 DEF MediaInv

LEMMA MediaInvStays == ASSUME MediaInv, [MediaNext]_mediaVars PROVE MediaInv'
<1>1. ASSUME UNCHANGED mediaVars PROVE MediaInv'
  BY <1>1 DEF mediaVars, MediaInv, MediaTypeOK, ReadRight, Progress, OldestFirst, Left, Deleted, Candidates,
              Protected, Expired
<1>. QED
  BY <1>1, NameMediaStep, ReadEventsStep, ScanStep, SweepByAgeStep, CountMediaStep, SweepForSpaceStep,
     EndSweepStep DEF MediaNext

\* For any files, limit and number of events, whatever is stored during the sweep: the
\* media of a HIGH event are kept but for the two cases ProtectedMediaKept names, and
\* the oldest go first, until the rest fits (cleanup_event_media.py).
THEOREM ProtectedMedia == MediaSpec => []ProtectedMediaKept
<1>. QED
  BY MediaInitInv, MediaInvStays, MediaInvSafe, PTL DEF MediaSpec

=============================================================================

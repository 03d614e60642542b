------------------------------- MODULE StoredFiles -------------------------------
(***************************************************************************)
(* Uploaded files and the rows that name them.  The disk is no part of the *)
(* transaction: attachments of reports and bug reports, mobile uploads and *)
(* board posts save their files, then commit; a resource's update also     *)
(* removes the file it replaces, before it commits (flask-vm               *)
(* report_upload, bug_report, incident, board and resources services).     *)
(*                                                                         *)
(* Stored names are uuids, so no two uploads share one.  A soft-deleted    *)
(* row keeps its file.  Left out: types, limits, contents.                 *)
(***************************************************************************)
EXTENDS Naturals, FiniteSets

CONSTANTS
  UploadThreads,  \* web threads
  MaxFiles        \* bound: files saved

ASSUME FilesAssumption == MaxFiles \in Nat

VARIABLES
  disk,      \* each file's state: "none", "part" (a save broken off) or "whole"
  size,      \* each file's size and type, 0 where no property is about them
  used,      \* files saved so far; file n is the n-th
  rows,      \* files that committed attachment rows name
  resource,  \* [path, size, deleted, made, stale]: one project resource; path 0 before it
             \* is created; made: uploads committed; stale: the last one of them had not
             \* seen the one before (history)
  blame,     \* why a file may be without a row or a row without its file, or "none" (history)
  upload     \* each web thread's upload

fileVars == <<disk, size, used, rows, resource, blame, upload>>

Files == 1 .. MaxFiles
Waiting == [op |-> "none"]

FilesInit ==
  /\ disk = [f \in Files |-> "none"] /\ size = [f \in Files |-> 0] /\ used = 0
  /\ rows = {}
  /\ resource = [path |-> 0, size |-> 0, deleted |-> FALSE, made |-> 0, stale |-> FALSE]
  /\ blame = [f \in Files |-> "none"]
  /\ upload = [w \in UploadThreads |-> Waiting]

Servable(f) == disk[f] # "none"

Blamed(fs, why) == [f \in Files |-> IF f \in fs THEN why ELSE blame[f]]

\* A save writes the whole file, or is broken off: a part of it stays, and the
\* handler does not have its path yet.
SaveFile(w, n, next, failed) ==
  /\ used < MaxFiles
  /\ used' = used + 1
  /\ \/ /\ disk' = [disk EXCEPT ![used + 1] = "whole"]
        /\ size' = [size EXCEPT ![used + 1] = n]
        /\ upload' = [upload EXCEPT ![w] = next]
        /\ UNCHANGED blame
     \/ /\ disk' = [disk EXCEPT ![used + 1] = "part"]
        /\ blame' = Blamed({used + 1}, "save")
        /\ upload' = [upload EXCEPT ![w] = failed]
        /\ UNCHANGED size

-----------------------------------------------------------------------------
(* Attachments *)

\* create_report, add_report_attachments, create_bug_report_attachments: some
\* files; create_incident, create_board_post: one.
StartUpload(w) ==
  /\ upload[w] = Waiting
  /\ \E kind \in {"report", "bug", "mobile", "board"} :
       upload' = [upload EXCEPT ![w] = [op |-> "save", kind |-> kind, saved |-> {}]]
  /\ UNCHANGED <<disk, size, used, rows, resource, blame>>

\* What the handler does after an error: it removes what it has saved, but for
\* the handler of board posts, and that of mobile uploads before it has the
\* file's description.
Cleans(q) == q.kind # "board" /\ q.saved # {}

AfterError(q) == IF Cleans(q) THEN [op |-> "clean", saved |-> q.saved] ELSE Waiting

\* Mutant: nothing is removed after an error.
LeaveAll(q) == Waiting

Recover(q) == AfterError(q)

SaveAttachment(w) ==
  LET q == upload[w] IN
  /\ q.op = "save"
  /\ q.kind \in {"mobile", "board"} => q.saved = {}
  /\ SaveFile(w, 0, [q EXCEPT !.saved = q.saved \cup {used + 1}], Recover(q))
  /\ UNCHANGED <<rows, resource>>

\* A file that is refused, or a commit that fails: rollback, then the cleaning.
FailUpload(w) ==
  LET q == upload[w] IN
  /\ q.op = "save"
  /\ blame' = IF q.kind = "board" THEN Blamed(q.saved, "no cleaning") ELSE blame
  /\ upload' = [upload EXCEPT ![w] = Recover(q)]
  /\ UNCHANGED <<disk, size, used, rows, resource>>

\* The commit.  If the connection is lost on its way back, the rows are there and
\* the handler takes it for an error.
CommitUpload(w) ==
  LET q == upload[w] IN
  /\ q.op = "save" /\ q.saved # {}
  /\ rows' = rows \cup q.saved
  /\ \/ upload' = [upload EXCEPT ![w] = Waiting] /\ UNCHANGED blame
     \/ upload' = [upload EXCEPT ![w] = Recover(q)] /\ blame' = Blamed(q.saved, "commit")
  /\ UNCHANGED <<disk, size, used, resource>>

\* One file after the other; a file that cannot be removed is logged.
CleanUp(w) ==
  LET q == upload[w] IN
  /\ q.op = "clean"
  /\ \E f \in q.saved :
       /\ \/ disk' = [disk EXCEPT ![f] = "none"] /\ UNCHANGED blame
          \/ blame' = Blamed({f}, "remove") /\ UNCHANGED disk
       /\ upload' = [upload EXCEPT ![w] =
            IF q.saved = {f} THEN Waiting ELSE [q EXCEPT !.saved = q.saved \ {f}]]
  /\ UNCHANGED <<size, used, rows, resource>>

-----------------------------------------------------------------------------
(* A resource *)

HasResource == resource.path # 0 /\ ~resource.deleted

\* create_resource, update_resource with a file: what it read, and then the file.
StartResource(w) ==
  /\ upload[w] = Waiting
  /\ resource.path = 0 \/ HasResource
  /\ upload' = [upload EXCEPT ![w] =
       [op |-> "store", old |-> resource.path, oldSize |-> resource.size, seen |-> resource.made]]
  /\ UNCHANGED <<disk, size, used, rows, resource, blame>>

SaveResource(w) ==
  LET q == upload[w] IN
  /\ q.op = "store"
  /\ \E n \in {1, 2} :
       SaveFile(w, n, [op |-> IF q.old = 0 THEN "commit" ELSE "replace", old |-> q.old,
                       oldSize |-> q.oldSize, seen |-> q.seen, file |-> used + 1], Waiting)
  /\ UNCHANGED <<rows, resource>>

\* _remove_file_safely, before the commit.
RemoveOld(w) ==
  LET q == upload[w] IN
  /\ q.op = "replace"
  /\ \/ disk' = [disk EXCEPT ![q.old] = "none"] /\ UNCHANGED blame
     \/ disk[q.old] # "none" /\ blame' = Blamed({q.old}, "remove") /\ UNCHANGED disk
  /\ upload' = [upload EXCEPT ![w] = [q EXCEPT !.op = "commit"]]
  /\ UNCHANGED <<size, used, rows, resource>>

\* Mutant: the row's old size stays.
OldSize(q) == resource.size

\* The columns that differ from what was loaded: an equal size is not written.
StoreSize(q) == IF size[q.file] = q.oldSize THEN resource.size ELSE size[q.file]

\* A second create makes a resource of its own.
CommitResource(w) ==
  LET q == upload[w] IN
  /\ q.op = "commit"
  /\ q.old = 0 => resource.path = 0
  /\ blame' = IF resource.path \in Files /\ resource.path # q.old
                THEN Blamed({resource.path}, "overlap") ELSE blame
  /\ resource' = [resource EXCEPT !.path = q.file, !.size = StoreSize(q), !.made = resource.made + 1,
                                  !.stale = q.seen # resource.made]
  /\ upload' = [upload EXCEPT ![w] = Waiting]
  /\ UNCHANGED <<disk, size, used, rows>>

\* A failed commit: the new file stays, the old one is gone.
FailResource(w) ==
  LET q == upload[w] IN
  /\ q.op = "commit"
  /\ blame' = Blamed({q.file, q.old}, "no cleaning")
  /\ upload' = [upload EXCEPT ![w] = Waiting]
  /\ UNCHANGED <<disk, size, used, rows, resource>>

\* delete_resource: the row and the file stay.
DeleteResource(w) ==
  /\ upload[w] = Waiting /\ HasResource
  /\ resource' = [resource EXCEPT !.deleted = TRUE]
  /\ UNCHANGED <<disk, size, used, rows, blame, upload>>

\* The worker process is killed: the transaction is rolled back, the files stay.
Killed(w) ==
  LET q == upload[w] IN
  /\ q # Waiting
  /\ blame' = Blamed((IF q.op \in {"save", "clean"} THEN q.saved ELSE {})
                       \cup (IF q.op \in {"replace", "commit"} THEN {q.file} ELSE {})
                       \cup (IF q.op = "commit" THEN {q.old} ELSE {}), "killed")
  /\ upload' = [upload EXCEPT ![w] = Waiting]
  /\ UNCHANGED <<disk, size, used, rows, resource>>

-----------------------------------------------------------------------------
FilesNext ==
  \E w \in UploadThreads :
    \/ StartUpload(w) \/ SaveAttachment(w) \/ FailUpload(w) \/ CommitUpload(w) \/ CleanUp(w)
    \/ StartResource(w) \/ SaveResource(w) \/ RemoveOld(w) \/ CommitResource(w) \/ FailResource(w)
    \/ DeleteResource(w) \/ Killed(w)

FilesSpec == FilesInit /\ [][FilesNext]_fileVars

-----------------------------------------------------------------------------
\* The files of the uploads under way.
InUse ==
  UNION {IF upload[w].op \in {"save", "clean"} THEN upload[w].saved
         ELSE IF upload[w].op \in {"replace", "commit"} THEN {upload[w].file} ELSE {} : w \in UploadThreads}

\* A committed attachment row has its whole file, unless the answer to its commit
\* was lost; a resource has it but while an update is between removing the file and
\* its commit, or broke off there, and the row describes that very file unless two
\* updates overlapped.
RowHasItsFile ==
  /\ \A f \in rows : disk[f] = "whole" \/ blame[f] = "commit"
  /\ resource.path # 0 =>
       /\ \/ disk[resource.path] = "whole" \/ blame[resource.path] \in {"no cleaning", "killed"}
          \/ \E w \in UploadThreads : upload[w].op = "commit" /\ upload[w].old = resource.path
       /\ resource.size = size[resource.path] \/ resource.stale

\* A file nobody is uploading has a row, unless its save was broken off, the process
\* was killed, the file could not be removed, its handler does not clean up (a board
\* post, a resource) or two updates of the resource overlapped.
NoOrphanFile ==
  \A f \in Files : Servable(f) => f \in rows \cup {resource.path} \cup InUse \/ blame[f] # "none"
=============================================================================

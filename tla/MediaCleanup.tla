------------------------------ MODULE MediaCleanup ------------------------------
(***************************************************************************)
(* The script that deletes event media: it reads which file which event    *)
(* names, scans the directory, deletes by age, then by capacity, while     *)
(* events go on being stored (flask-vm scripts/cleanup_event_media.py).    *)
(*                                                                         *)
(* An age is a class: 0 under 3 days, 1 from 3, 2 from 14 days; every file *)
(* has size 1.  The environment's defaults are taken, in which protected   *)
(* files are never deleted for space, and no dry run.                      *)
(***************************************************************************)
EXTENDS Naturals, Sequences, FiniteSets

CONSTANTS
  Media,       \* media files under generated/incidents
  MaxMedia,    \* EVENT_MEDIA_MAX_GB, in files
  MaxEvents    \* bound: events stored

ASSUME MediaAssumption == IsFiniteSet(Media) /\ MaxMedia \in Nat /\ MaxEvents \in Nat

VARIABLES
  present,   \* the files on disk
  age,       \* each file's age class
  named,     \* the events, oldest first: [file, severity]
  sweep      \* [step, refs, scanned, list, total, known]: the script; refs: what it takes
             \* each file's severity for; list: the files still to look at; total: the
             \* size it counts with; known: how many events it has read (history)

mediaVars == <<present, age, named, sweep>>

Severities == {"LOW", "MEDIUM", "HIGH"}

MediaInit ==
  /\ present \in SUBSET Media
  /\ age \in [Media -> 0 .. 2]
  /\ named = <<>>
  /\ sweep = [step |-> "idle", refs |-> [f \in Media |-> "NONE"], scanned |-> {}, list |-> {},
              total |-> 0, known |-> 0]

\* An event is stored, with a new file or with one that is there.
NameMedia ==
  /\ Len(named) < MaxEvents
  /\ \E f \in Media, s \in Severities :
       /\ f \in present \/ (age[f] = 0 /\ f \notin sweep.scanned)
       /\ present' = present \cup {f}
       /\ named' = Append(named, [file |-> f, severity |-> s])
  /\ UNCHANGED <<age, sweep>>

\* The events are read newest first and each overwrites what a later one said of
\* its file: the oldest one has the last word.
Reference(f) ==
  LET es == {i \in 1 .. Len(named) : named[i].file = f} IN
  IF es = {} THEN "NONE" ELSE named[CHOOSE i \in es : \A j \in es : i <= j].severity

\* iter_referenced_media
ReadEvents ==
  /\ sweep.step = "idle"
  /\ sweep' = [sweep EXCEPT !.step = "scan", !.refs = [f \in Media |-> Reference(f)], !.known = Len(named)]
  /\ UNCHANGED <<present, age, named>>

\* scan_media
Scan ==
  /\ sweep.step = "scan"
  /\ sweep' = [sweep EXCEPT !.step = "age", !.scanned = present, !.list = present]
  /\ UNCHANGED <<present, age, named>>

\* is_protected_severity
Protected(f) == sweep.refs[f] = "HIGH"

\* retention_days_for
Expired(f) == age[f] >= IF sweep.refs[f] = "MEDIUM" THEN 2 ELSE 1

\* cleanup_by_age: the files in the order of the directory walk.
SweepByAge ==
  /\ sweep.step = "age" /\ sweep.list # {}
  /\ \E f \in sweep.list :
       /\ present' = IF ~Protected(f) /\ Expired(f) THEN present \ {f} ELSE present
       /\ sweep' = [sweep EXCEPT !.list = sweep.list \ {f}]
  /\ UNCHANGED <<age, named>>

\* Mutant: the protected ones too.
Anything(fs) == fs

\* The files that may go for space.
Candidates(fs) == {f \in fs : ~Protected(f)}

\* cleanup_by_capacity: it counts the scanned files that are left.
CountMedia ==
  /\ sweep.step = "age" /\ sweep.list = {}
  /\ LET left == sweep.scanned \cap present IN
     sweep' = [sweep EXCEPT !.step = "space", !.total = Cardinality(left), !.list = Candidates(left)]
  /\ UNCHANGED <<present, age, named>>

\* The oldest first, until the rest fits.
SweepForSpace ==
  /\ sweep.step = "space" /\ sweep.total > MaxMedia /\ sweep.list # {}
  /\ \E f \in sweep.list :
       /\ \A g \in sweep.list : age[g] <= age[f]
       /\ present' = present \ {f}
       /\ sweep' = [sweep EXCEPT !.list = sweep.list \ {f}, !.total = sweep.total - 1]
  /\ UNCHANGED <<age, named>>

EndSweep ==
  /\ sweep.step = "space" /\ (sweep.total <= MaxMedia \/ sweep.list = {})
  /\ sweep' = [sweep EXCEPT !.step = "done"]
  /\ UNCHANGED <<present, age, named>>

MediaNext ==
  NameMedia \/ ReadEvents \/ Scan \/ SweepByAge \/ CountMedia \/ SweepForSpace \/ EndSweep

MediaSpec == MediaInit /\ [][MediaNext]_mediaVars

-----------------------------------------------------------------------------
Deleted == sweep.scanned \ present

\* The media of a HIGH event are kept, but if the event was stored after the script
\* had read the events, or an older event gives the same file another severity; a
\* file is deleted before its time only for space and only after all older ones that
\* may go; and at the end the files fit, or only protected ones are left.
ProtectedMediaKept ==
  /\ \A f \in Deleted, i \in 1 .. Len(named) :
       named[i] = [file |-> f, severity |-> "HIGH"] =>
         \/ i > sweep.known
         \/ \E j \in 1 .. i - 1 : named[j].file = f /\ named[j].severity # "HIGH"
  /\ \A f \in Deleted, g \in sweep.scanned \cap present :
       ~Expired(f) => age[g] <= age[f] \/ Protected(g)
  /\ sweep.step = "done" =>
       \/ Cardinality(sweep.scanned \cap present) <= MaxMedia
       \/ \A f \in sweep.scanned \cap present : Protected(f)
=============================================================================

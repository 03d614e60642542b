-------------------------------- MODULE ItsCache --------------------------------
(***************************************************************************)
(* The list of the public CCTVs: a request asks the ITS server, saves a    *)
(* good answer in a file of the disk, and answers from that file when the  *)
(* server does not (ai-vm its_openapi.py, its_cctv_cache.py).              *)
(*                                                                         *)
(* A save writes a temporary file, named after the process only, and       *)
(* renames it: two threads of a process write into one file, and a thread  *)
(* may still be writing into the file another one has already published.   *)
(* What two writers leave is a whole list or not, by their lengths.  The   *)
(* list is dated before the file is opened, so that of two saves the one   *)
(* with the older list may be the one that renames last.                   *)
(*                                                                         *)
(* Left out: the list's items and the filter by names; the box of the map  *)
(* a request asks for, which the cache does not know.                      *)
(***************************************************************************)
EXTENDS Naturals, FiniteSets

CONSTANTS
  ListThreads,       \* request threads
  Process(_),        \* the process of each
  Ttl,               \* ITS_CCTV_CACHE_TTL_SECONDS, in ticks
  StaleMax,          \* ITS_CCTV_STALE_MAX_AGE_SECONDS, in ticks
  AllowStale,        \* ITS_CCTV_ALLOW_STALE_CACHE
  MaxTicks, MaxSaves \* bounds: the clock; temporary files made

ASSUME ListAssumption ==
  Ttl \in Nat /\ StaleMax \in Nat /\ AllowStale \in BOOLEAN /\ MaxTicks \in Nat /\ MaxSaves \in Nat

VARIABLES
  now,       \* the clock
  inodes,    \* files made so far
  content,   \* each file's list: [whole, at]
  temp,      \* the temporary file each process's name stands for, 0 if none
  cached,    \* the file the cache's name stands for, 0 if none
  asker,     \* each thread's request: [pc, file, at, base, alone]; at: its cacheUpdatedAt; base:
             \* the date of the newest list published when it took that date (history); alone:
             \* nobody else has had its temporary file open since it opened it
  answer,    \* the last thing that came of a cache
  raced,     \* two saves of one process overlapped (history)
  newest,    \* the date of the newest list published (history)
  late       \* the save published last had been overtaken by a newer one (history)

listVars == <<now, inodes, content, temp, cached, asker, answer, raced, newest, late>>

Procs == {Process(w) : w \in ListThreads}
Free == [pc |-> "free", file |-> 0, at |-> 0, base |-> 0, alone |-> TRUE]
Empty == [whole |-> FALSE, at |-> 0]
Saving(w) == asker[w].pc \in {"write", "rename"}

ListInit ==
  /\ now = 0 /\ inodes = 0
  /\ content = [f \in 1 .. MaxSaves |-> Empty]
  /\ temp = [p \in Procs |-> 0] /\ cached = 0
  /\ asker = [w \in ListThreads |-> Free]
  /\ answer = "nothing" /\ raced = FALSE
  /\ newest = 0 /\ late = FALSE

\* Mutant: every process writes the same temporary file.
OneName(w) == Process(CHOOSE v \in ListThreads : TRUE)

\* .<name>.<pid>.tmp
TempName(w) == Process(w)

Goto(w, pc) == asker' = [asker EXCEPT ![w].pc = pc]

Tick ==
  /\ now < MaxTicks
  /\ now' = now + 1
  /\ UNCHANGED <<inodes, content, temp, cached, asker, answer, raced, newest, late>>

\* get_its_cctv_list_response: the server answers, or the answer is one that lets
\* the cache step in (timeout, no connection, 4001, 4xx, 5xx), or another error.
AskIts(w) ==
  /\ asker[w].pc = "free"
  /\ \E pc \in {"save", "load", "free"} : Goto(w, pc)
  /\ UNCHANGED <<now, inodes, content, temp, cached, answer, raced, newest, late>>

\* The list is dated.
DateList(w) ==
  /\ asker[w].pc = "save"
  /\ asker' = [asker EXCEPT ![w] = [@ EXCEPT !.pc = "open", !.at = now, !.base = newest]]
  /\ UNCHANGED <<now, inodes, content, temp, cached, answer, raced, newest, late>>

\* open("w"): the file of that name is emptied, for those who have it open too.
OpenTemp(w) ==
  /\ asker[w].pc = "open"
  /\ LET f == IF temp[TempName(w)] = 0 THEN inodes + 1 ELSE temp[TempName(w)]
         others == {v \in ListThreads : Saving(v) /\ asker[v].file = f}
     IN /\ f <= MaxSaves
        /\ inodes' = IF f > inodes THEN f ELSE inodes
        /\ temp' = [temp EXCEPT ![TempName(w)] = f]
        /\ content' = [content EXCEPT ![f] = Empty]
        /\ asker' = [v \in ListThreads |->
             IF v = w THEN [asker[w] EXCEPT !.pc = "write", !.file = f, !.alone = (others = {})]
             ELSE IF v \in others THEN [asker[v] EXCEPT !.alone = FALSE] ELSE asker[v]]
  /\ raced' = (raced \/ \E v \in ListThreads \ {w} : Process(v) = Process(w) /\ Saving(v))
  /\ UNCHANGED <<now, cached, answer, newest, late>>

\* json.dump and the close.  A flush on the way leaves part of the list there.
WriteSome(w) ==
  /\ asker[w].pc = "write"
  /\ content' = [content EXCEPT ![asker[w].file] = Empty]
  /\ UNCHANGED <<now, inodes, temp, cached, asker, answer, raced, newest, late>>

WriteRest(w) ==
  /\ asker[w].pc = "write"
  /\ \E whole \in IF asker[w].alone THEN {TRUE} ELSE BOOLEAN :
       content' = [content EXCEPT ![asker[w].file] = [whole |-> whole, at |-> asker[w].at]]
  /\ Goto(w, "rename")
  /\ UNCHANGED <<now, inodes, temp, cached, answer, raced, newest, late>>

\* os.replace.  The other thread may have renamed it already: then the request
\* fails, good answer or not.
Publish(w) ==
  /\ asker[w].pc = "rename"
  /\ LET f == temp[TempName(w)]
     IN IF f = 0 THEN answer' = "error" /\ UNCHANGED <<temp, cached, newest, late>>
        ELSE /\ cached' = f /\ temp' = [temp EXCEPT ![TempName(w)] = 0]
             /\ newest' = IF content[f].at > newest THEN content[f].at ELSE newest
             /\ late' = (asker[w].base # newest)
             /\ UNCHANGED answer
  /\ asker' = [asker EXCEPT ![w] = Free]
  /\ UNCHANGED <<now, inodes, content, raced>>

\* is_cache_expired
CacheExpired(at) == now - at > Ttl

\* is_stale_cache_allowed
StaleAllowed(at) == AllowStale /\ now - at <= StaleMax

\* load_its_cctv_cache: no file, no list in it, or an expired list that is not let
\* pass as a stale one is no answer.
LoadCache(w) ==
  /\ asker[w].pc = "load"
  /\ answer' =
       IF cached = 0 THEN "nothing"
       ELSE IF ~content[cached].whole THEN "no list"
       ELSE IF CacheExpired(content[cached].at) /\ ~StaleAllowed(content[cached].at) THEN "nothing"
       ELSE "list"
  /\ Goto(w, "free")
  /\ UNCHANGED <<now, inodes, content, temp, cached, raced, newest, late>>

\* The process is killed: its threads end, its temporary file stays.
KillProcess ==
  /\ \E p \in Procs :
       asker' = [w \in ListThreads |-> IF Process(w) = p THEN Free ELSE asker[w]]
  /\ UNCHANGED <<now, inodes, content, temp, cached, answer, raced, newest, late>>

ListNext ==
  \/ Tick \/ KillProcess
  \/ \E w \in ListThreads :
       \/ AskIts(w) \/ DateList(w) \/ OpenTemp(w) \/ WriteSome(w) \/ WriteRest(w)
       \/ Publish(w) \/ LoadCache(w)

ListSpec == ListInit /\ [][ListNext]_listVars

-----------------------------------------------------------------------------
\* Unless two threads of one process have saved at the same time, whatever is killed on
\* its way: the published file holds a whole list, no save fails for want of its
\* temporary file and no reader finds a torn list; and the list published is the newest
\* there has been, except where a save was dated before a newer one was published and
\* renamed its file after it.
CacheIsWhole ==
  \/ raced
  \/ /\ cached # 0 => content[cached].whole
     /\ answer \notin {"error", "no list"}
     /\ cached # 0 /\ ~late => content[cached].at = newest
=============================================================================

--------------------------- MODULE Records_proofs ---------------------------
(*****************************************************************************)
(* Rows and lists that overlapping requests write, for any number of         *)
(* requests and threads.                                                     *)
(*                                                                           *)
(* What a request has loaded is compared with what is there when it commits: *)
(* each invariant says how the two may differ, which is by what others have  *)
(* committed in between and by nothing else.  The properties excuse just     *)
(* those overlaps.                                                           *)
(*****************************************************************************)
EXTENDS CctvRecords, Chat, ItsCache, ReportRecord, SharedRows, FiniteSetTheorems,
        FunctionTheorems, SequenceTheorems, TLAPS

-----------------------------------------------------------------------------
(* Posts, resources and bug reports: columns and counters *)

Columns == DOMAIN Row0

RowsTypeOK ==
  /\ DOMAIN cols = Columns /\ DOMAIN asked = Columns
  /\ \A c \in Counters : cols[c] \in Nat
  /\ opens \in [Counters -> Nat] /\ edits \in [Columns -> Nat]
  /\ DOMAIN request = RowThreads

\* What an open counts on: the counter it raises is as it was loaded unless another
\* open has been committed since.
OpenFacts(q) ==
  /\ \A c \in Counters :
       /\ q.loaded[c] \in Nat /\ q.seen[c] \in Nat
       /\ q.loaded[c] <= q.seen[c] /\ q.seen[c] <= opens[c]
       /\ q.seen[c] = opens[c] => q.loaded[c] = cols[c]
  /\ \E c \in Counters : q.sets = [d \in {c} |-> q.loaded[c] + 1]

\* An edit sets no counter, and a column is as it was loaded unless another edit of it
\* has been committed since.
EditFacts(q) ==
  /\ DOMAIN q.sets \subseteq Columns \ Counters
  /\ \A c \in Columns \ Counters :
       /\ q.edits[c] \in Nat /\ q.edits[c] <= edits[c]
       /\ q.edits[c] = edits[c] => q.loaded[c] = cols[c]

\* What a commit may do: a counter is written with an open of its own only, another
\* column with an edit of its own only.
OwnWrites ==
  /\ opens' \in [Counters -> Nat] /\ edits' \in [Columns -> Nat]
  /\ \A c \in Counters : opens[c] <= opens'[c] /\ (opens'[c] = opens[c] => cols'[c] = cols[c])
  /\ \A c \in Columns \ Counters : edits[c] <= edits'[c] /\ (edits'[c] = edits[c] => cols'[c] = cols[c])

RequestsKnow ==
  \A w \in RowThreads :
    /\ request[w].op = "open" => OpenFacts(request[w])
    /\ request[w].op = "edit" => EditFacts(request[w])

RowsInv == RowsTypeOK /\ RequestsKnow /\ SharedRowsKeepTheirWrites

LEMMA CounterColumns == Counters \subseteq Columns
  BY DEF Counters, Columns, Row0

LEMMA RowsInitInv == ASSUME RowsInit PROVE RowsInv
<1>1. \A c \in Counters : Row0[c] = 0
  BY DEF Counters, Row0
<1>2. RowsTypeOK
  BY <1>1 DEF RowsInit, RowsTypeOK, Columns
<1>3. RequestsKnow
  BY DEF RowsInit, RequestsKnow, NoRequest
<1>5. SharedRowsKeepTheirWrites
  BY <1>1 DEF RowsInit, SharedRowsKeepTheirWrites
<1>. QED
  BY <1>2, <1>3, <1>5 DEF RowsInv

\* A thread is done with its request, or never had one.
LEMMA FreedRequest ==
  ASSUME RowsInv, NEW w \in RowThreads, request' = [request EXCEPT ![w] = NoRequest]
  PROVE  /\ DOMAIN request' = RowThreads
         /\ request'[w].op \notin {"open", "edit"}
         /\ \A p \in RowThreads : p # w => request'[p] = request[p]
  BY DEF RowsInv, RowsTypeOK, NoRequest

\* What a request counts on stays so while others commit: a counter is only written
\* with an open of its own.
LEMMA OthersKnow ==
  ASSUME RowsInv, NEW p \in RowThreads, request'[p] = request[p], OwnWrites
  PROVE  /\ request'[p].op = "open" => OpenFacts(request[p])'
         /\ request'[p].op = "edit" => EditFacts(request[p])'
<1>1. ASSUME request[p].op = "open" PROVE OpenFacts(request[p])'
  <2>. DEFINE q == request[p]
  <2>1. OpenFacts(q)
    BY <1>1 DEF RowsInv, RequestsKnow
  <2>2. \E c \in Counters : q.sets = [d \in {c} |-> q.loaded[c] + 1]
    BY <2>1 DEF OpenFacts
  <2>3. ASSUME NEW c \in Counters
        PROVE  /\ q.loaded[c] \in Nat /\ q.seen[c] \in Nat
               /\ q.loaded[c] <= q.seen[c] /\ q.seen[c] <= opens'[c]
               /\ q.seen[c] = opens'[c] => q.loaded[c] = cols'[c]
    <3>1. /\ q.loaded[c] \in Nat /\ q.seen[c] \in Nat
          /\ q.loaded[c] <= q.seen[c] /\ q.seen[c] <= opens[c]
          /\ q.seen[c] = opens[c] => q.loaded[c] = cols[c]
      BY <2>1 DEF OpenFacts
    <3>2. opens[c] \in Nat /\ opens'[c] \in Nat
      BY DEF RowsInv, RowsTypeOK, OwnWrites
    <3>. QED
      BY <3>1, <3>2 DEF OwnWrites
  <2>. QED
    BY <2>2, <2>3 DEF OpenFacts
<1>2. ASSUME request[p].op = "edit" PROVE EditFacts(request[p])'
  <2>. DEFINE q == request[p]
  <2>1. EditFacts(q)
    BY <1>2 DEF RowsInv, RequestsKnow
  <2>2. ASSUME NEW c \in Columns \ Counters
        PROVE  /\ q.edits[c] \in Nat /\ q.edits[c] <= edits'[c]
               /\ q.edits[c] = edits'[c] => q.loaded[c] = cols'[c]
    <3>1. /\ q.edits[c] \in Nat /\ q.edits[c] <= edits[c]
          /\ q.edits[c] = edits[c] => q.loaded[c] = cols[c]
      BY <2>1 DEF EditFacts
    <3>2. edits[c] \in Nat /\ edits'[c] \in Nat
      BY DEF RowsInv, RowsTypeOK, OwnWrites
    <3>. QED
      BY <3>1, <3>2 DEF OwnWrites
  <2>3. DOMAIN q.sets \subseteq Columns \ Counters
    BY <2>1 DEF EditFacts
  <2>. QED
    BY <2>2, <2>3 DEF EditFacts
<1>. QED
  BY <1>1, <1>2

LEMMA RequestsStillKnow ==
  ASSUME RowsInv, NEW w \in RowThreads, request' = [request EXCEPT ![w] = NoRequest], OwnWrites
  PROVE  RequestsKnow'
<1>1. ASSUME NEW p \in RowThreads
      PROVE  /\ request'[p].op = "open" => OpenFacts(request[p])'
             /\ request'[p].op = "edit" => EditFacts(request[p])'
  <2>1. CASE p = w
    BY <2>1, FreedRequest
  <2>2. CASE p # w
    <3>1. request'[p] = request[p]
      BY <2>2, FreedRequest
    <3>. QED
      BY <3>1, OthersKnow
  <2>. QED
    BY <2>1, <2>2
<1>. QED
  BY <1>1 DEF RequestsKnow

LEMMA DroppedStep == ASSUME RowsInv, NEW w \in RowThreads, Dropped(w) PROVE RowsInv'
<1>1. request' = [request EXCEPT ![w] = NoRequest] /\ UNCHANGED <<cols, opens, overlap, asked, edits, unmade, writes>>
  BY DEF Dropped
<1>2. RequestsKnow'
  <2>1. OwnWrites
    BY <1>1 DEF RowsInv, RowsTypeOK, OwnWrites
  <2>2. request' = [request EXCEPT ![w] = NoRequest]
    BY <1>1
  <2>. QED
    BY <2>1, <2>2, RequestsStillKnow
<1>3. RowsTypeOK' /\ SharedRowsKeepTheirWrites'
  BY <1>1, FreedRequest DEF RowsInv, RowsTypeOK, SharedRowsKeepTheirWrites
<1>. QED
  BY <1>2, <1>3 DEF RowsInv

LEMMA LoadRowStep == ASSUME RowsInv, NEW w \in RowThreads, Load(w) PROVE RowsInv'
<1>1. PICK op \in {"open", "edit", "refuse"} :
        \E sets \in CASE op = "open" -> OpenPost \cup OpenFile
                      [] op = "edit" -> EditPost \cup DeletePost \cup EditBug \cup CloseBug
                      [] OTHER -> Refusals :
          request' = [request EXCEPT ![w] = [op |-> op, loaded |-> cols, sets |-> sets, seen |-> opens, edits |-> edits]]
  BY DEF Load
<1>2. UNCHANGED <<cols, opens, overlap, asked, edits, unmade, writes>>
  BY DEF Load
<1>3. /\ DOMAIN request' = RowThreads /\ request'[w].op = op
      /\ \A p \in RowThreads : p # w => request'[p] = request[p]
  BY <1>1 DEF RowsInv, RowsTypeOK
<1>4. ASSUME op = "open" PROVE OpenFacts(request[w])'
  <2>1. PICK c \in Counters : request' = [request EXCEPT ![w] =
           [op |-> op, loaded |-> cols, sets |-> [d \in {c} |-> cols[c] + 1], seen |-> opens, edits |-> edits]]
    BY <1>1, <1>4 DEF OpenPost, OpenFile, Raised, Counters
  <2>2. /\ request'[w].loaded = cols /\ request'[w].seen = opens
        /\ request'[w].sets = [d \in {c} |-> cols[c] + 1]
    BY <2>1 DEF RowsInv, RowsTypeOK
  <2>. QED
    BY <1>2, <2>2 DEF OpenFacts, RowsInv, RowsTypeOK, SharedRowsKeepTheirWrites
<1>7. OwnWrites
  BY <1>2 DEF RowsInv, RowsTypeOK, OwnWrites
<1>5. ASSUME op = "edit" PROVE EditFacts(request[w])'
  <2>1. PICK sets \in EditPost \cup DeletePost \cup EditBug \cup CloseBug :
           request' = [request EXCEPT ![w] =
             [op |-> op, loaded |-> cols, sets |-> sets, seen |-> opens, edits |-> edits]]
    BY <1>1, <1>5
  <2>2. request'[w].sets = sets /\ request'[w].edits = edits /\ request'[w].loaded = cols
    BY <2>1 DEF RowsInv, RowsTypeOK
  <2>3. DOMAIN sets \subseteq {"title", "is_pinned", "post_status", "bug_status", "severity"}
    <3>1. CASE sets \in EditPost
      BY <3>1 DEF EditPost
    <3>2. CASE sets \in DeletePost \cup CloseBug
      BY <3>2 DEF DeletePost, CloseBug
    <3>3. CASE sets \in EditBug
      BY <3>3 DEF EditBug
    <3>. QED
      BY <2>1, <3>1, <3>2, <3>3
  <2>4. {"title", "is_pinned", "post_status", "bug_status", "severity"} \subseteq Columns \ Counters
    BY DEF Columns, Counters, Row0
  <2>5. \A c \in Columns \ Counters : edits[c] \in Nat
    BY DEF RowsInv, RowsTypeOK
  <2>. QED
    BY <1>2, <2>2, <2>3, <2>4, <2>5 DEF EditFacts
<1>6. RequestsKnow'
  <2>1. ASSUME NEW p \in RowThreads
        PROVE  /\ request'[p].op = "open" => OpenFacts(request[p])'
               /\ request'[p].op = "edit" => EditFacts(request[p])'
    <3>1. CASE p = w
      BY <1>3, <1>4, <1>5, <3>1
    <3>2. CASE p # w
      BY <1>3, <1>7, <3>2, OthersKnow
    <3>. QED
      BY <3>1, <3>2
  <2>. QED
    BY <2>1 DEF RequestsKnow
<1>. QED
  BY <1>2, <1>3, <1>6 DEF RowsInv, RowsTypeOK, SharedRowsKeepTheirWrites

LEMMA CommitOpenStep == ASSUME RowsInv, NEW w \in RowThreads, CommitOpen(w) PROVE RowsInv'
<1>. DEFINE q == request[w]
<1>1. OpenFacts(q)
  BY DEF CommitOpen, RowsInv, RequestsKnow
<1>2. PICK c \in Counters : q.sets = [d \in {c} |-> q.loaded[c] + 1]
  BY <1>1 DEF OpenFacts
<1>3. DOMAIN q.sets = {c} /\ q.sets[c] = q.loaded[c] + 1 /\ q.sets[c] # q.loaded[c]
  BY <1>1, <1>2 DEF OpenFacts
<1>4. /\ opens' = [opens EXCEPT ![c] = @ + 1]
      /\ overlap' = IF q.seen[c] = opens[c] THEN overlap ELSE overlap \cup {c}
      /\ cols' = Written(q) /\ request' = [request EXCEPT ![w] = NoRequest] /\ UNCHANGED <<asked, edits, unmade>>
  BY <1>3 DEF CommitOpen
<1>5. /\ DOMAIN cols' = Columns /\ cols'[c] = q.loaded[c] + 1
      /\ \A d \in Columns : d # c => cols'[d] = cols[d]
  BY <1>3, <1>4, CounterColumns DEF Written, RowsInv, RowsTypeOK
<1>6. opens' \in [Counters -> Nat] /\ opens'[c] = opens[c] + 1 /\ \A d \in Counters : d # c => opens'[d] = opens[d]
  BY <1>4 DEF RowsInv, RowsTypeOK
<1>7. RowsTypeOK'
  BY <1>1, <1>4, <1>5, <1>6, FreedRequest, CounterColumns DEF RowsInv, RowsTypeOK, OpenFacts
<1>8. RequestsKnow'
  <2>1. ASSUME NEW d \in Counters PROVE opens[d] <= opens'[d] /\ (opens'[d] = opens[d] => cols'[d] = cols[d])
    <3>1. opens[d] \in Nat
      BY DEF RowsInv, RowsTypeOK
    <3>. QED
      BY <1>5, <1>6, <3>1, CounterColumns
  <2>2. request' = [request EXCEPT ![w] = NoRequest]
    BY <1>4
  <2>3. ASSUME NEW d \in Columns \ Counters PROVE edits[d] <= edits'[d] /\ cols'[d] = cols[d]
    BY <1>4, <1>5 DEF RowsInv, RowsTypeOK
  <2>4. edits' \in [Columns -> Nat]
    BY <1>4 DEF RowsInv, RowsTypeOK
  <2>. QED
    BY <1>6, <2>1, <2>2, <2>3, <2>4, RequestsStillKnow DEF OwnWrites
<1>9. SharedRowsKeepTheirWrites'
  <2>1. cols'[c] <= opens'[c] /\ (cols'[c] = opens'[c] \/ c \in overlap')
    BY <1>1, <1>4, <1>5, <1>6 DEF OpenFacts, RowsInv, RowsTypeOK, SharedRowsKeepTheirWrites
  <2>2. ASSUME NEW d \in Counters, d # c PROVE cols'[d] <= opens'[d] /\ (cols'[d] = opens'[d] \/ d \in overlap')
    BY <1>4, <1>5, <1>6, <2>2, CounterColumns DEF RowsInv, SharedRowsKeepTheirWrites
  <2>3. \A d \in DOMAIN cols' \ Counters : cols'[d] = asked'[d] \/ d \in unmade'
    BY <1>4, <1>5 DEF RowsInv, RowsTypeOK, SharedRowsKeepTheirWrites
  <2>. QED
    BY <2>1, <2>2, <2>3 DEF SharedRowsKeepTheirWrites
<1>. QED
  BY <1>7, <1>8, <1>9 DEF RowsInv

LEMMA CommitEditStep == ASSUME RowsInv, NEW w \in RowThreads, CommitEdit(w) PROVE RowsInv'
<1>. DEFINE q == request[w]
<1>1. EditFacts(q)
  BY DEF CommitEdit, RowsInv, RequestsKnow
<1>2. /\ cols' = Written(q) /\ request' = [request EXCEPT ![w] = NoRequest] /\ UNCHANGED <<opens, overlap>>
      /\ asked' = [c \in DOMAIN asked |-> IF c \in DOMAIN q.sets THEN q.sets[c] ELSE asked[c]]
      /\ edits' = [c \in DOMAIN edits |-> IF c \in DOMAIN q.sets THEN edits[c] + 1 ELSE edits[c]]
      /\ unmade' = (unmade \ DOMAIN q.sets) \cup
                   {c \in DOMAIN q.sets : q.sets[c] = q.loaded[c] /\ q.edits[c] # edits[c]}
  BY DEF CommitEdit
<1>. HIDE DEF q
<1>3. /\ DOMAIN cols' = Columns /\ DOMAIN asked' = Columns /\ edits' \in [Columns -> Nat]
      /\ \A c \in Counters : cols'[c] = cols[c]
  BY <1>1, <1>2, CounterColumns DEF Written, EditFacts, RowsInv, RowsTypeOK
\* The column had not changed since it was loaded, or an edit of it came in between.
<1>4. ASSUME NEW c \in Columns \ Counters PROVE cols'[c] = asked'[c] \/ c \in unmade'
  <2>1. CASE c \notin DOMAIN q.sets
    BY <1>2, <2>1 DEF Written, RowsInv, RowsTypeOK, SharedRowsKeepTheirWrites
  <2>2. CASE c \in DOMAIN q.sets /\ q.sets[c] # q.loaded[c]
    BY <1>2, <2>2 DEF Written, RowsInv, RowsTypeOK
  <2>3. CASE c \in DOMAIN q.sets /\ q.sets[c] = q.loaded[c] /\ q.edits[c] = edits[c]
    <3>1. q.loaded[c] = cols[c]
      BY <1>1, <2>3 DEF EditFacts
    <3>. QED
      BY <1>2, <2>3, <3>1 DEF Written, RowsInv, RowsTypeOK
  <2>4. CASE c \in DOMAIN q.sets /\ q.sets[c] = q.loaded[c] /\ q.edits[c] # edits[c]
    BY <1>2, <2>4
  <2>. QED
    BY <2>1, <2>2, <2>3, <2>4
<1>6. SharedRowsKeepTheirWrites'
  BY <1>2, <1>3, <1>4 DEF RowsInv, SharedRowsKeepTheirWrites
<1>7. RowsTypeOK'
  BY <1>2, <1>3, FreedRequest DEF RowsInv, RowsTypeOK
<1>8. RequestsKnow'
  <2>1. ASSUME NEW c \in Columns \ Counters
        PROVE  edits[c] <= edits'[c] /\ (edits'[c] = edits[c] => cols'[c] = cols[c])
    <3>1. edits[c] \in Nat /\ edits'[c] = IF c \in DOMAIN q.sets THEN edits[c] + 1 ELSE edits[c]
      BY <1>2 DEF RowsInv, RowsTypeOK
    <3>2. c \notin DOMAIN q.sets => cols'[c] = cols[c]
      BY <1>2 DEF Written, RowsInv, RowsTypeOK
    <3>. QED
      BY <3>1, <3>2
  <2>2. opens' \in [Counters -> Nat] /\ \A c \in Counters : opens[c] <= opens'[c]
    BY <1>2 DEF RowsInv, RowsTypeOK
  <2>3. OwnWrites
    BY <1>3, <2>1, <2>2 DEF OwnWrites
  <2>4. request' = [request EXCEPT ![w] = NoRequest]
    BY <1>2
  <2>. QED
    BY <2>3, <2>4, RequestsStillKnow
<1>. QED
  BY <1>6, <1>7, <1>8 DEF RowsInv

\* For any threads, statuses and number of writes: a column has the value its last edit
\* asked for, except where that edit asked for what it had loaded while another one was
\* committed, and a counter falls behind its opens only where opens overlapped
\* (detail_post_service.py, bug_report/service.py).
THEOREM RowsSafety == RowsSpec => []SharedRowsKeepTheirWrites
<1>1. RowsInv /\ [RowsNext]_rowVars => RowsInv'
  <2>1. RowsInv /\ UNCHANGED rowVars => RowsInv'
    <3>. SUFFICES ASSUME RowsInv, UNCHANGED rowVars PROVE RowsInv'
      OBVIOUS
    <3>1. UNCHANGED <<cols, request, opens, overlap, asked, edits, unmade>>
      BY DEF rowVars
    <3>2. RequestsKnow'
      BY <3>1, OthersKnow DEF RowsInv, RowsTypeOK, RequestsKnow, OwnWrites
    <3>. QED
      BY <3>1, <3>2 DEF RowsInv, RowsTypeOK, SharedRowsKeepTheirWrites
  <2>. QED
    BY <2>1, LoadRowStep, CommitOpenStep, CommitEditStep, DroppedStep DEF RowsNext
<1>2. RowsInv => SharedRowsKeepTheirWrites
  BY DEF RowsInv
<1>. QED
  BY RowsInitInv, <1>1, <1>2, PTL DEF RowsSpec

-----------------------------------------------------------------------------
(* The cached list of cameras *)

ListPcs == {"free", "save", "load", "open", "write", "rename"}
Asker == [pc : ListPcs, file : 0 .. MaxSaves, at : Nat, base : Nat, alone : BOOLEAN]

ListTypeOK ==
  /\ now \in Nat /\ inodes \in 0 .. MaxSaves
  /\ content \in [1 .. MaxSaves -> [whole : BOOLEAN, at : Nat]]
  /\ temp \in [Procs -> 0 .. inodes] /\ cached \in 0 .. inodes
  /\ asker \in [ListThreads -> Asker]
  /\ \A w \in ListThreads : Saving(w) => asker[w].file \in 1 .. inodes
  /\ raced \in BOOLEAN /\ newest \in Nat /\ late \in BOOLEAN

\* A file has one name at most, raced or not.
NamesApart ==
  /\ \A p, q \in Procs : temp[p] = temp[q] /\ temp[p] # 0 => p = q
  /\ \A p \in Procs : temp[p] # 0 => temp[p] # cached

\* A save that did not race is alone in its process and has its file to itself.
AloneUnlessRaced ==
  /\ \A v, w \in ListThreads : Saving(v) /\ Saving(w) /\ Process(v) = Process(w) => v = w
  /\ \A w \in ListThreads :
       Saving(w) =>
         /\ temp[Process(w)] = asker[w].file
         /\ asker[w].alone
         /\ asker[w].pc = "rename" => content[asker[w].file] = [whole |-> TRUE, at |-> asker[w].at]

\* A list carries a date no newer than the clock and, when it is taken, no older than
\* any list published.
DatedInTime ==
  /\ newest <= now
  /\ \A f \in 1 .. MaxSaves : content[f].at <= now
  /\ \A w \in ListThreads :
       asker[w].pc \in {"open", "write", "rename"} => asker[w].base <= asker[w].at /\ asker[w].at <= now

ListInv ==
  /\ ListTypeOK
  /\ NamesApart
  /\ DatedInTime
  /\ ~raced => AloneUnlessRaced
  /\ CacheIsWhole

LEMMA ListInitInv == ASSUME ListInit PROVE ListInv
<1>. USE ListAssumption
<1>1. Free \in Asker /\ Free.pc = "free" /\ Empty \in [whole : BOOLEAN, at : Nat]
  BY DEF Free, Asker, Empty, ListPcs
<1>2. \A w \in ListThreads : ~Saving(w)
  BY <1>1 DEF ListInit, Saving
<1>3. content \in [1 .. MaxSaves -> [whole : BOOLEAN, at : Nat]] /\ asker \in [ListThreads -> Asker]
  BY <1>1, Zenon DEF ListInit
<1>6. /\ now = 0 /\ inodes = 0 /\ cached = 0 /\ raced = FALSE /\ newest = 0 /\ late = FALSE
      /\ temp = [p \in Procs |-> 0]
  BY DEF ListInit
<1>7. temp \in [Procs -> 0 .. inodes]
  BY <1>6
<1>8. now \in Nat /\ inodes \in 0 .. MaxSaves /\ cached \in 0 .. inodes
  BY <1>6
<1>9. raced \in BOOLEAN /\ newest \in Nat /\ late \in BOOLEAN
  BY <1>6, Zenon
<1>10. ListTypeOK
  BY <1>2, <1>3, <1>7, <1>8, <1>9 DEF ListTypeOK
<1>4. NamesApart /\ AloneUnlessRaced /\ DatedInTime
  BY <1>2, <1>6 DEF ListInit, NamesApart, AloneUnlessRaced, DatedInTime, Free, Empty
<1>5. CacheIsWhole
  BY DEF ListInit, CacheIsWhole
<1>. QED
  BY <1>4, <1>5, <1>10 DEF ListInv

LEMMA ProcessType == \A w \in ListThreads : Process(w) \in Procs
  BY DEF Procs

\* A thread goes on to a request of its own, or ends one, and saves nothing.
LEMMA QuietStep ==
  ASSUME ListInv, now' \in Nat, now <= now', UNCHANGED <<inodes, content, temp, cached, raced, newest, late>>,
         asker' \in [ListThreads -> Asker],
         \A w \in ListThreads :
           \/ asker'[w] = asker[w]
           \/ asker'[w].pc = "open" /\ asker'[w].base = newest /\ asker'[w].at = now
           \/ asker'[w].pc \in {"free", "save", "load"},
         CacheIsWhole'
  PROVE  ListInv'
<1>1. \A w \in ListThreads : Saving(w)' => asker'[w] = asker[w] /\ Saving(w)
  BY DEF Saving
<1>2. ListTypeOK'
  BY <1>1 DEF ListInv, ListTypeOK
<1>3. NamesApart'
  BY DEF ListInv, NamesApart
<1>4. ~raced' => AloneUnlessRaced'
  BY <1>1 DEF ListInv, AloneUnlessRaced
<1>5. DatedInTime'
  <2>1. newest <= now /\ newest \in Nat /\ now \in Nat
    BY DEF ListInv, ListTypeOK, DatedInTime
  <2>3. \A f \in 1 .. MaxSaves : content'[f].at <= now'
    BY <2>1 DEF ListInv, ListTypeOK, DatedInTime
  <2>2. ASSUME NEW w \in ListThreads, asker'[w].pc \in {"open", "write", "rename"}
        PROVE  asker'[w].base <= asker'[w].at /\ asker'[w].at <= now'
    <3>1. CASE asker'[w] = asker[w]
      <4>1. asker[w].base <= asker[w].at /\ asker[w].at <= now /\ asker[w].at \in Nat
        BY <2>2, <3>1 DEF ListInv, ListTypeOK, DatedInTime, Asker
      <4>. QED
        BY <2>1, <3>1, <4>1
    <3>2. CASE asker'[w].base = newest /\ asker'[w].at = now
      BY <2>1, <3>2
    <3>. QED
      BY <2>2, <3>1, <3>2
  <2>. QED
    BY <2>1, <2>2, <2>3 DEF DatedInTime
<1>. QED
  BY <1>2, <1>3, <1>4, <1>5 DEF ListInv

LEMMA GotoFacts ==
  ASSUME ListTypeOK, NEW w \in ListThreads, NEW pc \in ListPcs, Goto(w, pc)
  PROVE  /\ asker' \in [ListThreads -> Asker]
         /\ asker'[w] = [asker[w] EXCEPT !.pc = pc]
         /\ asker'[w].pc = pc /\ asker'[w].file = asker[w].file /\ asker'[w].alone = asker[w].alone
         /\ asker'[w].at = asker[w].at /\ asker'[w].base = asker[w].base
         /\ \A v \in ListThreads : v # w => asker'[v] = asker[v]
  BY DEF ListTypeOK, Goto, Asker

LEMMA TickStep == ASSUME ListInv, Tick PROVE ListInv'
<1>1. now' \in Nat /\ now <= now' /\ UNCHANGED <<inodes, content, temp, cached, asker, answer, raced, newest, late>>
  BY DEF Tick, ListInv, ListTypeOK
<1>2. CacheIsWhole'
  BY <1>1 DEF ListInv, CacheIsWhole
<1>3. asker' \in [ListThreads -> Asker]
  BY <1>1 DEF ListInv, ListTypeOK
<1>. QED
  BY <1>1, <1>2, <1>3, QuietStep

LEMMA KillStep == ASSUME ListInv, KillProcess PROVE ListInv'
<1>1. now' \in Nat /\ now <= now' /\ UNCHANGED <<inodes, content, temp, cached, answer, raced, newest, late>>
  BY DEF KillProcess, ListInv, ListTypeOK
<1>2. CacheIsWhole'
  BY <1>1 DEF ListInv, CacheIsWhole
<1>3. Free \in Asker /\ Free.pc = "free"
  BY ListAssumption DEF Free, Asker, ListPcs
<1>4. asker' \in [ListThreads -> Asker] /\ \A w \in ListThreads : asker'[w] = asker[w] \/ asker'[w].pc \in {"free", "save", "load"}
  BY <1>3 DEF KillProcess, ListInv, ListTypeOK
<1>. QED
  BY <1>1, <1>2, <1>4, QuietStep

LEMMA AskStep == ASSUME ListInv, NEW w \in ListThreads, AskIts(w) PROVE ListInv'
<1>1. now' \in Nat /\ now <= now' /\ UNCHANGED <<inodes, content, temp, cached, answer, raced, newest, late>>
  BY DEF AskIts, ListInv, ListTypeOK
<1>2. CacheIsWhole'
  BY <1>1 DEF ListInv, CacheIsWhole
<1>3. PICK pc \in {"save", "load", "free"} : Goto(w, pc)
  BY DEF AskIts
<1>4. asker' \in [ListThreads -> Asker] /\ \A v \in ListThreads : asker'[v] = asker[v] \/ asker'[v].pc \in {"free", "save", "load"}
  BY <1>3, GotoFacts DEF ListInv, ListPcs
<1>. QED
  BY <1>1, <1>2, <1>4, QuietStep

LEMMA DateStep == ASSUME ListInv, NEW w \in ListThreads, DateList(w) PROVE ListInv'
<1>1. now' \in Nat /\ now <= now' /\ UNCHANGED <<inodes, content, temp, cached, answer, raced, newest, late>>
  BY DEF DateList, ListInv, ListTypeOK
<1>2. CacheIsWhole'
  BY <1>1 DEF ListInv, CacheIsWhole
<1>3. now \in Nat /\ newest \in Nat
  BY DEF ListInv, ListTypeOK
<1>4. /\ asker' \in [ListThreads -> Asker]
      /\ asker'[w].pc = "open" /\ asker'[w].base = newest /\ asker'[w].at = now
      /\ \A v \in ListThreads : v # w => asker'[v] = asker[v]
  BY <1>3 DEF DateList, ListInv, ListTypeOK, Asker, ListPcs
<1>. QED
  BY <1>1, <1>2, <1>4, QuietStep

LEMMA LoadStep == ASSUME ListInv, NEW w \in ListThreads, LoadCache(w) PROVE ListInv'
<1>1. UNCHANGED <<now, inodes, content, temp, cached, raced, newest, late>>
  BY DEF LoadCache
<1>6. now' \in Nat /\ now <= now'
  BY <1>1 DEF ListInv, ListTypeOK
<1>2. \/ answer' \in {"nothing", "list"}
      \/ answer' = "no list" /\ cached # 0 /\ ~content[cached].whole
  <2>. DEFINE old == CacheExpired(content[cached].at) /\ ~StaleAllowed(content[cached].at)
  <2>1. answer' = IF cached = 0 THEN "nothing"
                  ELSE IF ~content[cached].whole THEN "no list"
                  ELSE IF old THEN "nothing" ELSE "list"
    BY Zenon DEF LoadCache
  <2>. HIDE DEF old
  <2>2. CASE cached = 0 \/ (content[cached].whole /\ old)
    BY <2>1, <2>2
  <2>3. CASE cached # 0 /\ ~content[cached].whole
    BY <2>1, <2>3
  <2>4. CASE cached # 0 /\ content[cached].whole /\ ~old
    BY <2>1, <2>4
  <2>. QED
    BY <2>2, <2>3, <2>4
<1>3. CacheIsWhole'
  BY <1>1, <1>2 DEF ListInv, CacheIsWhole
<1>4. Goto(w, "free")
  BY DEF LoadCache
<1>5. asker' \in [ListThreads -> Asker] /\ \A v \in ListThreads : asker'[v] = asker[v] \/ asker'[v].pc \in {"free", "save", "load"}
  BY <1>4, GotoFacts DEF ListInv, ListPcs
<1>. QED
  BY <1>1, <1>3, <1>5, <1>6, QuietStep

LEMMA CachedType == ListInv /\ cached # 0 => cached \in 1 .. MaxSaves
  BY ListAssumption DEF ListInv, ListTypeOK

\* What a writer puts into its file is in no other's file, unless two saves raced.
LEMMA OthersFiles ==
  ASSUME ListInv, ~raced, NEW w \in ListThreads, Saving(w)
  PROVE  /\ asker[w].file \in 1 .. MaxSaves /\ asker[w].file # cached
         /\ \A v \in ListThreads : v # w /\ Saving(v) => asker[v].file # asker[w].file
<1>1. temp[Process(w)] = asker[w].file /\ asker[w].file \in 1 .. inodes /\ inodes \in 0 .. MaxSaves
  BY DEF ListInv, ListTypeOK, AloneUnlessRaced
<1>2. asker[w].file \in 1 .. MaxSaves /\ asker[w].file # cached
  BY <1>1, ProcessType, ListAssumption DEF ListInv, NamesApart
<1>3. ASSUME NEW v \in ListThreads, v # w, Saving(v) PROVE asker[v].file # asker[w].file
  <2>1. temp[Process(v)] = asker[v].file /\ Process(v) # Process(w)
    BY <1>3 DEF ListInv, AloneUnlessRaced
  <2>2. temp[Process(v)] # temp[Process(w)]
    BY <1>1, <2>1, ProcessType DEF ListInv, NamesApart
  <2>. QED
    BY <1>1, <2>1, <2>2
<1>. QED
  BY <1>2, <1>3

LEMMA WriteSomeStep == ASSUME ListInv, NEW w \in ListThreads, WriteSome(w) PROVE ListInv'
<1>1. Saving(w) /\ asker[w].pc = "write" /\ content' = [content EXCEPT ![asker[w].file] = Empty]
      /\ UNCHANGED <<now, inodes, temp, cached, asker, answer, raced, newest, late>>
  BY DEF WriteSome, Saving
<1>2. Empty \in [whole : BOOLEAN, at : Nat]
  BY DEF Empty
<1>3. ListTypeOK' /\ NamesApart'
  BY <1>1, <1>2 DEF ListInv, ListTypeOK, NamesApart, Saving
<1>4. \A f \in 1 .. MaxSaves : f # asker[w].file => content'[f] = content[f]
  BY <1>1 DEF ListInv, ListTypeOK
<1>5. ASSUME ~raced PROVE AloneUnlessRaced' /\ CacheIsWhole'
  <2>1. cached # 0 => content'[cached] = content[cached]
    BY <1>1, <1>4, <1>5, OthersFiles, CachedType
  <2>2. \A v \in ListThreads : Saving(v) /\ v # w => content'[asker[v].file] = content[asker[v].file]
    BY <1>1, <1>4, <1>5, OthersFiles
  <2>3. AloneUnlessRaced'
    BY <1>1, <1>5, <2>2 DEF ListInv, AloneUnlessRaced, Saving
  <2>. QED
    BY <1>1, <2>1, <2>3 DEF ListInv, CacheIsWhole
<1>6. raced => CacheIsWhole'
  BY <1>1 DEF ListInv, CacheIsWhole
<1>7. DatedInTime'
  <2>1. \A f \in 1 .. MaxSaves : content'[f].at <= now
    BY <1>1 DEF ListInv, ListTypeOK, DatedInTime, Empty
  <2>. QED
    BY <1>1, <2>1 DEF ListInv, DatedInTime
<1>. QED
  BY <1>1, <1>3, <1>5, <1>6, <1>7 DEF ListInv

LEMMA WriteRestStep == ASSUME ListInv, NEW w \in ListThreads, WriteRest(w) PROVE ListInv'
<1>1. Saving(w) /\ asker[w].pc = "write" /\ Goto(w, "rename") /\ UNCHANGED <<now, inodes, temp, cached, answer, raced, newest, late>>
  BY DEF WriteRest, Saving
<1>2. PICK whole \in IF asker[w].alone THEN {TRUE} ELSE BOOLEAN :
        content' = [content EXCEPT ![asker[w].file] = [whole |-> whole, at |-> asker[w].at]]
  BY DEF WriteRest
<1>3. asker[w] \in Asker /\ asker[w].file \in 1 .. MaxSaves
  BY <1>1, ListAssumption DEF ListInv, ListTypeOK
<1>4. [whole |-> whole, at |-> asker[w].at] \in [whole : BOOLEAN, at : Nat]
  BY <1>3 DEF Asker
<1>5. /\ content' \in [1 .. MaxSaves -> [whole : BOOLEAN, at : Nat]]
      /\ content'[asker[w].file] = [whole |-> whole, at |-> asker[w].at]
      /\ \A f \in 1 .. MaxSaves : f # asker[w].file => content'[f] = content[f]
  BY <1>2, <1>3, <1>4 DEF ListInv, ListTypeOK
<1>6. /\ asker' \in [ListThreads -> Asker]
      /\ asker'[w].pc = "rename" /\ asker'[w].file = asker[w].file /\ asker'[w].alone = asker[w].alone
      /\ asker'[w].at = asker[w].at /\ asker'[w].base = asker[w].base
      /\ \A v \in ListThreads : v # w => asker'[v] = asker[v]
  BY <1>1, GotoFacts DEF ListInv, ListPcs
<1>7. \A v \in ListThreads : (Saving(v)' <=> Saving(v)) /\ asker'[v].file = asker[v].file
                             /\ asker'[v].alone = asker[v].alone /\ asker'[v].at = asker[v].at
                             /\ asker'[v].base = asker[v].base
  BY <1>1, <1>6 DEF Saving
<1>8. ListTypeOK' /\ NamesApart'
  BY <1>1, <1>5, <1>6, <1>7 DEF ListInv, ListTypeOK, NamesApart
<1>11. DatedInTime'
  <2>1. asker[w].at <= now /\ now' = now /\ newest' = newest
    BY <1>1 DEF ListInv, DatedInTime
  <2>2. \A f \in 1 .. MaxSaves : content'[f].at <= now
    BY <1>5, <2>1 DEF ListInv, DatedInTime
  <2>3. ASSUME NEW v \in ListThreads, asker'[v].pc \in {"open", "write", "rename"}
        PROVE  asker'[v].base <= asker'[v].at /\ asker'[v].at <= now
    BY <1>1, <1>6, <2>3 DEF ListInv, DatedInTime
  <2>. QED
    BY <2>1, <2>2, <2>3 DEF ListInv, DatedInTime
<1>9. ASSUME ~raced PROVE AloneUnlessRaced' /\ CacheIsWhole'
  <2>1. whole = TRUE
    BY <1>1, <1>2, <1>9 DEF ListInv, AloneUnlessRaced
  <2>2. CacheIsWhole'
    <3>1. cached # 0 => content'[cached] = content[cached]
      BY <1>1, <1>5, <1>9, OthersFiles, CachedType
    <3>. QED
      BY <1>1, <3>1 DEF ListInv, CacheIsWhole
  <2>3. \A v \in ListThreads : Saving(v)' /\ asker'[v].pc = "rename" =>
          content'[asker'[v].file] = [whole |-> TRUE, at |-> asker'[v].at]
    <3>1. ASSUME NEW v \in ListThreads, v # w, Saving(v), asker[v].pc = "rename"
          PROVE  content'[asker[v].file] = [whole |-> TRUE, at |-> asker[v].at]
      <4>1. asker[v].file # asker[w].file /\ asker[v].file \in 1 .. MaxSaves
        BY <1>1, <1>9, <3>1, OthersFiles
      <4>2. content'[asker[v].file] = content[asker[v].file]
        BY <1>5, <4>1
      <4>3. content[asker[v].file] = [whole |-> TRUE, at |-> asker[v].at]
        BY <1>9, <3>1 DEF ListInv, AloneUnlessRaced
      <4>. QED
        BY <4>2, <4>3
    <3>. QED
      BY ZenonT(40), <1>5, <1>6, <1>7, <2>1, <3>1
  <2>. QED
    BY <1>1, <1>7, <1>9, <2>2, <2>3 DEF ListInv, AloneUnlessRaced
<1>10. raced => CacheIsWhole'
  BY <1>1 DEF ListInv, CacheIsWhole
<1>. QED
  BY <1>1, <1>8, <1>9, <1>10, <1>11 DEF ListInv

LEMMA PublishStep == ASSUME ListInv, NEW w \in ListThreads, Publish(w) PROVE ListInv'
<1>. DEFINE f == temp[Process(w)]
            later == IF content[f].at > newest THEN content[f].at ELSE newest
<1>1. Saving(w) /\ asker[w].pc = "rename" /\ asker' = [asker EXCEPT ![w] = Free]
      /\ UNCHANGED <<now, inodes, content, raced>>
  BY DEF Publish, Saving, TempName
<1>2. \/ f = 0 /\ answer' = "error" /\ UNCHANGED <<temp, cached, newest, late>>
      \/ /\ f # 0 /\ cached' = f /\ temp' = [temp EXCEPT ![Process(w)] = 0]
         /\ newest' = later /\ late' = (asker[w].base # newest) /\ answer' = answer
  BY DEF Publish, TempName
<1>3. Free \in Asker /\ Free.pc = "free"
  BY ListAssumption DEF Free, Asker, ListPcs
<1>4. /\ asker' \in [ListThreads -> Asker] /\ asker'[w].pc = "free"
      /\ \A v \in ListThreads : v # w => asker'[v] = asker[v]
  BY <1>1, <1>3 DEF ListInv, ListTypeOK
<1>5. \A v \in ListThreads : Saving(v)' => v # w /\ Saving(v) /\ asker'[v] = asker[v]
  BY <1>4 DEF Saving
<1>6. temp' \in [Procs -> 0 .. inodes] /\ cached' \in 0 .. inodes
  BY <1>2, ProcessType DEF ListInv, ListTypeOK
<1>11. f # 0 => content[f] \in [whole : BOOLEAN, at : Nat]
  <2>1. f \in 0 .. inodes /\ inodes \in 0 .. MaxSaves
    BY ProcessType DEF ListInv, ListTypeOK
  <2>2. f # 0 => f \in 1 .. MaxSaves
    BY <2>1, ListAssumption
  <2>. QED
    BY <2>2 DEF ListInv, ListTypeOK
<1>12. newest' \in Nat /\ late' \in BOOLEAN
  BY <1>2, <1>11 DEF ListInv, ListTypeOK
<1>7. ListTypeOK'
  BY <1>1, <1>4, <1>5, <1>6, <1>12 DEF ListInv, ListTypeOK
<1>8. NamesApart'
  BY <1>2, ProcessType DEF ListInv, ListTypeOK, NamesApart
<1>9. ASSUME ~raced PROVE AloneUnlessRaced' /\ CacheIsWhole'
  <2>1. f = asker[w].file /\ f # 0 /\ content[f] = [whole |-> TRUE, at |-> asker[w].at]
    BY <1>1, <1>9 DEF ListInv, ListTypeOK, AloneUnlessRaced
  <2>2. CacheIsWhole'
    <3>1. asker[w].base <= asker[w].at
      BY <1>1 DEF ListInv, DatedInTime
    <3>2. newest' = later /\ content'[cached'].at = asker[w].at /\ content'[cached'].whole
          /\ answer' = answer /\ late' = (asker[w].base # newest)
      BY <1>1, <1>2, <2>1
    <3>3. asker[w].at \in Nat /\ newest \in Nat
      BY DEF ListInv, ListTypeOK, Asker
    <3>4. asker[w].base = newest => newest' = asker[w].at
      BY <2>1, <3>1, <3>2, <3>3
    <3>. QED
      BY <1>1, <1>9, <3>2, <3>4 DEF ListInv, CacheIsWhole
  <2>3. \A v \in ListThreads : Saving(v)' => Process(v) # Process(w)
    BY <1>1, <1>5, <1>9 DEF ListInv, AloneUnlessRaced
  <2>4. \A v \in ListThreads : Saving(v)' => temp'[Process(v)] = temp[Process(v)]
    BY <1>2, <2>3, ProcessType DEF ListInv, ListTypeOK
  <2>. QED
    BY <1>1, <1>5, <1>9, <2>2, <2>4 DEF ListInv, AloneUnlessRaced
<1>10. raced => CacheIsWhole'
  BY <1>1 DEF CacheIsWhole
<1>13. DatedInTime'
  <2>1. newest' <= now
    <3>1. newest <= now
      BY DEF ListInv, DatedInTime
    <3>2. f # 0 => content[f].at <= now
      BY ProcessType, ListAssumption DEF ListInv, ListTypeOK, DatedInTime
    <3>. QED
      BY <1>2, <3>1, <3>2
  <2>2. ASSUME NEW v \in ListThreads, asker'[v].pc \in {"open", "write", "rename"}
        PROVE  asker'[v].base <= asker'[v].at /\ asker'[v].at <= now
    <3>1. v # w /\ asker'[v] = asker[v]
      BY <1>4, <2>2
    <3>. QED
      BY <2>2, <3>1 DEF ListInv, DatedInTime
  <2>. QED
    BY <1>1, <2>1, <2>2 DEF ListInv, DatedInTime
<1>. QED
  BY <1>1, <1>7, <1>8, <1>9, <1>10, <1>13 DEF ListInv

LEMMA OpenTempStep == ASSUME ListInv, NEW w \in ListThreads, OpenTemp(w) PROVE ListInv'
<1>. DEFINE p == Process(w)
            f == IF temp[p] = 0 THEN inodes + 1 ELSE temp[p]
            others == {v \in ListThreads : Saving(v) /\ asker[v].file = f}
            fresh == [asker[w] EXCEPT !.pc = "write", !.file = f, !.alone = (others = {})]
<1>1. /\ asker[w].pc = "open" /\ f <= MaxSaves
      /\ inodes' = IF f > inodes THEN f ELSE inodes
      /\ temp' = [temp EXCEPT ![p] = f] /\ content' = [content EXCEPT ![f] = Empty]
      /\ raced' = (raced \/ \E v \in ListThreads \ {w} : Process(v) = Process(w) /\ Saving(v))
      /\ UNCHANGED <<now, cached, answer, newest, late>>
  BY DEF OpenTemp, TempName
<1>17. asker' = [v \in ListThreads |->
         IF v = w THEN fresh ELSE IF v \in others THEN [asker[v] EXCEPT !.alone = FALSE] ELSE asker[v]]
  BY DEF OpenTemp, TempName
<1>2. p \in Procs /\ temp[p] \in 0 .. inodes /\ inodes \in 0 .. MaxSaves /\ cached \in 0 .. inodes
      /\ now \in Nat /\ temp \in [Procs -> 0 .. inodes]
  BY ProcessType DEF ListInv, ListTypeOK
<1>18. temp[p] # 0 => temp[p] # cached
  BY <1>2 DEF ListInv, NamesApart
<1>3. f \in 1 .. MaxSaves /\ f \in 1 .. inodes' /\ inodes' \in 0 .. MaxSaves /\ inodes <= inodes' /\ f # cached
  <2>1. CASE temp[p] = 0
    <3>1. f = inodes + 1
      BY <2>1
    <3>. QED
      BY <1>1, <1>2, <3>1, ListAssumption
  <2>2. CASE temp[p] # 0
    <3>1. f = temp[p]
      BY <2>2
    <3>. QED
      BY <1>1, <1>2, <1>18, <2>2, <3>1, ListAssumption
  <2>. QED
    BY <2>1, <2>2
<1>4. /\ fresh \in Asker /\ fresh.pc = "write" /\ fresh.file = f /\ fresh.alone = (others = {})
      /\ fresh.at = asker[w].at /\ fresh.base = asker[w].base
  <2>1. asker[w] \in Asker /\ f \in 0 .. MaxSaves /\ (others = {}) \in BOOLEAN
    BY <1>3, ListAssumption DEF ListInv, ListTypeOK
  <2>. HIDE DEF f, others
  <2>. QED
    BY <2>1 DEF Asker, ListPcs
<1>5. \A v \in ListThreads : v # w =>
        /\ asker'[v] \in Asker /\ asker'[v].pc = asker[v].pc /\ asker'[v].file = asker[v].file
        /\ asker'[v].at = asker[v].at /\ asker'[v].base = asker[v].base
        /\ v \notin others => asker'[v] = asker[v]
  <2>. HIDE DEF f, others, fresh
  <2>. QED
    BY <1>17 DEF ListInv, ListTypeOK, Asker, ListPcs
<1>6. asker'[w] = fresh /\ asker' \in [ListThreads -> Asker]
  BY <1>17, <1>4, <1>5
<1>7. /\ temp' \in [Procs -> 0 .. inodes'] /\ temp'[p] = f
      /\ \A q \in Procs : q # p => temp'[q] = temp[q]
  <2>. HIDE DEF f
  <2>1. \A n \in 0 .. inodes : n \in 0 .. inodes'
    BY <1>2, <1>3
  <2>. QED
    BY <1>1, <1>2, <1>3, <2>1
<1>8. content' \in [1 .. MaxSaves -> [whole : BOOLEAN, at : Nat]]
      /\ \A g \in 1 .. MaxSaves : g # f => content'[g] = content[g]
  BY <1>1, <1>3 DEF ListInv, ListTypeOK, Empty
<1>9. ~Saving(w) /\ \A v \in ListThreads : v # w => (Saving(v)' <=> Saving(v))
  BY <1>1, <1>5 DEF Saving
<1>10. \A v \in ListThreads : Saving(v)' => asker'[v].file \in 1 .. inodes'
  <2>1. \A v \in ListThreads : Saving(v) => asker[v].file \in 1 .. inodes
    BY DEF ListInv, ListTypeOK
  <2>2. \A n \in 1 .. inodes : n \in 1 .. inodes'
    BY <1>2, <1>3
  <2>3. asker'[w].file \in 1 .. inodes'
    BY <1>3, <1>4, <1>6
  <2>4. \A v \in ListThreads : v # w /\ Saving(v)' => asker'[v].file \in 1 .. inodes'
    BY <1>5, <1>9, <2>1, <2>2
  <2>. QED
    BY <2>3, <2>4
<1>11. ListTypeOK'
  <2>2. now' \in Nat /\ raced' \in BOOLEAN /\ newest' \in Nat /\ late' \in BOOLEAN
    BY <1>1 DEF ListInv, ListTypeOK
  <2>1. cached' \in 0 .. inodes'
    BY <1>1, <1>2, <1>3
  <2>. QED
    BY <1>3, <1>6, <1>7, <1>8, <1>10, <2>1, <2>2 DEF ListTypeOK
<1>12. \A q \in Procs : q # p => temp[q] # f \/ temp[q] = 0
  <2>1. CASE temp[p] = 0
    BY <1>2, <2>1
  <2>2. CASE temp[p] # 0
    BY <1>2, <2>2 DEF ListInv, NamesApart
  <2>. QED
    BY <2>1, <2>2
<1>13. NamesApart'
  BY <1>1, <1>3, <1>7, <1>12 DEF ListInv, NamesApart
<1>14. CacheIsWhole'
  <2>1. cached # 0 => content'[cached] = content[cached]
    BY <1>3, <1>8, CachedType
  <2>. QED
    BY <1>1, <2>1 DEF ListInv, CacheIsWhole
<1>15. ASSUME ~raced' PROVE AloneUnlessRaced'
  <2>1. ~raced /\ \A v \in ListThreads : v # w /\ Saving(v) => Process(v) # p
    BY <1>1, <1>15
  <2>2. \A v \in ListThreads : Saving(v) => temp[Process(v)] = asker[v].file /\ asker[v].file \in 1 .. inodes
    BY <2>1 DEF ListInv, ListTypeOK, AloneUnlessRaced
  <2>3. others = {}
    BY <1>2, <1>9, <1>12, <2>1, <2>2, ProcessType
  <2>4. \A v \in ListThreads : v # w => asker'[v] = asker[v]
    BY <1>5, <2>3
  <2>5. \A v \in ListThreads : v # w /\ Saving(v) => asker[v].file # f
    BY <2>3
  <2>6. ASSUME NEW v \in ListThreads, Saving(v)'
        PROVE  /\ temp'[Process(v)] = asker'[v].file /\ asker'[v].alone
               /\ asker'[v].pc = "rename" => content'[asker'[v].file] = [whole |-> TRUE, at |-> asker'[v].at]
    <3>1. CASE v = w
      <4>1. fresh.pc = "write" /\ fresh.file = f /\ fresh.alone
        BY <1>4, <2>3
      <4>. QED
        BY <1>6, <1>7, <3>1, <4>1
    <3>2. CASE v # w
      <4>1. Saving(v) /\ asker'[v] = asker[v] /\ Process(v) # p /\ asker[v].file # f
        BY <1>9, <2>1, <2>4, <2>5, <2>6, <3>2
      <4>2. temp'[Process(v)] = temp[Process(v)]
        BY <1>7, <4>1, ProcessType
      <4>3. content'[asker[v].file] = content[asker[v].file]
        <5>1. asker[v].file \in 1 .. MaxSaves
          BY <2>2, <4>1, ListAssumption DEF ListInv, ListTypeOK
        <5>. QED
          BY <1>8, <4>1, <5>1
      <4>. QED
        BY <2>1, <4>1, <4>2, <4>3 DEF ListInv, AloneUnlessRaced
    <3>. QED
      BY <3>1, <3>2
  <2>7. \A u, v \in ListThreads : Saving(u)' /\ Saving(v)' /\ Process(u) = Process(v) => u = v
    BY <1>9, <2>1 DEF ListInv, AloneUnlessRaced
  <2>. QED
    BY <2>6, <2>7 DEF AloneUnlessRaced
<1>16. DatedInTime'
  <2>3. content'[f] = Empty
    BY <1>1, <1>3 DEF ListInv, ListTypeOK
  <2>4. \A g \in 1 .. MaxSaves : content[g].at <= now
    BY DEF ListInv, DatedInTime
  <2>1. \A g \in 1 .. MaxSaves : content'[g].at <= now
    BY <1>2, <1>8, <2>3, <2>4 DEF Empty
  <2>2. ASSUME NEW v \in ListThreads, asker'[v].pc \in {"open", "write", "rename"}
        PROVE  asker'[v].base <= asker'[v].at /\ asker'[v].at <= now
    BY ZenonT(40), <1>1, <1>4, <1>5, <1>6, <2>2 DEF ListInv, DatedInTime
  <2>. QED
    BY <1>1, <2>1, <2>2 DEF ListInv, DatedInTime
<1>. QED
  BY <1>11, <1>13, <1>14, <1>15, <1>16 DEF ListInv

\* For any processes and threads, and whichever is killed in the middle of a save: the
\* published list is whole, and the newest there has been where no newer one overtook
\* its save, unless two saves of one process overlapped (its_cctv_cache.py).
THEOREM ListSafety == ListSpec => []CacheIsWhole
<1>1. ListInv /\ [ListNext]_listVars => ListInv'
  <2>1. ListInv /\ UNCHANGED listVars => ListInv'
    <3>. SUFFICES ASSUME ListInv, UNCHANGED listVars PROVE ListInv'
      OBVIOUS
    <3>1. UNCHANGED <<now, inodes, content, temp, cached, asker, answer, raced, newest, late>>
      BY DEF listVars
    <3>2. ListTypeOK' /\ NamesApart' /\ DatedInTime' /\ CacheIsWhole'
      BY <3>1 DEF ListInv, ListTypeOK, NamesApart, DatedInTime, CacheIsWhole, Saving
    <3>3. AloneUnlessRaced' <=> AloneUnlessRaced
      BY <3>1 DEF AloneUnlessRaced, Saving
    <3>. QED
      BY <3>1, <3>2, <3>3 DEF ListInv
  <2>. QED
    BY <2>1, TickStep, KillStep, AskStep, DateStep, OpenTempStep, WriteSomeStep, WriteRestStep, PublishStep, LoadStep
    DEF ListNext
<1>2. ListInv => CacheIsWhole
  BY DEF ListInv
<1>. QED
  BY ListInitInv, <1>1, <1>2, PTL DEF ListSpec

-----------------------------------------------------------------------------
(* A report, its history and its place *)

RecordStatuses == {"NONE", "DRAFT"} \cup AllowedStatuses
ChangeRow == [from : RecordStatuses, to : AllowedStatuses, told : BOOLEAN, seen : Nat]

RecordTypeOK ==
  /\ record \in [status : RecordStatuses, deleted : BOOLEAN]
  /\ changes \in Seq(ChangeRow)
  /\ places \in Seq({0})
  /\ DOMAIN writing = RecordThreads

\* A change, made or about to be, starts from what its request saw last, which no end
\* was; only an end goes untold.
StartsWell(q, log) ==
  /\ q \in [from : RecordStatuses, to : AllowedStatuses, told : BOOLEAN, seen : Nat]
  /\ q.from \notin Ended /\ q.from # q.to
  /\ q.told \/ q.to \in Ended
  /\ q.seen > 0 => q.from = log[q.seen].to

\* What a request is about to write.
WritesWell(q, log) ==
  /\ q.op = "create" => q.status \in {"DRAFT", "SUBMITTED"} /\ q.places \in {0, 1}
  /\ q.op = "status" =>
       /\ StartsWell(Change(q), log) /\ q.seen <= Len(log)
       /\ q.drop \in BOOLEAN /\ (q.drop => q.to \in Ended)
  /\ q.op = "place" => q.new \in BOOLEAN /\ (q.new => q.seen = 0)

RecordInv ==
  /\ RecordTypeOK
  /\ \A w \in RecordThreads : WritesWell(writing[w], changes)
  /\ \A i \in 1 .. Len(changes) : StartsWell(changes[i], changes) /\ changes[i].seen < i
  /\ changes # <<>> => record.status = changes[Len(changes)].to
  /\ record.deleted => \E i \in 1 .. Len(changes) : changes[i].to \in Ended

LEMMA RecordInvAddsUp == RecordInv => ReportRecordAddsUp
<1>. SUFFICES ASSUME RecordInv PROVE ReportRecordAddsUp
  OBVIOUS
<1>1. \A i \in 1 .. Len(changes) : StartsWell(changes[i], changes) /\ changes[i].seen < i
  BY DEF RecordInv
<1>2. ASSUME NEW i \in 1 .. Len(changes), NEW j \in 1 .. Len(changes), i < j,
             \A k \in i + 1 .. j - 1 : ~changes[k].told, changes[j].seen >= i
      PROVE  changes[j].from = changes[i].to
  <2>. DEFINE k == changes[j].seen
  <2>1. k \in i .. j - 1 /\ changes[j].from = changes[k].to /\ changes[j].from \notin Ended
    BY <1>1, <1>2 DEF StartsWell
  <2>2. ASSUME k # i PROVE FALSE
    <3>1. k \in i + 1 .. j - 1 /\ k \in 1 .. Len(changes)
      BY <2>1, <2>2
    <3>2. changes[k].to \in Ended
      BY <1>1, <1>2, <3>1 DEF StartsWell
    <3>. QED
      BY <2>1, <3>2
  <2>. QED
    BY <2>1, <2>2
<1>3. \A i \in 1 .. Len(changes) : changes[i].from # changes[i].to /\ changes[i].seen \in Nat
  BY <1>1 DEF StartsWell
<1>4. \A i \in 2 .. Len(places) : places[i] = 0
  BY DEF RecordInv, RecordTypeOK
<1>5. changes # <<>> => record.status = changes[Len(changes)].to
  BY DEF RecordInv
<1>6. \A i, j \in 1 .. Len(changes) :
       /\ i < j /\ changes[i].told /\ changes[j].told
       /\ \A k \in i + 1 .. j - 1 : ~changes[k].told
       => changes[j].from = changes[i].to \/ changes[j].seen < i
  BY SMTT(30), <1>2, <1>3
<1>. QED
  BY <1>3, <1>4, <1>5, <1>6 DEF ReportRecordAddsUp

LEMMA RecordInvStaysDeleted == RecordInv => DeletedReportStaysDeleted
<1>. SUFFICES ASSUME RecordInv PROVE DeletedReportStaysDeleted
  OBVIOUS
<1>1. Len(changes) \in Nat /\ (Len(changes) > 0 => changes # <<>> /\ changes[Len(changes)] \in ChangeRow)
  BY DEF RecordInv, RecordTypeOK
<1>2. ASSUME record.deleted PROVE record.status \in AllowedStatuses
  <2>1. Len(changes) > 0
    BY <1>1, <1>2 DEF RecordInv
  <2>. QED
    BY <1>1, <2>1 DEF RecordInv, ChangeRow
<1>3. IsDraft => DraftListed
  BY <1>2 DEF IsDraft, DraftListed, AllowedStatuses
<1>4. ASSUME NEW s \in AllowedStatuses \ Ended, ListedUnder(s), NEW i \in 1 .. Len(changes), changes[i].to \in Ended
      PROVE  \E k \in 1 .. Len(changes) - 1 : changes[k].to \in Ended /\ changes[k + 1].seen < k
  <2>1. i # Len(changes)
    BY <1>1, <1>4 DEF RecordInv, ListedUnder
  <2>2. i \in 1 .. Len(changes) - 1 /\ i + 1 \in 1 .. Len(changes)
    BY <1>1, <2>1
  <2>3. StartsWell(changes[i + 1], changes) /\ changes[i + 1].seen < i + 1 /\ changes[i + 1].seen \in Nat
    BY <2>2 DEF RecordInv, StartsWell
  <2>4. changes[i + 1].seen # i
    BY <1>4, <2>3 DEF StartsWell
  <2>5. changes[i + 1].seen < i
    BY <2>2, <2>3, <2>4
  <2>. QED
    BY <1>4, <2>2, <2>5
<1>5. record.deleted => \E i \in 1 .. Len(changes) : changes[i].to \in Ended
  BY DEF RecordInv
<1>. QED
  BY <1>3, <1>4, <1>5 DEF DeletedReportStaysDeleted

LEMMA RecordInitInv == ASSUME RecordInit PROVE RecordInv
<1>1. record = NoRecord /\ changes = <<>> /\ places = <<>> /\ Len(changes) = 0
  BY DEF RecordInit
<1>2. NoRecord \in [status : RecordStatuses, deleted : BOOLEAN] /\ ~NoRecord.deleted
  BY DEF NoRecord, RecordStatuses
<1>3. DOMAIN writing = RecordThreads /\ \A w \in RecordThreads : writing[w].op = "none"
  BY DEF RecordInit, Reading
<1>4. RecordTypeOK
  BY <1>1, <1>2, <1>3 DEF RecordTypeOK
<1>5. \A w \in RecordThreads : WritesWell(writing[w], changes)
  BY <1>3 DEF WritesWell
<1>. QED
  BY <1>1, <1>2, <1>4, <1>5 DEF RecordInv

\* What a request begins with is read from the row as it is.
LEMMA BegunWritesWell ==
  ASSUME RecordInv,
         NEW q \in CreateWrites \cup SubmitWrites \cup StatusWrites \cup DropDraftWrites \cup DropWrites
                   \cup EditDraftWrites \cup EditWrites
  PROVE  WritesWell(q, changes)
<1>1. Len(changes) \in Nat /\ record.status \in RecordStatuses
  BY DEF RecordInv, RecordTypeOK
<1>2. ASSUME Len(changes) > 0 PROVE record.status = changes[Len(changes)].to
  BY <1>2 DEF RecordInv, RecordTypeOK
<1>3. ASSUME NEW to \in AllowedStatuses, to # record.status, record.status \notin Ended, NEW told \in BOOLEAN,
             NEW drop \in BOOLEAN, told \/ to \in Ended, drop => to \in Ended
      PROVE  WritesWell(StatusWrite(to, told, drop), changes)
  <2>. DEFINE p == StatusWrite(to, told, drop)
  <2>1. p = [op |-> "status", from |-> record.status, to |-> to, told |-> told, drop |-> drop, seen |-> Len(changes)]
    BY DEF StatusWrite
  <2>2. Change(p) = [from |-> record.status, to |-> to, told |-> told, seen |-> Len(changes)]
    BY <2>1 DEF Change
  <2>3. StartsWell(Change(p), changes)
    BY <1>1, <1>2, <1>3, <2>2 DEF StartsWell
  <2>. QED
    BY <1>1, <1>3, <2>1, <2>3 DEF WritesWell
<1>4. CASE q \in CreateWrites
  BY <1>4 DEF CreateWrites, WritesWell
<1>5. CASE q \in SubmitWrites
  BY <1>3, <1>5 DEF SubmitWrites, IsDraft, Ended, AllowedStatuses
<1>6. CASE q \in StatusWrites
  BY <1>3, <1>6 DEF StatusWrites, NewStatuses
<1>7. CASE q \in DropDraftWrites
  BY <1>3, <1>7 DEF DropDraftWrites, IsDraft, Ended, AllowedStatuses
<1>8. CASE q \in DropWrites
  BY <1>3, <1>8 DEF DropWrites, Ended, AllowedStatuses
<1>9. CASE q \in EditDraftWrites \cup EditWrites
  <2>1. q = [op |-> "place", new |-> places = <<>>, seen |-> Len(places)]
    BY <1>9 DEF EditDraftWrites, EditWrites, PlaceWrites
  <2>. QED
    BY <2>1 DEF WritesWell
<1>. QED
  BY <1>4, <1>5, <1>6, <1>7, <1>8, <1>9

LEMMA BeginStep == ASSUME RecordInv, NEW w \in RecordThreads, Begin(w) PROVE RecordInv'
<1>1. PICK q \in CreateWrites \cup SubmitWrites \cup StatusWrites \cup DropDraftWrites \cup DropWrites
                 \cup EditDraftWrites \cup EditWrites : writing' = [writing EXCEPT ![w] = q]
  BY DEF Begin
<1>2. UNCHANGED <<record, changes, places>>
  BY DEF Begin
<1>3. WritesWell(q, changes)
  BY BegunWritesWell
<1>4. \A p \in RecordThreads : WritesWell(writing'[p], changes)
  BY <1>1, <1>3 DEF RecordInv, RecordTypeOK
<1>5. \A p \in RecordThreads : WritesWell(writing'[p], changes')
  BY <1>2, <1>4
<1>6. RecordTypeOK'
  BY <1>1, <1>2 DEF RecordInv, RecordTypeOK
<1>. QED
  BY <1>2, <1>5, <1>6 DEF RecordInv

\* A request that ends leaves the others' as they are.
LEMMA WroteFacts ==
  ASSUME RecordInv, NEW w \in RecordThreads, NEW op, Wrote(w, op)
  PROVE  /\ DOMAIN writing' = RecordThreads /\ writing'[w].op = "none"
         /\ \A p \in RecordThreads : p # w => writing'[p] = writing[p]
  BY DEF RecordInv, RecordTypeOK, Wrote, Reading

LEMMA FreeWritesWell == ASSUME NEW q, q.op = "none", NEW log PROVE WritesWell(q, log)
  BY DEF WritesWell

\* Changes that were made stay, so what was read of them stays true.
LEMMA LongerLog ==
  ASSUME NEW log, NEW more, Len(log) \in Nat, Len(more) \in Nat, Len(log) <= Len(more),
         \A i \in 1 .. Len(log) : more[i] = log[i]
  PROVE  /\ \A q : StartsWell(q, log) /\ q.seen <= Len(log) => StartsWell(q, more)
         /\ \A q : WritesWell(q, log) => WritesWell(q, more)
<1>1. ASSUME NEW q, StartsWell(q, log), q.seen <= Len(log) PROVE StartsWell(q, more)
  BY <1>1 DEF StartsWell
<1>2. ASSUME NEW q, WritesWell(q, log) PROVE WritesWell(q, more)
  <2>1. ASSUME q.op = "status" PROVE StartsWell(Change(q), more) /\ q.seen <= Len(more)
    <3>1. StartsWell(Change(q), log) /\ q.seen <= Len(log) /\ Change(q).seen = q.seen
      BY <1>2, <2>1 DEF WritesWell, Change
    <3>2. q.seen \in Nat
      BY <3>1 DEF StartsWell
    <3>. QED
      BY <1>1, <3>1, <3>2
  <2>. QED
    BY <1>2, <2>1 DEF WritesWell
<1>. QED
  BY <1>1, <1>2

\* A step that changes no status.
LEMMA SameStatus ==
  ASSUME RecordInv, NEW w \in RecordThreads, NEW op, Wrote(w, op), UNCHANGED <<record, changes>>,
         places' \in Seq({0})
  PROVE  RecordInv'
<1>1. RecordTypeOK'
  BY WroteFacts DEF RecordInv, RecordTypeOK
<1>2. \A p \in RecordThreads : WritesWell(writing'[p], changes')
  BY WroteFacts, FreeWritesWell DEF RecordInv
<1>. QED
  BY <1>1, <1>2 DEF RecordInv

LEMMA SavePlaceStep == ASSUME RecordInv, NEW w \in RecordThreads, SavePlace(w) PROVE RecordInv'
<1>1. writing[w].op = "place" /\ Wrote(w, "place") /\ UNCHANGED <<record, changes>>
  BY DEF SavePlace, Wrote
<1>2. places' \in Seq({0})
  <2>1. CASE writing[w].new
    BY <1>1, <2>1 DEF SavePlace, RecordInv, RecordTypeOK, WritesWell
  <2>2. CASE ~writing[w].new
    BY <2>2 DEF SavePlace, RecordInv, RecordTypeOK
  <2>. QED
    BY <2>1, <2>2
<1>. QED
  BY <1>1, <1>2, SameStatus

LEMMA FailStep == ASSUME RecordInv, NEW w \in RecordThreads, Fail(w) PROVE RecordInv'
  BY SameStatus DEF Fail, RecordInv, RecordTypeOK

\* A row that is made has no changes yet.
LEMMA CreateStep == ASSUME RecordInv, NEW w \in RecordThreads, Create(w) PROVE RecordInv'
<1>1. /\ writing[w].op = "create" /\ Wrote(w, "create") /\ record.status = "NONE" /\ UNCHANGED changes
      /\ record' = [status |-> writing[w].status, deleted |-> FALSE]
      /\ places' = [i \in 1 .. writing[w].places |-> 0]
  BY DEF Create, Wrote
<1>2. writing[w].status \in {"DRAFT", "SUBMITTED"} /\ writing[w].places \in {0, 1}
  BY <1>1 DEF RecordInv, WritesWell
<1>3. changes = <<>>
  <2>1. ASSUME changes # <<>> PROVE FALSE
    <3>1. Len(changes) \in Nat /\ Len(changes) > 0 /\ record.status = changes[Len(changes)].to
      BY <2>1 DEF RecordInv, RecordTypeOK
    <3>2. changes[Len(changes)] \in ChangeRow
      BY <3>1 DEF RecordInv, RecordTypeOK
    <3>. QED
      BY <1>1, <3>1, <3>2 DEF ChangeRow, AllowedStatuses
  <2>. QED
    BY <2>1
<1>4. places' \in Seq({0})
  BY <1>1, <1>2
<1>5. record' \in [status : RecordStatuses, deleted : BOOLEAN]
  BY <1>1, <1>2 DEF RecordStatuses, AllowedStatuses
<1>6. RecordTypeOK'
  BY <1>1, <1>4, <1>5, WroteFacts DEF RecordInv, RecordTypeOK
<1>7. \A p \in RecordThreads : WritesWell(writing'[p], changes')
  BY <1>1, WroteFacts, FreeWritesWell DEF RecordInv
<1>8. ~record'.deleted
  BY <1>1
<1>. QED
  BY <1>1, <1>3, <1>6, <1>7, <1>8 DEF RecordInv

LEMMA SetStatusStep == ASSUME RecordInv, NEW w \in RecordThreads, SetStatus(w) PROVE RecordInv'
<1>. DEFINE q == writing[w]
            n == Len(changes)
<1>1. /\ q.op = "status" /\ Wrote(w, "status") /\ UNCHANGED places
      /\ record' = [status |-> q.to, deleted |-> record.deleted \/ q.drop]
      /\ changes' = Append(changes, Change(q))
  BY DEF SetStatus, Wrote
<1>2. StartsWell(Change(q), changes) /\ q.seen <= n /\ q.drop \in BOOLEAN /\ (q.drop => q.to \in Ended)
  BY <1>1 DEF RecordInv, WritesWell
<1>3. Change(q) \in ChangeRow /\ Change(q).to = q.to /\ Change(q).seen = q.seen /\ n \in Nat
  BY <1>2 DEF StartsWell, Change, ChangeRow, RecordInv, RecordTypeOK
<1>4. /\ changes' \in Seq(ChangeRow) /\ Len(changes') = n + 1 /\ changes'[n + 1] = Change(q)
      /\ \A i \in 1 .. n : changes'[i] = changes[i]
  BY <1>1, <1>3 DEF RecordInv, RecordTypeOK
<1>5. \A p : StartsWell(p, changes) /\ p.seen <= n => StartsWell(p, changes')
  BY SMTT(30), <1>3, <1>4, LongerLog
<1>6. \A p : WritesWell(p, changes) => WritesWell(p, changes')
  BY <1>3, <1>4, LongerLog
<1>7. q.to \in AllowedStatuses /\ q.seen \in Nat
  BY <1>3 DEF ChangeRow
<1>8. RecordTypeOK'
  <2>1. record.deleted \in BOOLEAN
    BY DEF RecordInv, RecordTypeOK
  <2>2. record' \in [status : RecordStatuses, deleted : BOOLEAN]
    BY <1>1, <1>2, <1>7, <2>1 DEF RecordStatuses
  <2>. QED
    BY <1>1, <1>4, <2>2, WroteFacts DEF RecordInv, RecordTypeOK
<1>9. \A p \in RecordThreads : WritesWell(writing'[p], changes')
  <2>1. \A p \in RecordThreads : WritesWell(writing[p], changes)
    BY DEF RecordInv
  <2>. QED
    BY <1>1, <1>6, <2>1, WroteFacts, FreeWritesWell
<1>10. ASSUME NEW i \in 1 .. Len(changes') PROVE StartsWell(changes'[i], changes') /\ changes'[i].seen < i
  <2>1. CASE i = n + 1
    BY <1>2, <1>3, <1>4, <1>5, <1>7, <2>1
  <2>2. CASE i # n + 1
    <3>1. i \in 1 .. n /\ changes'[i] = changes[i]
      BY <1>3, <1>4, <2>2
    <3>2. StartsWell(changes[i], changes) /\ changes[i].seen < i /\ changes[i].seen \in Nat
      BY <3>1 DEF RecordInv, StartsWell
    <3>3. changes[i].seen <= n
      BY <1>3, <3>1, <3>2
    <3>. QED
      BY <1>5, <3>1, <3>2, <3>3
  <2>. QED
    BY <2>1, <2>2
<1>11. record'.status = changes'[Len(changes')].to
  BY <1>1, <1>3, <1>4
<1>12. record'.deleted => \E i \in 1 .. Len(changes') : changes'[i].to \in Ended
  <2>1. CASE q.drop
    BY <1>2, <1>3, <1>4, <2>1
  <2>2. CASE ~q.drop
    <3>1. record'.deleted => record.deleted
      BY <1>1, <2>2
    <3>2. record.deleted => \E i \in 1 .. n : changes[i].to \in Ended
      BY DEF RecordInv
    <3>3. 1 .. n \subseteq 1 .. Len(changes')
      BY <1>3, <1>4
    <3>. QED
      BY <1>4, <3>1, <3>2, <3>3
  <2>. QED
    BY <2>1, <2>2
<1>. QED
  BY <1>8, <1>9, <1>10, <1>11, <1>12 DEF RecordInv

LEMMA RecordInvStays == ASSUME RecordInv, [RecordNext]_recordVars PROVE RecordInv'
<1>1. ASSUME UNCHANGED recordVars PROVE RecordInv'
  BY <1>1 DEF RecordInv, RecordTypeOK, recordVars
<1>. QED
  BY <1>1, BeginStep, CreateStep, SetStatusStep, SavePlaceStep, FailStep DEF RecordNext

\* For any threads and number of changes: the history of a report is a chain up to its
\* present status wherever no two requests overlapped, and two places need two
\* requests that saw none (report_upload/service.py).
THEOREM RecordAddsUp == RecordSpec => []ReportRecordAddsUp
<1>. QED
  BY RecordInitInv, RecordInvStays, RecordInvAddsUp, PTL DEF RecordSpec

\* A deleted report is open again only if a request overlapped the deletion.
THEOREM DeletedStays == RecordSpec => []DeletedReportStaysDeleted
<1>. QED
  BY RecordInitInv, RecordInvStays, RecordInvStaysDeleted, PTL DEF RecordSpec

-----------------------------------------------------------------------------
(* The cameras, their regions and the wall *)

RoiRow == [type : RoiTypes, active : BOOLEAN, seen : Nat]

CctvTypeOK ==
  /\ cams \in [Cams -> [state : {"new", "there", "gone"}, code : Codes \cup {NoCam}]]
  /\ rois \in Seq(RoiRow)
  /\ drawn.puts \in Nat /\ drawn.seen \in Nat
  /\ slot.cctv \in Cams \cup {NoCam}
  /\ DOMAIN edit = Admins

\* What a put of regions has read: rows are only added, so the row it found for a type
\* is there, and a row it has not found was added since.  If no put was committed
\* meanwhile all is as it was read.
RoiOk(q) ==
  /\ DOMAIN q.want \subseteq RoiTypes /\ \A t \in DOMAIN q.want : q.want[t] \in BOOLEAN
  /\ q.seen \in 0 .. Len(rois) /\ q.puts \in 0 .. drawn.puts
  /\ \A t \in DOMAIN q.want :
       \/ q.row[t] = 0 /\ \A i \in 1 .. q.seen : rois[i].type # t
       \/ q.row[t] \in 1 .. q.seen /\ rois[q.row[t]].type = t
  /\ q.puts = drawn.puts =>
       /\ q.seen = Len(rois)
       /\ q.same = {t \in DOMAIN q.want : q.row[t] # 0 /\ rois[q.row[t]].active = q.want[t]}

\* What a put of the slot has read: it writes both columns or none, and
\* has the code of its camera as long as that is there.
SlotOk(q) ==
  /\ q.cctv \in Cams \cup {NoCam}
  /\ q.cctv \in Cams => cams[q.cctv].state # "new"
  /\ q.sets <=> q.recodes
  /\ q.cctv \in There \cup {NoCam} => q.code = CodeOf(q.cctv)

RequestsOk ==
  \A a \in Admins :
    /\ edit[a].op = "rois" => RoiOk(edit[a])
    /\ edit[a].op = "slot" => SlotOk(edit[a])

CodesUnique ==
  /\ \A i \in There : cams[i].code \in Codes
  /\ \A i, j \in There : cams[i].code = cams[j].code => i = j

SecondSeen == \A i, j \in 1 .. Len(rois) : i < j /\ rois[i].type = rois[j].type => rois[j].seen < i

AsDrawn ==
  \/ drawn.puts # drawn.seen + 1
  \/ \E t \in RoiTypes : Cardinality(RowsOf(t)) > 1
  \/ {rois[i].type : i \in {k \in 1 .. Len(rois) : rois[k].active}} = drawn.active

SlotRight == slot.cctv \in There \cup {NoCam} /\ slot.code = CodeOf(slot.cctv)

CctvInv == CctvTypeOK /\ RequestsOk /\ CodesUnique /\ SecondSeen /\ AsDrawn /\ SlotRight

LEMMA CctvInitInv == ASSUME CctvInit PROVE CctvInv
<1>. USE CctvAssumption
<1>1. PICK c \in Codes : cams = [i \in Cams |-> IF i = MainCam THEN [state |-> "there", code |-> c]
                                                ELSE [state |-> "new", code |-> NoCam]]
  BY DEF CctvInit
<1>2. /\ rois = <<>> /\ drawn = [active |-> {}, puts |-> 0, seen |-> 0]
      /\ slot = [cctv |-> NoCam, code |-> NoCam]
      /\ edit = [a \in Admins |-> Idle]
  BY DEF CctvInit
<1>3. CctvTypeOK
  <2>1. cams \in [Cams -> [state : {"new", "there", "gone"}, code : Codes \cup {NoCam}]]
    BY <1>1
  <2>2. rois \in Seq(RoiRow) /\ drawn.puts \in Nat /\ drawn.seen \in Nat
    BY <1>2
  <2>3. slot.cctv \in Cams \cup {NoCam} /\ DOMAIN edit = Admins
    BY <1>2
  <2>. QED
    BY <2>1, <2>2, <2>3 DEF CctvTypeOK
<1>4. There = {MainCam} /\ cams[MainCam].code = c
  BY <1>1 DEF There
<1>5. RequestsOk /\ SecondSeen /\ AsDrawn
  BY <1>2 DEF RequestsOk, Idle, SecondSeen, AsDrawn
<1>6. CodesUnique /\ SlotRight
  BY <1>2, <1>4 DEF CodesUnique, SlotRight, CodeOf
<1>. QED
  BY <1>3, <1>5, <1>6 DEF CctvInv

LEMMA CctvInvAgrees == ASSUME CctvInv PROVE CctvTablesAgree
BY DEF CctvInv, SecondSeen, AsDrawn, SlotRight, CctvTablesAgree

-----------------------------------------------------------------------------
\* The sequence of a finite set has each of its elements, once.
LEMMA SetToSeqFacts ==
  ASSUME NEW S, IsFiniteSet(S)
  PROVE  /\ SetToSeq(S) \in Seq(S)
         /\ \A i, j \in 1 .. Len(SetToSeq(S)) : SetToSeq(S)[i] = SetToSeq(S)[j] => i = j
         /\ \A x \in S : \E i \in 1 .. Len(SetToSeq(S)) : SetToSeq(S)[i] = x
<1>1. PICK n \in Nat : n = Cardinality(S)
  BY FS_CardinalityType
<1>2. \E f \in [1 .. n -> S] : IsInjective(f)
  <2>1. ExistsBijection(1 .. n, S)
    BY <1>1, FS_CardinalityType
  <2>. QED
    BY <2>1, Fun_BijectionProperties DEF ExistsBijection, IsInjective
<1>3. PICK s : s = SetToSeq(S)
  OBVIOUS
<1>4. s \in [1 .. n -> S] /\ IsInjective(s)
  BY <1>1, <1>2, <1>3 DEF SetToSeq
<1>5. s \in Seq(S) /\ Len(s) = n
  BY <1>4
<1>6. \A i, j \in 1 .. n : s[i] = s[j] => i = j
  BY <1>4 DEF IsInjective
<1>7. s \in Surjection(1 .. n, S)
  <2>1. s \in Injection(1 .. n, S)
    BY <1>4, <1>6 DEF Injection
  <2>2. IsFiniteSet(1 .. n) /\ Cardinality(1 .. n) = n
    BY FS_Interval
  <2>. QED
    BY <1>1, <2>1, <2>2, FS_Injection
<1>8. \A x \in S : \E i \in 1 .. n : s[i] = x
  BY <1>7 DEF Surjection
<1>. QED
  BY <1>3, <1>5, <1>6, <1>8

LEMMA TwoElements ==
  ASSUME NEW S, IsFiniteSet(S), NEW x \in S, NEW y \in S, x # y
  PROVE  Cardinality(S) > 1
<1>1. Cardinality(S) \in Nat
  BY FS_CardinalityType
<1>2. Cardinality(S) # 0
  BY FS_EmptySet
<1>3. Cardinality(S) # 1
  BY FS_Singleton
<1>. QED
  BY <1>1, <1>2, <1>3

\* A commit, and a request that ends: the other requests are as they were.
LEMMA OthersAsk ==
  ASSUME CctvInv, NEW a \in Admins, NEW op, Edited(a, op),
         \A q : RoiOk(q) => RoiOk(q)', \A q : SlotOk(q) => SlotOk(q)'
  PROVE  RequestsOk' /\ DOMAIN edit' = Admins
<1>1. edit' = [edit EXCEPT ![a] = Idle] /\ DOMAIN edit = Admins
  BY DEF Edited, CctvInv, CctvTypeOK
<1>2. edit'[a].op = "none" /\ \A b \in Admins \ {a} : edit'[b] = edit[b]
  BY <1>1 DEF Idle
<1>3. ASSUME NEW b \in Admins
      PROVE  \E q : q = edit'[b] /\ (q.op = "rois" => RoiOk(q)') /\ (q.op = "slot" => SlotOk(q)')
  <2>1. PICK q : q = edit'[b]
    OBVIOUS
  <2>2. b # a => (q.op = "rois" => RoiOk(q)) /\ (q.op = "slot" => SlotOk(q))
    BY <1>2, <2>1 DEF CctvInv, RequestsOk
  <2>. QED
    BY <1>2, <2>1, <2>2
<1>4. ASSUME NEW b \in Admins
      PROVE  (edit[b].op = "rois" => RoiOk(edit[b]))' /\ (edit[b].op = "slot" => SlotOk(edit[b]))'
  <2>1. PICK q : q = edit'[b] /\ (q.op = "rois" => RoiOk(q)') /\ (q.op = "slot" => SlotOk(q)')
    BY <1>3
  <2>2. ASSUME q.op = "rois" PROVE RoiOk(edit[b])'
    BY <2>1, <2>2 DEF RoiOk
  <2>3. ASSUME q.op = "slot" PROVE SlotOk(edit[b])'
    BY <2>1, <2>3 DEF SlotOk, CodeOf, There
  <2>. QED
    BY <2>1, <2>2, <2>3
<1>. QED
  BY <1>1, <1>4 DEF RequestsOk

LEMMA RowsStay ==
  ASSUME UNCHANGED <<rois, drawn>>, SecondSeen, AsDrawn
  PROVE  SecondSeen' /\ AsDrawn'
<1>1. \A t : RowsOf(t)' = RowsOf(t)
  BY DEF RowsOf
<1>. QED
  BY <1>1 DEF SecondSeen, AsDrawn

LEMMA RoisStay ==
  ASSUME UNCHANGED <<rois, drawn>>, NEW q, RoiOk(q) PROVE RoiOk(q)'
BY DEF RoiOk

LEMMA SlotsStay ==
  ASSUME UNCHANGED cams, NEW q, SlotOk(q) PROVE SlotOk(q)'
BY DEF SlotOk, There, CodeOf

-----------------------------------------------------------------------------
(* Reading *)

LEMMA RoiRequestOk ==
  ASSUME CctvInv, NEW q \in RoiRequests
  PROVE  q.op = "rois" /\ RoiOk(q)
<1>1. PICK want \in UNION {[ts -> BOOLEAN] : ts \in SUBSET RoiTypes} :
        q \in {[op |-> "rois", want |-> want, row |-> row, seen |-> Len(rois), puts |-> drawn.puts,
                same |-> {t \in DOMAIN want : row[t] # 0 /\ rois[row[t]].active = want[t]}] :
                 row \in {r \in [DOMAIN want -> 0 .. Len(rois)] :
                            \A t \in DOMAIN want : IF RowsOf(t) = {} THEN r[t] = 0 ELSE r[t] \in RowsOf(t)}}
  BY DEF RoiRequests
<1>2. PICK row \in [DOMAIN want -> 0 .. Len(rois)] :
        /\ \A t \in DOMAIN want : IF RowsOf(t) = {} THEN row[t] = 0 ELSE row[t] \in RowsOf(t)
        /\ q = [op |-> "rois", want |-> want, row |-> row, seen |-> Len(rois), puts |-> drawn.puts,
                same |-> {t \in DOMAIN want : row[t] # 0 /\ rois[row[t]].active = want[t]}]
  BY <1>1
<1>3. PICK ts \in SUBSET RoiTypes : want \in [ts -> BOOLEAN]
  OBVIOUS
<1>4. /\ q.op = "rois" /\ q.want = want /\ q.row = row /\ q.seen = Len(rois) /\ q.puts = drawn.puts
      /\ q.same = {t \in DOMAIN want : row[t] # 0 /\ rois[row[t]].active = want[t]}
  BY <1>2
<1>5. Len(rois) \in Nat /\ drawn.puts \in Nat
  BY DEF CctvInv, CctvTypeOK
<1>6. ASSUME NEW t \in DOMAIN want
      PROVE  \/ row[t] = 0 /\ \A i \in 1 .. Len(rois) : rois[i].type # t
             \/ row[t] \in 1 .. Len(rois) /\ rois[row[t]].type = t
  BY <1>2 DEF RowsOf
<1>7. DOMAIN want \subseteq RoiTypes /\ \A t \in DOMAIN want : want[t] \in BOOLEAN
  BY <1>3
<1>. QED
  BY <1>4, <1>5, <1>6, <1>7 DEF RoiOk

LEMMA SlotRequestOk ==
  ASSUME CctvInv, NEW q \in SlotRequests
  PROVE  q.op = "slot" /\ SlotOk(q)
<1>. USE CctvAssumption
<1>1. PICK i \in There \cup {NoCam} :
        q = [op |-> "slot", cctv |-> i, code |-> CodeOf(i), sets |-> i # slot.cctv, recodes |-> CodeOf(i) # slot.code]
  BY DEF SlotRequests
<1>2. /\ q.op = "slot" /\ q.cctv = i /\ q.code = CodeOf(i)
      /\ q.sets = (i # slot.cctv) /\ q.recodes = (CodeOf(i) # slot.code)
  BY <1>1
<1>3. i \in Cams \cup {NoCam} /\ (i \in Cams => cams[i].state # "new")
  BY DEF There
<1>4. q.sets <=> q.recodes
  <2>1. slot.code = CodeOf(slot.cctv) /\ slot.cctv \in There \cup {NoCam}
    BY DEF CctvInv, SlotRight
  <2>2. \A x, y \in There \cup {NoCam} : CodeOf(x) = CodeOf(y) => x = y
    <3>1. NoCam \notin There /\ \A x \in There : CodeOf(x) = cams[x].code /\ CodeOf(x) \in Codes
      BY DEF There, CodeOf, CctvInv, CodesUnique
    <3>2. CodeOf(NoCam) = NoCam
      BY DEF CodeOf
    <3>. QED
      BY <3>1, <3>2 DEF CctvInv, CodesUnique
  <2>. QED
    BY <1>2, <2>1, <2>2
<1>. QED
  BY <1>2, <1>3, <1>4 DEF SlotOk

LEMMA EditStep == ASSUME CctvInv, NEW a \in Admins, Edit(a) PROVE CctvInv'
<1>1. PICK q \in RoiRequests \cup SlotRequests \cup CreateRequests \cup DeleteRequests :
        edit' = [edit EXCEPT ![a] = q]
  BY DEF Edit
<1>2. cams' = cams /\ rois' = rois /\ drawn' = drawn /\ slot' = slot
  BY DEF Edit
<1>3. (q.op = "rois" => RoiOk(q)) /\ (q.op = "slot" => SlotOk(q))
  <2>1. CASE q \in RoiRequests \cup SlotRequests
    BY <2>1, RoiRequestOk, SlotRequestOk
  <2>2. CASE q \in CreateRequests \cup DeleteRequests
    <3>1. q.op \in {"create", "delete"}
      BY <2>2 DEF CreateRequests, DeleteRequests
    <3>. QED
      BY <3>1
  <2>. QED
    BY <2>1, <2>2
<1>4. DOMAIN edit = Admins
  BY DEF CctvInv, CctvTypeOK
<1>5. DOMAIN edit' = Admins /\ edit'[a] = q /\ \A b \in Admins \ {a} : edit'[b] = edit[b]
  BY <1>1, <1>4
<1>6. \A b \in Admins : (edit'[b].op = "rois" => RoiOk(edit'[b])) /\ (edit'[b].op = "slot" => SlotOk(edit'[b]))
  BY <1>3, <1>5 DEF CctvInv, RequestsOk
<1>7. RequestsOk'
  BY <1>2, <1>6 DEF RequestsOk, RoiOk, SlotOk, There, CodeOf
<1>8. CctvTypeOK' /\ CodesUnique' /\ SecondSeen' /\ AsDrawn' /\ SlotRight'
  <2>1. CctvTypeOK' /\ SecondSeen' /\ AsDrawn'
    BY <1>2, <1>5, RowsStay DEF CctvInv, CctvTypeOK
  <2>2. There' = There /\ CodeOf(slot.cctv)' = CodeOf(slot.cctv)
    BY <1>2 DEF There, CodeOf
  <2>. QED
    BY <1>2, <2>1, <2>2 DEF CctvInv, CodesUnique, SlotRight
<1>. QED
  BY <1>7, <1>8 DEF CctvInv

-----------------------------------------------------------------------------
(* Committing regions *)

\* What a put makes of a row: its type stays, and if it is of a type asked for it gets
\* what was asked, or has it already.
LEMMA PutRowFacts ==
  ASSUME CctvInv, NEW q, RoiOk(q), NEW i \in 1 .. Len(rois)
  PROVE  /\ PutRow(q, i) \in RoiRow
         /\ PutRow(q, i).type = rois[i].type /\ PutRow(q, i).seen = rois[i].seen
         /\ PutRow(q, i).active =
              IF rois[i].type \notin DOMAIN q.want THEN FALSE
              ELSE IF q.row[rois[i].type] = i /\ rois[i].type \notin q.same THEN q.want[rois[i].type]
              ELSE rois[i].active
<1>1. rois[i] \in RoiRow
  BY DEF CctvInv, CctvTypeOK
<1>2. PICK r \in RoiRow : r = rois[i]
  BY <1>1
<1>3. PutRow(q, i) = IF r.type \notin DOMAIN q.want THEN [r EXCEPT !.active = FALSE]
                     ELSE IF q.row[r.type] = i /\ r.type \notin q.same THEN [r EXCEPT !.active = q.want[r.type]]
                     ELSE r
  BY <1>2 DEF PutRow, KeptRow
<1>4. \A v \in BOOLEAN : /\ [r EXCEPT !.active = v] \in RoiRow
                         /\ [r EXCEPT !.active = v].type = r.type /\ [r EXCEPT !.active = v].seen = r.seen
                         /\ [r EXCEPT !.active = v].active = v
  BY DEF RoiRow
<1>5. r.type \in DOMAIN q.want => q.want[r.type] \in BOOLEAN
  BY DEF RoiOk
<1>6. CASE r.type \notin DOMAIN q.want
  BY <1>2, <1>3, <1>4, <1>6
<1>7. CASE r.type \in DOMAIN q.want /\ q.row[r.type] = i /\ r.type \notin q.same
  BY <1>2, <1>3, <1>4, <1>5, <1>7
<1>8. CASE r.type \in DOMAIN q.want /\ ~(q.row[r.type] = i /\ r.type \notin q.same)
  BY <1>2, <1>3, <1>8
<1>. QED
  BY <1>6, <1>7, <1>8

\* The rows a put adds: one for each type of which it saw none.
LEMMA NewRowFacts ==
  ASSUME CctvInv, NEW q, RoiOk(q)
  PROVE  /\ IsFiniteSet(NewRows(q)) /\ NewRows(q) \subseteq RoiRow
         /\ \A r \in NewRows(q) : /\ r.type \in DOMAIN q.want /\ q.row[r.type] = 0
                                  /\ r.active = q.want[r.type] /\ r.seen = q.seen
         /\ \A r, s \in NewRows(q) : r.type = s.type => r = s
         /\ \A t \in DOMAIN q.want : q.row[t] = 0 => \E r \in NewRows(q) : r.type = t
<1>1. /\ DOMAIN q.want \subseteq RoiTypes /\ \A t \in DOMAIN q.want : q.want[t] \in BOOLEAN
      /\ q.seen \in Nat
  BY DEF RoiOk, CctvInv, CctvTypeOK
<1>2. \A r \in NewRows(q) : \E t \in DOMAIN q.want :
        q.row[t] = 0 /\ r = [type |-> t, active |-> q.want[t], seen |-> q.seen]
  BY DEF NewRows
<1>3. NewRows(q) \subseteq RoiRow
  BY <1>1, <1>2 DEF RoiRow
<1>4. \A r \in NewRows(q) : /\ r.type \in DOMAIN q.want /\ q.row[r.type] = 0
                            /\ r.active = q.want[r.type] /\ r.seen = q.seen
  BY <1>2
<1>5. \A r, s \in NewRows(q) : r.type = s.type => r = s
  BY <1>2
<1>6. \A t \in DOMAIN q.want : q.row[t] = 0 => [type |-> t, active |-> q.want[t], seen |-> q.seen] \in NewRows(q)
  BY DEF NewRows
<1>7. IsFiniteSet(NewRows(q))
  <2>1. PICK f : f = [r \in NewRows(q) |-> r.type]
    OBVIOUS
  <2>2. f \in [NewRows(q) -> RoiTypes] /\ \A r, s \in NewRows(q) : f[r] = f[s] => r = s
    BY <1>1, <1>4, <1>5, <2>1
  <2>3. f \in Injection(NewRows(q), RoiTypes)
    BY <2>2, Fun_IsInj
  <2>. QED
    BY <2>3, FS_Injection, CctvAssumption
<1>8. \A t \in DOMAIN q.want : q.row[t] = 0 => \E r \in NewRows(q) : r.type = t
  BY <1>6
<1>. QED
  BY <1>3, <1>4, <1>5, <1>7, <1>8

\* Two sequences one after the other.
LEMMA JoinFacts ==
  ASSUME NEW T, NEW a \in Seq(T), NEW b \in Seq(T), NEW n \in Nat, n = Len(a)
  PROVE  /\ a \o b \in Seq(T) /\ Len(a \o b) = n + Len(b) /\ Len(b) \in Nat
         /\ \A i \in 1 .. n : (a \o b)[i] = a[i]
         /\ \A i \in 1 .. n + Len(b) : i > n => i - n \in 1 .. Len(b) /\ (a \o b)[i] = b[i - n]
<1>1. /\ a \o b \in Seq(T) /\ Len(a \o b) = n + Len(b)
      /\ \A i \in 1 .. n + Len(b) : (a \o b)[i] = IF i <= n THEN a[i] ELSE b[i - n]
  BY ConcatProperties
<1>2. Len(b) \in Nat
  BY LenProperties
<1>3. \A i \in 1 .. n : i \in 1 .. n + Len(b) /\ i <= n
  BY <1>2
<1>4. \A i \in 1 .. n + Len(b) : i > n => i - n \in 1 .. Len(b) /\ ~(i <= n)
  BY <1>2
<1>. QED
  BY <1>1, <1>2, <1>3, <1>4

\* The table after a put: the rows there were, each as PutRow leaves it, and the new ones.
PutTable(q) == [i \in 1 .. Len(rois) |-> PutRow(q, i)] \o SetToSeq(NewRows(q))

IsPutTable(q, rs) ==
  /\ rs \in Seq(RoiRow) /\ Len(rs) \in Nat /\ Len(rois) <= Len(rs)
  /\ \A i \in 1 .. Len(rois) : rs[i] = PutRow(q, i)
  /\ \A i \in 1 .. Len(rs) : i > Len(rois) => rs[i] \in NewRows(q)
  /\ \A i, j \in 1 .. Len(rs) : i > Len(rois) /\ j > Len(rois) /\ rs[i] = rs[j] => i = j
  /\ \A r \in NewRows(q) : \E i \in 1 .. Len(rs) : i > Len(rois) /\ rs[i] = r

LEMMA PutRoisFacts == ASSUME CctvInv, NEW q, RoiOk(q) PROVE IsPutTable(q, PutTable(q))
<1>0. PICK rs : rs = PutTable(q)
  OBVIOUS
<1>1. Len(rois) \in Nat
  BY DEF CctvInv, CctvTypeOK
<1>2. PICK n \in Nat : n = Len(rois)
  BY <1>1
<1>3. PICK olds : olds = [i \in 1 .. n |-> PutRow(q, i)]
  OBVIOUS
<1>4. olds \in Seq(RoiRow) /\ Len(olds) = n /\ \A i \in 1 .. n : olds[i] = PutRow(q, i)
  <2>1. olds \in [1 .. n -> RoiRow]
    BY <1>2, <1>3, PutRowFacts
  <2>. QED
    BY <1>3, <2>1
<1>5. PICK news : news = SetToSeq(NewRows(q))
  OBVIOUS
<1>6. /\ news \in Seq(NewRows(q))
      /\ \A i, j \in 1 .. Len(news) : news[i] = news[j] => i = j
      /\ \A r \in NewRows(q) : \E i \in 1 .. Len(news) : news[i] = r
  <2>1. PICK S : S = NewRows(q) /\ IsFiniteSet(S)
    BY NewRowFacts
  <2>. QED
    BY <1>5, <2>1, SetToSeqFacts
<1>7. news \in Seq(RoiRow) /\ Len(news) \in Nat /\ \A i \in 1 .. Len(news) : news[i] \in NewRows(q)
  BY <1>6, NewRowFacts, SeqMonotonic, ElementOfSeq, LenProperties
<1>8. /\ rs \in Seq(RoiRow) /\ Len(rs) = n + Len(news)
      /\ \A i \in 1 .. n : rs[i] = olds[i]
      /\ \A i \in 1 .. n + Len(news) : i > n => i - n \in 1 .. Len(news) /\ rs[i] = news[i - n]
  <2>1. rs = olds \o news
    BY <1>0, <1>2, <1>3, <1>5 DEF PutTable
  <2>2. PICK T : T = RoiRow
    OBVIOUS
  <2>3. olds \in Seq(T) /\ news \in Seq(T) /\ n = Len(olds)
    BY <1>4, <1>7, <2>2
  <2>4. /\ olds \o news \in Seq(T) /\ Len(olds \o news) = n + Len(news)
        /\ \A i \in 1 .. n : (olds \o news)[i] = olds[i]
        /\ \A i \in 1 .. n + Len(news) : i > n => i - n \in 1 .. Len(news) /\ (olds \o news)[i] = news[i - n]
    BY ONLY n \in Nat, <2>3, JoinFacts
  <2>. QED
    BY ONLY <2>1, <2>2, <2>4
<1>9. \A i \in 1 .. Len(rs) : i > n => i - n \in 1 .. Len(news) /\ rs[i] = news[i - n]
  BY <1>8
<1>10. \A k \in 1 .. Len(news) : n + k \in 1 .. Len(rs) /\ n + k > n /\ rs[n + k] = news[k]
  <2>1. \A k \in 1 .. Len(news) : n + k \in 1 .. Len(rs) /\ n + k > n /\ (n + k) - n = k
    BY <1>7, <1>8
  <2>. QED
    BY <1>9, <2>1
<1>12. \A i \in 1 .. n : rs[i] = PutRow(q, i)
  BY <1>4, <1>8
<1>13. \A i, j \in 1 .. Len(rs) : i > n /\ j > n /\ rs[i] = rs[j] => i = j
  <2>1. SUFFICES ASSUME NEW i \in 1 .. Len(rs), NEW j \in 1 .. Len(rs), i > n, j > n, rs[i] = rs[j]
                 PROVE  i = j
    OBVIOUS
  <2>2. i - n \in 1 .. Len(news) /\ j - n \in 1 .. Len(news) /\ news[i - n] = news[j - n]
    BY <1>9, <2>1
  <2>3. i - n = j - n
    BY <1>6, <2>2
  <2>4. i \in Nat /\ j \in Nat
    BY <1>7, <1>8
  <2>. QED
    BY <2>3, <2>4
<1>14. \A r \in NewRows(q) : \E i \in 1 .. Len(rs) : i > n /\ rs[i] = r
  BY <1>6, <1>10
<1>15. Len(rs) \in Nat /\ n <= Len(rs)
  BY <1>7, <1>8
<1>16. \A i \in 1 .. Len(rs) : i > n => rs[i] \in NewRows(q)
  BY <1>7, <1>9
<1>. QED
  BY <1>0, <1>2, <1>8, <1>12, <1>13, <1>14, <1>15, <1>16 DEF IsPutTable

LEMMA PutRoisStep == ASSUME CctvInv, NEW a \in Admins, PutRois(a) PROVE CctvInv'
<1>0. PICK q : q = edit[a]
  OBVIOUS
<1>1. Edited(a, "rois") /\ q.op = "rois" /\ cams' = cams /\ slot' = slot
  BY <1>0 DEF PutRois, Edited
<1>2. RoiOk(q)
  BY <1>0, <1>1 DEF CctvInv, RequestsOk
<1>3. /\ rois' = [i \in 1 .. Len(rois) |-> PutRow(q, i)] \o SetToSeq(NewRows(q))
      /\ drawn' = [active |-> {t \in DOMAIN q.want : q.want[t]}, puts |-> drawn.puts + 1, seen |-> q.puts]
  BY <1>0 DEF PutRois
<1>4. PICK n : n = Len(rois)
  OBVIOUS
<1>5. /\ rois' \in Seq(RoiRow) /\ Len(rois') \in Nat /\ n <= Len(rois')
      /\ \A i \in 1 .. n : rois'[i] = PutRow(q, i)
      /\ \A i \in 1 .. Len(rois') : i > n => rois'[i] \in NewRows(q)
      /\ \A i, j \in 1 .. Len(rois') : i > n /\ j > n /\ rois'[i] = rois'[j] => i = j
      /\ \A r \in NewRows(q) : \E i \in 1 .. Len(rois') : i > n /\ rois'[i] = r
  <2>1. IsPutTable(q, PutTable(q))
    BY <1>2, PutRoisFacts
  <2>2. rois' = PutTable(q)
    BY <1>3 DEF PutTable
  <2>. QED
    BY <1>4, <2>1, <2>2 DEF IsPutTable
<1>6. n \in Nat /\ drawn.puts \in Nat /\ q.puts \in Nat /\ q.seen \in 0 .. n
  BY <1>2, <1>4 DEF RoiOk, CctvInv, CctvTypeOK
<1>7. /\ drawn'.active = {t \in DOMAIN q.want : q.want[t]} /\ drawn'.puts = drawn.puts + 1 /\ drawn'.seen = q.puts
  BY <1>3
<1>15. \A i \in 1 .. n :
         /\ rois'[i].type = rois[i].type /\ rois'[i].seen = rois[i].seen
         /\ rois'[i].active =
              IF rois[i].type \notin DOMAIN q.want THEN FALSE
              ELSE IF q.row[rois[i].type] = i /\ rois[i].type \notin q.same THEN q.want[rois[i].type]
              ELSE rois[i].active
  <2>1. SUFFICES ASSUME NEW i \in 1 .. n
                 PROVE  /\ rois'[i].type = rois[i].type /\ rois'[i].seen = rois[i].seen
                        /\ rois'[i].active =
                             IF rois[i].type \notin DOMAIN q.want THEN FALSE
                             ELSE IF q.row[rois[i].type] = i /\ rois[i].type \notin q.same THEN q.want[rois[i].type]
                             ELSE rois[i].active
    OBVIOUS
  <2>2. i \in 1 .. Len(rois) /\ rois'[i] = PutRow(q, i)
    BY <1>4, <1>5
  <2>3. /\ PutRow(q, i).type = rois[i].type /\ PutRow(q, i).seen = rois[i].seen
        /\ PutRow(q, i).active =
             IF rois[i].type \notin DOMAIN q.want THEN FALSE
             ELSE IF q.row[rois[i].type] = i /\ rois[i].type \notin q.same THEN q.want[rois[i].type]
             ELSE rois[i].active
    BY <1>2, <2>2, PutRowFacts
  <2>. QED
    BY ONLY <2>2, <2>3
<1>8. \A i \in 1 .. n : rois'[i].type = rois[i].type /\ rois'[i].seen = rois[i].seen /\ i \in 1 .. Len(rois')
  <2>1. n <= Len(rois') /\ Len(rois') \in Nat /\ n \in Nat
    BY <1>5, <1>6
  <2>2. \A i \in 1 .. n : i \in 1 .. Len(rois')
    BY ONLY <2>1
  <2>. QED
    BY ONLY <2>2, <1>15
<1>9. RequestsOk' /\ DOMAIN edit' = Admins
  <2>1. ASSUME NEW x, RoiOk(x) PROVE RoiOk(x)'
    <3>1. x.seen \in 0 .. Len(rois') /\ x.puts \in 0 .. drawn.puts
      BY <1>4, <1>5, <1>6, <2>1 DEF RoiOk
    <3>2. \A i \in 1 .. x.seen : i \in 1 .. n /\ rois'[i].type = rois[i].type
      BY <1>4, <1>6, <1>8, <2>1 DEF RoiOk
    <3>3. x.puts \in 0 .. drawn'.puts /\ x.puts # drawn'.puts
      BY <1>6, <1>7, <3>1
    <3>. QED
      BY SMTT(30), <2>1, <3>1, <3>2, <3>3 DEF RoiOk
  <2>2. ASSUME NEW x, SlotOk(x) PROVE SlotOk(x)'
    BY <1>1, <2>2, SlotsStay
  <2>. QED
    BY <1>1, <2>1, <2>2, OthersAsk
<1>10. CctvTypeOK'
  BY <1>1, <1>5, <1>6, <1>7, <1>9 DEF CctvInv, CctvTypeOK
<1>11. ASSUME NEW i \in 1 .. Len(rois'), NEW j \in 1 .. Len(rois'), i < j, rois'[i].type = rois'[j].type
       PROVE  rois'[j].seen < i
  <2>1. CASE j <= n
    <3>1. i \in 1 .. n /\ j \in 1 .. n
      BY <1>5, <1>6, <1>11, <2>1
    <3>. QED
      BY <1>4, <1>8, <1>11, <3>1 DEF CctvInv, SecondSeen
  <2>2. CASE j > n
    <3>1. rois'[j] \in NewRows(q)
      BY <1>5, <2>2
    <3>2. rois'[j].seen = q.seen /\ rois'[j].type \in DOMAIN q.want /\ q.row[rois'[j].type] = 0
      BY <1>2, <3>1, NewRowFacts
    <3>3. CASE i <= n
      <4>1. i \in 1 .. n /\ rois[i].type = rois'[j].type
        BY <1>5, <1>6, <1>8, <1>11, <3>3
      <4>2. i \notin 1 .. q.seen
        BY <1>2, <1>6, <3>2, <4>1 DEF RoiOk
      <4>. QED
        BY <1>6, <3>2, <4>1, <4>2
    <3>4. CASE i > n
      <4>1. rois'[i] \in NewRows(q)
        BY <1>5, <3>4
      <4>2. rois'[i] = rois'[j]
        BY <1>2, <1>11, <3>1, <4>1, NewRowFacts
      <4>3. i = j
        BY <1>5, <2>2, <3>4, <4>2
      <4>. QED
        BY <1>11, <4>3
    <3>. QED
      BY <1>6, <3>3, <3>4
  <2>. QED
    BY <1>6, <2>1, <2>2
<1>12. AsDrawn'
  <2>1. CASE q.puts # drawn.puts
    BY <1>6, <1>7, <2>1 DEF AsDrawn
  <2>2. CASE \E t \in RoiTypes : Cardinality(RowsOf(t)') > 1
    BY <2>2 DEF AsDrawn
  <2>3. CASE q.puts = drawn.puts /\ \A t \in RoiTypes : ~(Cardinality(RowsOf(t)') > 1)
    \* One row of each type.
    <3>1. ASSUME NEW i \in 1 .. Len(rois'), NEW j \in 1 .. Len(rois'), rois'[i].type = rois'[j].type
          PROVE  i = j
      <4>1. rois'[i].type \in RoiTypes
        <5>1. rois'[i] \in RoiRow
          BY <1>5
        <5>. QED
          BY <5>1 DEF RoiRow
      <4>2. PICK t \in RoiTypes : t = rois'[i].type
        BY <4>1
      <4>3. RowsOf(t)' = {k \in 1 .. Len(rois') : rois'[k].type = t}
        BY DEF RowsOf
      <4>4. PICK S : S = RowsOf(t)'
        OBVIOUS
      <4>5. IsFiniteSet(1 .. Len(rois')) /\ S \in SUBSET (1 .. Len(rois'))
        BY <1>5, <4>3, <4>4, FS_Interval
      <4>6. IsFiniteSet(S) /\ i \in S /\ j \in S
        BY <3>1, <4>2, <4>3, <4>4, <4>5, FS_Subset
      <4>. QED
        BY <2>3, <4>4, <4>6, TwoElements
    <3>2. q.seen = n /\ q.same = {t \in DOMAIN q.want : q.row[t] # 0 /\ rois[q.row[t]].active = q.want[t]}
      BY <1>2, <1>4, <2>3 DEF RoiOk
    <3>3. \A t \in DOMAIN q.want :
            /\ q.want[t] \in BOOLEAN
            /\ \/ q.row[t] = 0 /\ \A i \in 1 .. n : rois[i].type # t
               \/ q.row[t] # 0 /\ q.row[t] \in 1 .. n /\ rois[q.row[t]].type = t
      BY <1>2, <1>6, <3>2 DEF RoiOk
    <3>4. \A i \in 1 .. n :
            rois'[i].active =
              IF rois[i].type \notin DOMAIN q.want THEN FALSE
              ELSE IF q.row[rois[i].type] = i /\ rois[i].type \notin q.same THEN q.want[rois[i].type]
              ELSE rois[i].active
      BY <1>15
    <3>5. ASSUME NEW i \in 1 .. Len(rois'), rois'[i].active
          PROVE  rois'[i].type \in DOMAIN q.want /\ q.want[rois'[i].type]
      <4>1. CASE i > n
        <5>1. rois'[i] \in NewRows(q)
          BY <1>5, <4>1
        <5>. QED
          BY <1>2, <3>5, <5>1, NewRowFacts
      <4>2. CASE i \in 1 .. n
        <5>1. PICK t : t = rois[i].type /\ t = rois'[i].type
          BY <1>8, <4>2
        <5>2. t \in DOMAIN q.want
          BY <3>4, <3>5, <4>2, <5>1
        <5>3. q.row[t] = i
          <6>1. q.row[t] \in 1 .. n /\ rois[q.row[t]].type = t
            BY <3>3, <4>2, <5>1, <5>2
          <6>2. q.row[t] \in 1 .. Len(rois') /\ rois'[q.row[t]].type = t
            BY <1>8, <6>1
          <6>. QED
            BY <3>1, <5>1, <6>2
        <5>4. CASE t \in q.same
          <6>1. rois[i].active = q.want[t]
            BY <3>2, <5>3, <5>4
          <6>2. rois'[i].active = rois[i].active
            BY <3>4, <4>2, <5>1, <5>2, <5>4
          <6>. QED
            BY <3>5, <5>1, <5>2, <6>1, <6>2
        <5>5. CASE t \notin q.same
          <6>1. rois'[i].active = q.want[t]
            BY <3>4, <4>2, <5>1, <5>2, <5>3, <5>5
          <6>. QED
            BY <3>5, <5>1, <5>2, <6>1
        <5>. QED
          BY <5>4, <5>5
      <4>. QED
        BY <1>6, <4>1, <4>2
    <3>6. ASSUME NEW t \in DOMAIN q.want, q.want[t]
          PROVE  \E i \in 1 .. Len(rois') : rois'[i].active /\ rois'[i].type = t
      <4>1. CASE q.row[t] = 0
        <5>1. PICK r \in NewRows(q) : r.type = t
          BY <1>2, <4>1, NewRowFacts
        <5>2. r.active = q.want[t]
          BY <1>2, <5>1, NewRowFacts
        <5>3. PICK i \in 1 .. Len(rois') : rois'[i] = r
          BY <1>5
        <5>. QED
          BY <3>6, <5>1, <5>2, <5>3
      <4>2. CASE q.row[t] # 0
        <5>1. PICK i \in 1 .. n : i = q.row[t] /\ rois[i].type = t
          BY <3>3, <4>2
        <5>2. i \in 1 .. Len(rois') /\ rois'[i].type = t
          BY <1>8, <5>1
        <5>3. t \in q.same => rois[i].active = q.want[t]
          BY <3>2, <5>1
        <5>4. rois'[i].active = q.want[t]
          BY <3>4, <5>1, <5>3
        <5>. QED
          BY <3>6, <5>2, <5>4
      <4>. QED
        BY <4>1, <4>2
    <3>7. {rois'[i].type : i \in {k \in 1 .. Len(rois') : rois'[k].active}} = {t \in DOMAIN q.want : q.want[t]}
      BY <3>5, <3>6
    <3>. QED
      BY <1>7, <3>7 DEF AsDrawn
  <2>. QED
    BY <2>1, <2>2, <2>3
<1>13. CodesUnique' /\ SlotRight'
  BY <1>1 DEF CctvInv, CodesUnique, SlotRight, There, CodeOf
<1>14. SecondSeen'
  BY <1>11 DEF SecondSeen
<1>. QED
  BY <1>9, <1>10, <1>12, <1>13, <1>14 DEF CctvInv

-----------------------------------------------------------------------------
(* The other commits *)

LEMMA PutSlotStep == ASSUME CctvInv, NEW a \in Admins, PutSlot(a) PROVE CctvInv'
<1>. USE CctvAssumption
<1>. DEFINE q == edit[a]
<1>1. /\ Edited(a, "slot") /\ q.op = "slot"
      /\ cams' = cams /\ rois' = rois /\ drawn' = drawn
  BY DEF PutSlot, Edited
<1>2. /\ q.sets /\ q.cctv # NoCam => q.cctv \in There
      /\ slot' = [cctv |-> IF q.sets THEN q.cctv ELSE slot.cctv, code |-> IF q.recodes THEN q.code ELSE slot.code]
  BY DEF PutSlot
<1>3. SlotOk(q)
  BY <1>1 DEF CctvInv, RequestsOk
<1>. HIDE DEF q
<1>4. slot'.cctv = (IF q.sets THEN q.cctv ELSE slot.cctv) /\ slot'.code = (IF q.recodes THEN q.code ELSE slot.code)
  BY <1>2
<1>5. slot'.cctv \in There \cup {NoCam}
  BY <1>2, <1>3, <1>4 DEF SlotOk, CctvInv, SlotRight
<1>6. slot'.code = CodeOf(slot'.cctv)
  <2>2. CASE q.sets
    BY <1>3, <1>4, <1>5, <2>2 DEF SlotOk
  <2>3. CASE ~q.sets
    BY <1>3, <1>4, <2>3 DEF SlotOk, CctvInv, SlotRight
  <2>. QED
    BY <2>2, <2>3
<1>7. RequestsOk' /\ DOMAIN edit' = Admins
  <2>1. (\A x : RoiOk(x) => RoiOk(x)') /\ \A x : SlotOk(x) => SlotOk(x)'
    BY <1>1, RoisStay, SlotsStay
  <2>. QED
    BY <1>1, <2>1, OthersAsk
<1>8. CctvTypeOK'
  BY <1>1, <1>5, <1>7 DEF CctvInv, CctvTypeOK, There
<1>9. SlotRight' /\ CodesUnique'
  BY <1>1, <1>5, <1>6 DEF CctvInv, SlotRight, CodesUnique, There, CodeOf
<1>. QED
  BY <1>1, <1>7, <1>8, <1>9, RowsStay DEF CctvInv

\* A step on the cameras: what it must keep for the requests under way and for the slot.
LEMMA CamsStep ==
  ASSUME CctvInv, NEW a \in Admins, NEW op, Edited(a, op), UNCHANGED <<rois, drawn>>,
         cams' \in [Cams -> [state : {"new", "there", "gone"}, code : Codes \cup {NoCam}]],
         slot'.cctv \in Cams \cup {NoCam},
         CodesUnique', SlotRight',
         \A i \in Cams : cams[i].state # "new" => cams'[i].state # "new",
         \A i \in There' : i \in There \/ cams[i].state = "new",
         \A i \in There \cap There' : cams'[i].code = cams[i].code
  PROVE  CctvInv'
<1>. USE CctvAssumption
<1>1. ASSUME NEW x, SlotOk(x) PROVE SlotOk(x)'
  <2>1. x.cctv \in Cams \cup {NoCam} /\ (x.cctv \in Cams => cams'[x.cctv].state # "new")
    BY <1>1 DEF SlotOk
  <2>2. (x.sets <=> x.recodes) /\ (x.cctv \in There' \cup {NoCam} => x.code = CodeOf(x.cctv)')
    <3>2. (x.sets <=> x.recodes) /\ (x.cctv \in There \cup {NoCam} => x.code = CodeOf(x.cctv))
      BY <1>1 DEF SlotOk
    <3>3. CASE x.cctv = NoCam
      BY <3>2, <3>3 DEF CodeOf
    <3>4. CASE x.cctv \in There'
      <4>1. x.cctv \in Cams /\ x.cctv # NoCam
        BY <3>4 DEF There
      <4>2. x.cctv \in There
        BY <1>1, <3>4, <4>1 DEF SlotOk
      <4>3. CodeOf(x.cctv)' = CodeOf(x.cctv)
        BY <3>4, <4>1, <4>2 DEF CodeOf
      <4>. QED
        BY <3>2, <4>2, <4>3
    <3>. QED
      BY <3>2, <3>3, <3>4
  <2>. QED
    BY <2>1, <2>2 DEF SlotOk
<1>2. ASSUME NEW x, RoiOk(x) PROVE RoiOk(x)'
  BY <1>2, RoisStay
<1>3. RequestsOk' /\ DOMAIN edit' = Admins
  BY <1>1, <1>2, OthersAsk
<1>4. CctvTypeOK'
  BY <1>3 DEF CctvInv, CctvTypeOK
<1>. QED
  BY <1>3, <1>4, RowsStay DEF CctvInv

LEMMA CreateCamStep == ASSUME CctvInv, NEW a \in Admins, CreateCam(a) PROVE CctvInv'
<1>. USE CctvAssumption
<1>1. /\ Edited(a, "create") /\ edit[a].code \in FreeCodes
      /\ rois' = rois /\ drawn' = drawn /\ slot' = slot
  BY DEF CreateCam
<1>2. PICK i \in Cams : cams[i].state = "new" /\ cams' = [cams EXCEPT ![i] = [state |-> "there", code |-> edit[a].code]]
  BY DEF CreateCam
<1>3. PICK c \in Codes : c = edit[a].code /\ \A j \in There : cams[j].code # c
  BY <1>1 DEF FreeCodes
<1>4. cams \in [Cams -> [state : {"new", "there", "gone"}, code : Codes \cup {NoCam}]]
  BY DEF CctvInv, CctvTypeOK
<1>5. /\ cams' \in [Cams -> [state : {"new", "there", "gone"}, code : Codes \cup {NoCam}]]
      /\ cams'[i].state = "there" /\ cams'[i].code = c /\ \A j \in Cams \ {i} : cams'[j] = cams[j]
  BY <1>2, <1>3, <1>4
<1>6. There' = There \cup {i} /\ i \notin There
  BY <1>2, <1>5 DEF There
<1>7. CodesUnique'
  <2>1. \A j \in There : j \in Cams \ {i} /\ cams'[j] = cams[j]
    BY <1>5, <1>6 DEF There
  <2>. QED
    BY <1>3, <1>5, <1>6, <2>1 DEF CctvInv, CodesUnique
<1>8. SlotRight'
  <2>1. slot.cctv \in There \cup {NoCam} /\ slot.code = CodeOf(slot.cctv)
    BY DEF CctvInv, SlotRight
  <2>2. CodeOf(slot.cctv)' = CodeOf(slot.cctv)
    BY <1>1, <1>5, <1>6, <2>1 DEF CodeOf, There
  <2>. QED
    BY <1>1, <1>6, <2>1, <2>2 DEF SlotRight
<1>9. slot'.cctv \in Cams \cup {NoCam}
  BY <1>1 DEF CctvInv, CctvTypeOK
<1>10. /\ \A j \in Cams : cams[j].state # "new" => cams'[j].state # "new"
       /\ \A j \in There' : j \in There \/ cams[j].state = "new"
       /\ \A j \in There \cap There' : cams'[j].code = cams[j].code
  BY <1>2, <1>5, <1>6 DEF There
<1>. QED
  BY <1>1, <1>5, <1>7, <1>8, <1>9, <1>10, CamsStep

LEMMA DeleteCamStep == ASSUME CctvInv, NEW a \in Admins, DeleteCam(a) PROVE CctvInv'
<1>. USE CctvAssumption
<1>1. /\ Edited(a, "delete") /\ edit[a].cam \in There
      /\ cams' = [cams EXCEPT ![edit[a].cam] = [state |-> "gone", code |-> NoCam]]
      /\ slot' = IF slot.cctv = edit[a].cam THEN [cctv |-> NoCam, code |-> NoCam] ELSE slot
      /\ rois' = rois /\ drawn' = drawn
  BY DEF DeleteCam
<1>2. PICK i \in Cams : i = edit[a].cam /\ i \in There
  BY <1>1 DEF There
<1>3. cams \in [Cams -> [state : {"new", "there", "gone"}, code : Codes \cup {NoCam}]]
  BY DEF CctvInv, CctvTypeOK
<1>4. cams' = [cams EXCEPT ![i] = [state |-> "gone", code |-> NoCam]]
  BY <1>1, <1>2
<1>5. /\ cams' \in [Cams -> [state : {"new", "there", "gone"}, code : Codes \cup {NoCam}]]
      /\ cams'[i].state = "gone" /\ \A j \in Cams \ {i} : cams'[j] = cams[j]
  BY <1>3, <1>4
<1>6. There' = There \ {i}
  BY <1>5 DEF There
<1>7. CodesUnique'
  <2>1. \A j \in There' : j \in There /\ cams'[j] = cams[j]
    BY <1>5, <1>6 DEF There
  <2>. QED
    BY <2>1 DEF CctvInv, CodesUnique
<1>8. SlotRight' /\ slot'.cctv \in Cams \cup {NoCam}
  <2>1. slot.cctv \in There \cup {NoCam} /\ slot.code = CodeOf(slot.cctv)
    BY DEF CctvInv, SlotRight
  <2>2. CASE slot.cctv = i
    <3>1. slot'.cctv = NoCam /\ slot'.code = NoCam
      BY <1>1, <1>2, <2>2
    <3>. QED
      BY <3>1 DEF SlotRight, CodeOf
  <2>3. CASE slot.cctv # i
    <3>1. slot' = slot
      BY <1>1, <1>2, <2>3
    <3>2. slot.cctv \in There' \cup {NoCam}
      BY <1>6, <2>1, <2>3
    <3>3. CodeOf(slot.cctv)' = CodeOf(slot.cctv)
      BY <1>5, <2>1, <2>3, <3>1 DEF CodeOf, There
    <3>. QED
      BY <1>1, <2>1, <3>1, <3>2, <3>3 DEF SlotRight, There
  <2>. QED
    BY <2>2, <2>3
<1>10. /\ \A j \in Cams : cams[j].state # "new" => cams'[j].state # "new"
       /\ \A j \in There' : j \in There \/ cams[j].state = "new"
       /\ \A j \in There \cap There' : cams'[j].code = cams[j].code
  BY <1>5, <1>6 DEF There
<1>. QED
  BY <1>1, <1>5, <1>7, <1>8, <1>10, CamsStep

LEMMA FailEditStep == ASSUME CctvInv, NEW a \in Admins, FailEdit(a) PROVE CctvInv'
<1>1. /\ Edited(a, edit[a].op) /\ cams' = cams /\ rois' = rois /\ drawn' = drawn /\ slot' = slot

  BY DEF FailEdit
<1>2. CctvTypeOK /\ CodesUnique /\ SlotRight
  BY DEF CctvInv
<1>3. There' = There
  BY <1>1 DEF There
<1>4. CodesUnique' /\ SlotRight'
  BY <1>1, <1>2, <1>3 DEF CodesUnique, SlotRight, CodeOf
<1>. QED
  BY <1>1, <1>2, <1>3, <1>4, CamsStep DEF CctvTypeOK

LEMMA CctvInvStays == ASSUME CctvInv, [CctvNext]_cctvVars PROVE CctvInv'
<1>1. ASSUME UNCHANGED cctvVars PROVE CctvInv'
  <2>1. cams' = cams /\ rois' = rois /\ drawn' = drawn /\ slot' = slot  /\ edit' = edit
    BY <1>1 DEF cctvVars
  <2>2. CctvTypeOK' /\ SecondSeen' /\ AsDrawn'
    BY <2>1, RowsStay DEF CctvInv, CctvTypeOK
  <2>3. There' = There /\ CodeOf(slot.cctv)' = CodeOf(slot.cctv)
    BY <2>1 DEF There, CodeOf
  <2>4. CodesUnique' /\ SlotRight'
    BY <2>1, <2>3 DEF CctvInv, CodesUnique, SlotRight
  <2>5. RequestsOk'
    BY <2>1 DEF CctvInv, RequestsOk, RoiOk, SlotOk, There, CodeOf
  <2>. QED
    BY <2>2, <2>4, <2>5 DEF CctvInv
<1>. QED
  BY <1>1, EditStep, PutRoisStep, PutSlotStep, CreateCamStep, DeleteCamStep, FailEditStep
     DEF CctvNext

\* For any administrators, cameras, codes and region types: the regions in force are
\* those of the last put but where puts overlapped, and the slot names the code of the
\* camera it shows (cctv/routes.py).
THEOREM CctvTables == CctvSpec => []CctvTablesAgree
<1>. QED
  BY CctvInitInv, CctvInvStays, CctvInvAgrees, PTL DEF CctvSpec

-----------------------------------------------------------------------------
(* Chat: rooms, members, messages and read marks *)

RoomTypes == {"INCIDENT", "DM", "GROUP"}
RoomRow == [type : RoomTypes, status : {"OPEN", "CLOSED", "DELETED"}, creator : People, seen : Nat]
MemberRow == [room : Nat, user : People, left : BOOLEAN, seen : Nat]
MessageRow == [room : Nat, sender : People, deleted : BOOLEAN, out : BOOLEAN, late : BOOLEAN]
MarkRow == [message : Nat, user : People, seen : Nat]

ChatTypeOK ==
  /\ chatRooms \in Seq(RoomRow) /\ Len(chatRooms) \in Nat
  /\ members \in Seq(MemberRow) /\ Len(members) \in Nat
  /\ messages \in Seq(MessageRow) /\ Len(messages) \in Nat
  /\ reads \in Seq(MarkRow) /\ Len(reads) \in Nat
  /\ DOMAIN chat = ChatThreads

\* Rows are only added, rooms never change their type and nobody comes back to a row he
\* left: what a request did not find among the rows it saw is still not there.
FillOk(q) ==
  /\ q.users \subseteq People /\ q.seen \in 0 .. Len(members) /\ q.room \in 0 .. Len(chatRooms)
  /\ q.room # 0 => \A i \in 1 .. q.seen :
                     members[i].room = q.room /\ members[i].user \in q.users => members[i].left

MakeOk(q) ==
  /\ q.by \in People /\ q.type \in RoomTypes /\ q.rooms \in 0 .. Len(chatRooms)
  /\ q.room = 0 /\ q.type = "INCIDENT" => \A i \in 1 .. q.rooms : chatRooms[i].type # "INCIDENT"

\* A message that is being sent and is not late has an open room and a member's sender.
SendOk(q) ==
  /\ q \in [op : {"send"}, room : 1 .. Len(chatRooms), by : People, late : BOOLEAN]
  /\ ~q.late => chatRooms[q.room].status = "OPEN" /\ ActiveRows(q.room, q.by) # {}

ReadOk(q) ==
  /\ q.by \in People /\ q.seen \in 0 .. Len(reads) /\ q.marks \subseteq 1 .. Len(messages)
  /\ \A k \in 1 .. q.seen : reads[k].user = q.by => reads[k].message \notin q.marks

EndOk(q) ==
  /\ q.room \in 1 .. Len(chatRooms) /\ q.status \in {"CLOSED", "DELETED"}
  /\ q.status = "DELETED" => chatRooms[q.room].type # "INCIDENT"

RequestOk(q) ==
  /\ q.op \in {"room", "add"} => FillOk(q)
  /\ q.op = "room" => MakeOk(q)
  /\ q.op = "add" => q.room # 0
  /\ q.op = "leave" => q.row \in 1 .. Len(members)
  /\ q.op = "end" => EndOk(q)
  /\ q.op = "send" => SendOk(q)
  /\ q.op = "unsend" => q.message \in 1 .. Len(messages)
  /\ q.op = "read" => ReadOk(q)

RequestsStand == \A w \in ChatThreads : \E q : q = chat[w] /\ RequestOk(q)

\* The incident's room is only closed, and members are of rooms there are.
RoomsStand ==
  /\ \A r \in 1 .. Len(chatRooms) : chatRooms[r].type = "INCIDENT" => chatRooms[r].status # "DELETED"
  /\ \A i \in 1 .. Len(members) : members[i].room \in 1 .. Len(chatRooms)

MembersApart ==
  \A i, j \in 1 .. Len(members) :
    i < j /\ members[i].room = members[j].room /\ members[i].user = members[j].user
          /\ ~members[i].left /\ ~members[j].left => members[j].seen < i

RoomsApart ==
  \A i, j \in 1 .. Len(chatRooms) :
    i < j /\ chatRooms[i].type = "INCIDENT" /\ chatRooms[j].type = "INCIDENT" => chatRooms[j].seen < i

MarksApart ==
  \A i, j \in 1 .. Len(reads) :
    i < j /\ reads[i].message = reads[j].message /\ reads[i].user = reads[j].user => reads[j].seen < i

OutIsLate == \A i \in 1 .. Len(messages) : messages[i].out => messages[i].late

\* The inductive invariant.
ChatInv ==
  /\ ChatTypeOK /\ RequestsStand /\ RoomsStand
  /\ MembersApart /\ RoomsApart /\ MarksApart /\ OutIsLate

-----------------------------------------------------------------------------
LEMMA ChatInitInv == ASSUME ChatInit PROVE ChatInv
<1>1. /\ chatRooms = <<>> /\ members = <<>> /\ messages = <<>> /\ reads = <<>>
      /\ DOMAIN chat = ChatThreads /\ \A w \in ChatThreads : chat[w].op = "none"
  BY DEF ChatInit, Quiet
<1>2. RequestsStand
  BY <1>1 DEF RequestsStand, RequestOk
<1>3. ChatTypeOK
  BY <1>1 DEF ChatTypeOK
<1>. QED
  BY <1>1, <1>2, <1>3 DEF ChatInv, RoomsStand, MembersApart, RoomsApart, MarksApart, OutIsLate

LEMMA ChatInvSerial == ASSUME ChatInv PROVE ChatIsSerialButForOverlaps
  BY DEF ChatInv, ChatIsSerialButForOverlaps, MembersApart, RoomsApart, MarksApart, OutIsLate

\* A table with the rows of S added.
Longer(T, old, S, new) ==
  /\ new \in Seq(T) /\ Len(new) \in Nat /\ Len(old) <= Len(new)
  /\ \A i \in 1 .. Len(old) : new[i] = old[i]
  /\ \A i \in 1 .. Len(new) : i > Len(old) => new[i] \in S
  /\ \A i, j \in 1 .. Len(new) : i > Len(old) /\ j > Len(old) /\ new[i] = new[j] => i = j

LEMMA RowsAdded ==
  ASSUME NEW T, NEW old \in Seq(T), NEW S \in SUBSET T, IsFiniteSet(S)
  PROVE  Longer(T, old, S, old \o SetToSeq(S))
<1>1. PICK n \in Nat : n = Len(old)
  BY LenProperties
<1>2. PICK b : b = SetToSeq(S)
  OBVIOUS
<1>3. b \in Seq(S) /\ \A i, j \in 1 .. Len(b) : b[i] = b[j] => i = j
  BY <1>2, SetToSeqFacts
<1>4. b \in Seq(T) /\ Len(b) \in Nat /\ \A i \in 1 .. Len(b) : b[i] \in S
  BY <1>3, SeqMonotonic, ElementOfSeq, LenProperties
<1>5. PICK s : s = old \o b
  OBVIOUS
<1>6. /\ s \in Seq(T) /\ Len(s) = n + Len(b)
      /\ \A i \in 1 .. n : s[i] = old[i]
      /\ \A i \in 1 .. n + Len(b) : i > n => i - n \in 1 .. Len(b) /\ s[i] = b[i - n]
  BY <1>1, <1>4, <1>5, JoinFacts
<1>7. \A i, j \in 1 .. Len(s) : i > n /\ j > n /\ s[i] = s[j] => i = j
  <2>1. SUFFICES ASSUME NEW i \in 1 .. Len(s), NEW j \in 1 .. Len(s), i > n, j > n, s[i] = s[j]
                 PROVE  i = j
    OBVIOUS
  <2>2. i - n \in 1 .. Len(b) /\ j - n \in 1 .. Len(b) /\ b[i - n] = b[j - n]
    BY <1>6, <2>1
  <2>3. i - n = j - n
    BY <1>3, <2>2
  <2>4. i \in Nat /\ j \in Nat
    BY <1>4, <1>6
  <2>. QED
    BY <2>3, <2>4
<1>8. \A i \in 1 .. Len(s) : i > n => s[i] \in S
  BY <1>4, <1>6
<1>9. Len(s) \in Nat /\ n <= Len(s)
  BY <1>4, <1>6
<1>. QED
  BY <1>1, <1>2, <1>5, <1>6, <1>7, <1>8, <1>9 DEF Longer

LEMMA RowAdded ==
  ASSUME NEW T, NEW old \in Seq(T), NEW r \in T
  PROVE  Longer(T, old, {r}, Append(old, r))
<1>1. PICK n \in Nat : n = Len(old)
  BY LenProperties
<1>2. PICK s : s = Append(old, r)
  OBVIOUS
<1>3. s \in Seq(T) /\ Len(s) = n + 1 /\ (\A i \in 1 .. n : s[i] = old[i]) /\ s[n + 1] = r
  BY <1>1, <1>2, AppendProperties
<1>4. \A i \in 1 .. Len(s) : i > n => i = n + 1
  BY <1>3
<1>. QED
  BY <1>1, <1>2, <1>3, <1>4 DEF Longer

-----------------------------------------------------------------------------
\* No step takes a row away or makes another one of it.
Kept ==
  /\ Len(chatRooms) <= Len(chatRooms') /\ Len(chatRooms') \in Nat
  /\ \A i \in 1 .. Len(chatRooms) : chatRooms'[i].type = chatRooms[i].type
  /\ Len(members) <= Len(members') /\ Len(members') \in Nat
  /\ \A i \in 1 .. Len(members) :
       /\ members'[i].room = members[i].room /\ members'[i].user = members[i].user
       /\ members[i].left => members'[i].left
  /\ Len(messages) <= Len(messages') /\ Len(messages') \in Nat
  /\ Len(reads) <= Len(reads') /\ Len(reads') \in Nat
  /\ \A i \in 1 .. Len(reads) : reads'[i] = reads[i]

\* Nobody leaves and no room ends.
Stays ==
  /\ \A i \in 1 .. Len(chatRooms) : chatRooms'[i].status = chatRooms[i].status
  /\ \A i \in 1 .. Len(members) : members'[i].left = members[i].left

LEMMA RequestKept ==
  ASSUME ChatTypeOK, Kept, NEW q, RequestOk(q), q.op = "send" => SendOk(q)'
  PROVE  RequestOk(q)'
<1>1. /\ Len(chatRooms) \in Nat /\ Len(members) \in Nat /\ Len(messages) \in Nat /\ Len(reads) \in Nat
  BY DEF ChatTypeOK
<1>2. ASSUME q.op \in {"room", "add"} PROVE FillOk(q)'
  <2>1. FillOk(q)
    BY <1>2 DEF RequestOk
  <2>2. q.seen \in 0 .. Len(members') /\ q.room \in 0 .. Len(chatRooms') /\ 1 .. q.seen \subseteq 1 .. Len(members)
    BY <1>1, <2>1 DEF FillOk, Kept
  <2>. QED
    BY <2>1, <2>2 DEF FillOk, Kept
<1>3. ASSUME q.op = "room" PROVE MakeOk(q)'
  <2>1. MakeOk(q)
    BY <1>3 DEF RequestOk
  <2>2. q.rooms \in 0 .. Len(chatRooms') /\ 1 .. q.rooms \subseteq 1 .. Len(chatRooms)
    BY <1>1, <2>1 DEF MakeOk, Kept
  <2>. QED
    BY <2>1, <2>2 DEF MakeOk, Kept
<1>4. q.op = "leave" => q.row \in 1 .. Len(members')
  BY <1>1 DEF RequestOk, Kept
<1>5. ASSUME q.op = "end" PROVE EndOk(q)'
  <2>1. EndOk(q)
    BY <1>5 DEF RequestOk
  <2>2. q.room \in 1 .. Len(chatRooms')
    BY <1>1, <2>1 DEF EndOk, Kept
  <2>. QED
    BY <2>1, <2>2 DEF EndOk, Kept
<1>6. q.op = "unsend" => q.message \in 1 .. Len(messages')
  BY <1>1 DEF RequestOk, Kept
<1>7. ASSUME q.op = "read" PROVE ReadOk(q)'
  <2>1. ReadOk(q)
    BY <1>7 DEF RequestOk
  <2>2. q.seen \in 0 .. Len(reads') /\ 1 .. q.seen \subseteq 1 .. Len(reads) /\ 1 .. Len(messages) \subseteq 1 .. Len(messages')
    BY <1>1, <2>1 DEF ReadOk, Kept
  <2>. QED
    BY <2>1, <2>2 DEF ReadOk, Kept
<1>. QED
  BY <1>2, <1>3, <1>4, <1>5, <1>6, <1>7 DEF RequestOk

LEMMA SendKept == ASSUME ChatTypeOK, Kept, Stays, NEW q, SendOk(q) PROVE SendOk(q)'
<1>1. Len(chatRooms) \in Nat /\ Len(members) \in Nat
  BY DEF ChatTypeOK
<1>2. 1 .. Len(chatRooms) \subseteq 1 .. Len(chatRooms') /\ 1 .. Len(members) \subseteq 1 .. Len(members')
  BY <1>1 DEF Kept
<1>3. q.room \in 1 .. Len(chatRooms) /\ q \in [op : {"send"}, room : 1 .. Len(chatRooms'), by : People, late : BOOLEAN]
  BY <1>2 DEF SendOk
<1>4. ActiveRows(q.room, q.by) \subseteq ActiveRows(q.room, q.by)'
  BY <1>2 DEF ActiveRows, Kept, Stays
<1>. QED
  BY <1>3, <1>4 DEF SendOk, Stays

\* What becomes of the requests when one of them ends.
LEMMA OthersWait ==
  ASSUME ChatTypeOK, RequestsStand, Kept, Stays, NEW w \in ChatThreads, NEW op, Done(w, op)
  PROVE  RequestsStand' /\ DOMAIN chat' = ChatThreads
<1>1. chat' = [chat EXCEPT ![w] = Quiet] /\ DOMAIN chat = ChatThreads
  BY DEF Done, ChatTypeOK
<1>2. chat'[w].op = "none" /\ \A x \in ChatThreads \ {w} : chat'[x] = chat[x]
  BY <1>1 DEF Quiet
<1>3. ASSUME NEW x \in ChatThreads PROVE \E q : q = chat'[x] /\ RequestOk(q)'
  <2>1. CASE x = w
    <3>1. PICK q : q = chat'[w]
      OBVIOUS
    <3>. QED
      BY <1>2, <2>1, <3>1 DEF RequestOk
  <2>2. CASE x # w
    <3>1. PICK q : q = chat[x] /\ RequestOk(q)
      BY DEF RequestsStand
    <3>2. RequestOk(q)'
      BY <3>1, RequestKept, SendKept DEF RequestOk
    <3>. QED
      BY <1>2, <2>2, <3>1, <3>2
  <2>. QED
    BY <2>1, <2>2
<1>. QED
  BY <1>1, <1>3 DEF RequestsStand

LEMMA OthersLate ==
  ASSUME ChatTypeOK, RequestsStand, Kept, NEW w \in ChatThreads, NEW op, RowsEnd(w, op)
  PROVE  RequestsStand' /\ DOMAIN chat' = ChatThreads
<1>1. chat' = [x \in ChatThreads |->
         IF x = w THEN Quiet ELSE IF chat[x].op = "send" THEN [chat[x] EXCEPT !.late = TRUE] ELSE chat[x]]
  BY DEF RowsEnd
<1>2. ASSUME NEW x \in ChatThreads PROVE \E q : q = chat'[x] /\ RequestOk(q)'
  <2>1. CASE x = w
    <3>1. PICK q : q = chat'[w]
      OBVIOUS
    <3>2. q.op = "none"
      BY <1>1, <3>1 DEF Quiet
    <3>. QED
      BY <2>1, <3>1, <3>2 DEF RequestOk
  <2>2. CASE x # w
    <3>1. PICK q : q = chat[x] /\ RequestOk(q)
      BY DEF RequestsStand
    <3>2. CASE q.op # "send"
      <4>1. RequestOk(q)'
        BY <3>1, <3>2, RequestKept
      <4>. QED
        BY <1>1, <2>2, <3>1, <3>2, <4>1
    <3>3. CASE q.op = "send"
      <4>1. q \in [op : {"send"}, room : 1 .. Len(chatRooms), by : People, late : BOOLEAN]
        BY <3>1, <3>3 DEF RequestOk, SendOk
      <4>2. PICK p : p = [q EXCEPT !.late = TRUE]
        OBVIOUS
      <4>3. p \in [op : {"send"}, room : 1 .. Len(chatRooms), by : People, late : BOOLEAN] /\ p.late /\ p.op = "send"
        BY <4>1, <4>2
      <4>4. 1 .. Len(chatRooms) \subseteq 1 .. Len(chatRooms')
        BY DEF Kept, ChatTypeOK
      <4>5. SendOk(p)'
        BY <4>3, <4>4 DEF SendOk
      <4>6. RequestOk(p)'
        BY <4>3, <4>5 DEF RequestOk
      <4>. QED
        BY <1>1, <2>2, <3>1, <3>3, <4>2, <4>6
    <3>. QED
      BY <3>2, <3>3
  <2>. QED
    BY <2>1, <2>2
<1>. QED
  BY <1>1, <1>2 DEF RequestsStand

-----------------------------------------------------------------------------
LEMMA AskStands ==
  ASSUME ChatInv, NEW u \in People, NEW q \in Requested(u)
  PROVE  RequestOk(q)
<1>1. /\ Len(chatRooms) \in Nat /\ Len(members) \in Nat /\ Len(messages) \in Nat /\ Len(reads) \in Nat
  BY DEF ChatInv, ChatTypeOK
<1>2. /\ MyRooms(u) \subseteq 1 .. Len(chatRooms) /\ IncidentRooms \subseteq 1 .. Len(chatRooms)
  BY DEF MyRooms, IncidentRooms
<1>3. \A r, us : \A i \in 1 .. Len(members) :
        members[i].room = r /\ members[i].user \in Missing(r, us) => members[i].left
  BY DEF Missing, ActiveRows
<1>4. \A r, us : Missing(r, us) \subseteq us
  BY DEF Missing
<1>5. CASE q \in IncidentRequests(u)
  <2>1. PICK us \in SUBSET People :
          \E r \in IF IncidentRooms = {} THEN {0} ELSE IncidentRooms :
            q = [op |-> "room", type |-> "INCIDENT", room |-> r, users |-> Missing(r, us),
                 seen |-> Len(members), by |-> u, rooms |-> Len(chatRooms)]
    BY <1>5 DEF IncidentRequests
  <2>2. PICK r \in (IF IncidentRooms = {} THEN {0} ELSE IncidentRooms) :
          q = [op |-> "room", type |-> "INCIDENT", room |-> r, users |-> Missing(r, us),
               seen |-> Len(members), by |-> u, rooms |-> Len(chatRooms)]
    BY <2>1
  <2>3. /\ q.op = "room" /\ q.type = "INCIDENT" /\ q.room = r /\ q.users = Missing(r, us)
        /\ q.seen = Len(members) /\ q.by = u /\ q.rooms = Len(chatRooms)
    BY <2>2
  <2>4. q.users \subseteq People /\ r \in 0 .. Len(chatRooms)
    <3>1. Missing(r, us) \subseteq us
      BY <1>4
    <3>2. r = 0 \/ r \in 1 .. Len(chatRooms)
      BY <1>2
    <3>. QED
      BY <1>1, <2>3, <3>1, <3>2
  <2>5. \A i \in 1 .. Len(members) : members[i].room = r /\ members[i].user \in q.users => members[i].left
    BY <1>3, <2>3
  <2>6. FillOk(q)
    BY <1>1, <2>3, <2>4, <2>5 DEF FillOk
  <2>7. r = 0 => IncidentRooms = {}
    BY <1>1, <1>2
  <2>8. IncidentRooms = {} => \A i \in 1 .. Len(chatRooms) : chatRooms[i].type # "INCIDENT"
    <3>1. ASSUME NEW i \in 1 .. Len(chatRooms), chatRooms[i].type = "INCIDENT" PROVE i \in IncidentRooms
      <4>1. chatRooms[i] \in RoomRow
        BY DEF ChatInv, ChatTypeOK
      <4>. QED
        BY <3>1, <4>1 DEF IncidentRooms, RoomRow, ChatInv, RoomsStand
    <3>. QED
      BY <3>1
  <2>9. MakeOk(q)
    BY <1>1, <2>3, <2>7, <2>8 DEF MakeOk, RoomTypes
  <2>. QED
    BY <2>3, <2>6, <2>9 DEF RequestOk
<1>6. CASE q \in GeneralRequests(u)
  <2>1. PICK us \in (SUBSET (People \ {u})) \ {{}}, type \in {"DM", "GROUP"} :
          q = [op |-> "room", type |-> type, room |-> 0, users |-> us \cup {u}, seen |-> Len(members),
               by |-> u, rooms |-> Len(chatRooms)]
    BY <1>6 DEF GeneralRequests
  <2>2. /\ q.op = "room" /\ q.type = type /\ q.room = 0 /\ q.users = us \cup {u}
        /\ q.seen = Len(members) /\ q.by = u /\ q.rooms = Len(chatRooms)
    BY <2>1
  <2>3. FillOk(q)
    BY <1>1, <2>2 DEF FillOk
  <2>4. MakeOk(q)
    BY <1>1, <2>2 DEF MakeOk, RoomTypes
  <2>. QED
    BY <2>2, <2>3, <2>4 DEF RequestOk
<1>7. CASE q \in AddRequests(u)
  <2>1. PICK r \in MyRooms(u), us \in (SUBSET People) \ {{}} :
          q = [op |-> "add", room |-> r, users |-> Missing(r, us), seen |-> Len(members)]
    BY <1>7 DEF AddRequests
  <2>2. q.op = "add" /\ q.room = r /\ q.users = Missing(r, us) /\ q.seen = Len(members)
    BY <2>1
  <2>3. r \in 1 .. Len(chatRooms) /\ r # 0 /\ r \in 0 .. Len(chatRooms)
    BY <1>1, <1>2
  <2>4. q.users \subseteq People
    BY <1>4, <2>2
  <2>5. \A i \in 1 .. Len(members) : members[i].room = r /\ members[i].user \in q.users => members[i].left
    BY <1>3, <2>2
  <2>6. FillOk(q)
    BY <1>1, <2>2, <2>3, <2>4, <2>5 DEF FillOk
  <2>. QED
    BY <2>2, <2>3, <2>6 DEF RequestOk
<1>8. CASE q \in LeaveRequests(u)
  <2>1. PICK r \in MyRooms(u) : \E i \in ActiveRows(r, u) : q = [op |-> "leave", row |-> i]
    BY <1>8 DEF LeaveRequests
  <2>2. q.op = "leave" /\ q.row \in 1 .. Len(members)
    BY <2>1 DEF ActiveRows
  <2>. QED
    BY <2>2 DEF RequestOk
<1>9. CASE q \in CloseRequests \cup DeleteRoomRequests(u)
  <2>1. /\ q.op = "end" /\ q.room \in 1 .. Len(chatRooms)
        /\ \/ q.status = "CLOSED"
           \/ q.status = "DELETED" /\ chatRooms[q.room].type # "INCIDENT"
    BY <1>2, <1>9 DEF CloseRequests, DeleteRoomRequests
  <2>. QED
    BY <2>1 DEF RequestOk, EndOk
<1>10. CASE q \in SendRequests(u)
  <2>1. PICK r \in MyRooms(u) : Writable(r) /\ q = [op |-> "send", room |-> r, by |-> u, late |-> FALSE]
    BY <1>10 DEF SendRequests
  <2>2. r \in 1 .. Len(chatRooms) /\ chatRooms[r].status = "OPEN" /\ ActiveRows(r, u) # {}
    BY <1>2, <2>1 DEF Writable, MyRooms
  <2>3. q \in [op : {"send"}, room : 1 .. Len(chatRooms), by : People, late : BOOLEAN]
    BY <2>1, <2>2
  <2>4. q.op = "send" /\ q.room = r /\ q.by = u
    BY <2>1
  <2>. QED
    BY <2>2, <2>3, <2>4 DEF RequestOk, SendOk
<1>11. CASE q \in UnsendRequests(u)
  <2>1. q.op = "unsend" /\ q.message \in 1 .. Len(messages)
    BY <1>11 DEF UnsendRequests, Visible
  <2>. QED
    BY <2>1 DEF RequestOk
<1>12. CASE q \in ReadRequests(u)
  <2>1. \E r \in MyRooms(u) : \E last \in Visible(r) :
          q = [op |-> "read", by |-> u, seen |-> Len(reads),
               marks |-> {i \in Visible(r) : i <= last /\ ~Marked(i, u)}]
    BY <1>12 DEF ReadRequests
  <2>2. /\ q.op = "read" /\ q.by = u /\ q.seen = Len(reads)
        /\ \E r \in MyRooms(u) : \E last \in Visible(r) :
             q.marks = {i \in Visible(r) : i <= last /\ ~Marked(i, u)}
    BY <2>1
  <2>3. q.marks \subseteq 1 .. Len(messages)
    BY <2>2 DEF Visible
  <2>4. \A k \in 1 .. Len(reads) : reads[k].user = u => reads[k].message \notin q.marks
    BY <2>2 DEF Marked
  <2>5. ReadOk(q)
    BY <1>1, <2>2, <2>3, <2>4 DEF ReadOk
  <2>. QED
    BY <2>2, <2>5 DEF RequestOk
<1>. QED
  BY <1>5, <1>6, <1>7, <1>8, <1>9, <1>10, <1>11, <1>12 DEF Requested

LEMMA AskChatStep == ASSUME ChatInv, NEW w \in ChatThreads, NEW u \in People, Ask(w, u) PROVE ChatInv'
<1>1. chatRooms' = chatRooms /\ members' = members /\ messages' = messages /\ reads' = reads
  BY DEF Ask
<1>2. PICK q \in Requested(u) : chat' = [chat EXCEPT ![w] = q]
  BY DEF Ask
<1>3. RequestOk(q)
  BY AskStands
<1>4. DOMAIN chat = ChatThreads /\ DOMAIN chat' = ChatThreads
  BY <1>2 DEF ChatInv, ChatTypeOK
<1>5. \A x : RequestOk(x) => RequestOk(x)'
  BY <1>1 DEF RequestOk, FillOk, MakeOk, SendOk, ReadOk, EndOk, ActiveRows
<1>6. ASSUME NEW x \in ChatThreads PROVE \E p : p = chat'[x] /\ RequestOk(p)'
  <2>1. CASE x = w
    BY <1>2, <1>3, <1>4, <1>5, <2>1
  <2>2. CASE x # w
    <3>1. PICK p : p = chat[x] /\ RequestOk(p)
      BY DEF ChatInv, RequestsStand
    <3>. QED
      BY <1>2, <1>4, <1>5, <2>2, <3>1
  <2>. QED
    BY <2>1, <2>2
<1>7. RequestsStand'
  BY <1>6 DEF RequestsStand
<1>8. ChatTypeOK'
  BY <1>1, <1>4 DEF ChatInv, ChatTypeOK
<1>. QED
  BY <1>1, <1>7, <1>8 DEF ChatInv, RoomsStand, MembersApart, RoomsApart, MarksApart, OutIsLate

LEMMA FailChatStep == ASSUME ChatInv, NEW w \in ChatThreads, FailChat(w) PROVE ChatInv'
<1>1. chatRooms' = chatRooms /\ members' = members /\ messages' = messages /\ reads' = reads
  BY DEF FailChat
<1>2. Kept /\ Stays
  BY <1>1 DEF Kept, Stays, ChatInv, ChatTypeOK
<1>3. PICK op : Done(w, op)
  BY DEF FailChat
<1>4. RequestsStand' /\ DOMAIN chat' = ChatThreads
  BY <1>2, <1>3, OthersWait DEF ChatInv
<1>. QED
  BY <1>1, <1>4 DEF ChatInv, ChatTypeOK, RoomsStand, MembersApart, RoomsApart, MarksApart, OutIsLate

-----------------------------------------------------------------------------
\* Rows for `us' in a room, by a request that had seen `seen' rows and none of them.
LEMMA MembersAdded ==
  ASSUME ChatTypeOK, MembersApart, NEW r \in Nat, NEW us \in SUBSET People, NEW seen \in 0 .. Len(members),
         members' = WithMembers(r, us, seen),
         \A i \in 1 .. seen : members[i].room = r /\ members[i].user \in us => members[i].left
  PROVE  /\ members' \in Seq(MemberRow) /\ Len(members') \in Nat /\ Len(members) <= Len(members')
         /\ \A i \in 1 .. Len(members) : members'[i] = members[i]
         /\ \A i \in 1 .. Len(members') : i > Len(members) => members'[i].room = r
         /\ MembersApart'
<1>1. PICK n \in Nat : n = Len(members)
  BY DEF ChatTypeOK
<1>2. PICK S : S = {[room |-> r, user |-> u, left |-> FALSE, seen |-> seen] : u \in us}
  OBVIOUS
<1>3. \A x \in S : \E u \in us : x = [room |-> r, user |-> u, left |-> FALSE, seen |-> seen]
  BY <1>2
<1>4. ASSUME NEW x \in S
      PROVE  /\ x.room = r /\ x.user \in us /\ x.left = FALSE /\ x.seen = seen /\ x \in MemberRow
             /\ x = [room |-> r, user |-> x.user, left |-> FALSE, seen |-> seen]
  <2>1. PICK u \in us : x = [room |-> r, user |-> u, left |-> FALSE, seen |-> seen]
    BY <1>3
  <2>2. seen \in Nat /\ u \in People
    BY <1>1
  <2>. QED
    BY <2>1, <2>2 DEF MemberRow
<1>5. \A x, y \in S : x.user = y.user => x = y
  BY ONLY <1>4
<1>6. IsFiniteSet(S)
  <2>1. PICK f : f = [x \in S |-> x.user]
    OBVIOUS
  <2>2. f \in [S -> People] /\ \A x, y \in S : f[x] = f[y] => x = y
    BY <1>4, <1>5, <2>1
  <2>3. f \in Injection(S, People)
    BY <2>2, Fun_IsInj
  <2>. QED
    BY <2>3, FS_Injection, ChatAssumption
<1>7. PICK ms : ms = members'
  OBVIOUS
<1>8. Longer(MemberRow, members, S, ms)
  <2>1. PICK T : T = MemberRow
    OBVIOUS
  <2>2. members \in Seq(T) /\ S \in SUBSET T
    BY <1>4, <2>1 DEF ChatTypeOK
  <2>3. ms = members \o SetToSeq(S)
    BY <1>2, <1>7 DEF WithMembers
  <2>. QED
    BY <1>6, <2>1, <2>2, <2>3, RowsAdded
<1>9. /\ ms \in Seq(MemberRow) /\ Len(ms) \in Nat /\ n <= Len(ms)
      /\ \A i \in 1 .. n : ms[i] = members[i]
      /\ \A i \in 1 .. Len(ms) : i > n => ms[i] \in S
      /\ \A i, j \in 1 .. Len(ms) : i > n /\ j > n /\ ms[i] = ms[j] => i = j
  BY <1>1, <1>8 DEF Longer
<1>10. ASSUME NEW i \in 1 .. Len(ms), NEW j \in 1 .. Len(ms), i < j,
              ms[i].room = ms[j].room, ms[i].user = ms[j].user, ~ms[i].left, ~ms[j].left
       PROVE  ms[j].seen < i
  <2>1. i \in Nat /\ j \in Nat /\ seen \in Nat
    BY <1>1, <1>9
  <2>2. CASE j <= n
    <3>1. i \in 1 .. n /\ j \in 1 .. n
      BY <1>1, <1>10, <2>1, <2>2
    <3>. QED
      BY <1>1, <1>9, <1>10, <3>1 DEF MembersApart
  <2>3. CASE j > n /\ i <= n
    <3>1. i \in 1 .. n /\ ms[j] \in S
      BY <1>1, <1>9, <2>1, <2>3
    <3>2. members[i].room = r /\ members[i].user \in us /\ ~members[i].left /\ ms[j].seen = seen
      BY <1>4, <1>9, <1>10, <3>1
    <3>3. i \notin 1 .. seen
      BY <3>2
    <3>. QED
      BY <2>1, <3>1, <3>2, <3>3
  <2>4. CASE j > n /\ i > n
    <3>1. ms[i] \in S /\ ms[j] \in S
      BY <1>9, <2>4
    <3>2. i = j
      BY <1>5, <1>9, <1>10, <2>4, <3>1
    <3>. QED
      BY <1>10, <2>1, <3>2
  <2>. QED
    BY <1>1, <2>1, <2>2, <2>3, <2>4
<1>11. MembersApart'
  BY <1>7, <1>10 DEF MembersApart
<1>12. \A i \in 1 .. Len(ms) : i > n => ms[i].room = r
  BY <1>4, <1>9
<1>. QED
  BY <1>1, <1>7, <1>9, <1>11, <1>12

\* What a commit of rows of members keeps.
LEMMA MembersCommit ==
  ASSUME ChatInv, NEW w \in ChatThreads, NEW op, Done(w, op), messages' = messages, reads' = reads,
         NEW r, r \in 1 .. Len(chatRooms'),
         /\ chatRooms' \in Seq(RoomRow) /\ Len(chatRooms') \in Nat /\ Len(chatRooms) <= Len(chatRooms')
         /\ \A i \in 1 .. Len(chatRooms) : chatRooms'[i] = chatRooms[i],
         /\ members' \in Seq(MemberRow) /\ Len(members') \in Nat /\ Len(members) <= Len(members')
         /\ \A i \in 1 .. Len(members) : members'[i] = members[i]
         /\ \A i \in 1 .. Len(members') : i > Len(members) => members'[i].room = r,
         MembersApart', RoomsApart',
         \A i \in 1 .. Len(chatRooms') : i > Len(chatRooms) => chatRooms'[i].status = "OPEN"
  PROVE  ChatInv'
<1>1. ChatTypeOK /\ RequestsStand /\ RoomsStand /\ MarksApart /\ OutIsLate
  BY DEF ChatInv
<1>2. PICK n \in Nat, m \in Nat : n = Len(chatRooms) /\ m = Len(members)
  BY <1>1 DEF ChatTypeOK
<1>3. Kept /\ Stays
  <2>1. Len(messages) \in Nat /\ Len(reads) \in Nat
    BY <1>1 DEF ChatTypeOK
  <2>2. /\ Len(messages) <= Len(messages') /\ Len(messages') \in Nat
        /\ Len(reads) <= Len(reads') /\ Len(reads') \in Nat
        /\ \A i \in 1 .. Len(reads) : reads'[i] = reads[i]
    BY <2>1
  <2>3. Kept
    BY <2>2 DEF Kept
  <2>4. Stays
    BY DEF Stays
  <2>. QED
    BY <2>3, <2>4
<1>4. RequestsStand' /\ DOMAIN chat' = ChatThreads
  BY <1>1, <1>3, OthersWait
<1>5. ChatTypeOK'
  BY <1>1, <1>4 DEF ChatTypeOK
<1>6. \A i \in 1 .. Len(chatRooms') : chatRooms'[i].type = "INCIDENT" => chatRooms'[i].status # "DELETED"
  <2>1. \A i \in 1 .. Len(chatRooms') : i \in 1 .. n \/ i > n
    BY <1>2
  <2>. QED
    BY <1>1, <1>2, <2>1 DEF RoomsStand
<1>7. \A i \in 1 .. Len(members') : members'[i].room \in 1 .. Len(chatRooms')
  <2>1. \A i \in 1 .. Len(members') : i \in 1 .. m \/ i > m
    BY <1>2
  <2>2. 1 .. n \subseteq 1 .. Len(chatRooms')
    BY <1>2
  <2>. QED
    BY <1>1, <1>2, <2>1, <2>2 DEF RoomsStand
<1>. QED
  BY <1>1, <1>4, <1>5, <1>6, <1>7 DEF ChatInv, RoomsStand, MarksApart, OutIsLate

LEMMA AddMembersStep == ASSUME ChatInv, NEW w \in ChatThreads, AddMembers(w) PROVE ChatInv'
<1>1. PICK q : q = chat[w] /\ RequestOk(q)
  BY DEF ChatInv, RequestsStand
<1>2. /\ Done(w, "add") /\ q.op = "add" /\ members' = WithMembers(q.room, q.users, q.seen)
      /\ chatRooms' = chatRooms /\ messages' = messages /\ reads' = reads
  BY <1>1 DEF AddMembers, Done
<1>3. FillOk(q) /\ q.room # 0
  BY <1>1, <1>2 DEF RequestOk
<1>4. q.room \in 1 .. Len(chatRooms) /\ q.room \in Nat /\ q.seen \in 0 .. Len(members) /\ q.users \in SUBSET People
  BY <1>3 DEF FillOk, ChatInv, ChatTypeOK
<1>5. \A i \in 1 .. q.seen : members[i].room = q.room /\ members[i].user \in q.users => members[i].left
  BY <1>3 DEF FillOk
<1>6. /\ members' \in Seq(MemberRow) /\ Len(members') \in Nat /\ Len(members) <= Len(members')
      /\ \A i \in 1 .. Len(members) : members'[i] = members[i]
      /\ \A i \in 1 .. Len(members') : i > Len(members) => members'[i].room = q.room
      /\ MembersApart'
  BY <1>2, <1>4, <1>5, MembersAdded DEF ChatInv
<1>7. /\ chatRooms' \in Seq(RoomRow) /\ Len(chatRooms') \in Nat /\ Len(chatRooms) <= Len(chatRooms')
      /\ \A i \in 1 .. Len(chatRooms) : chatRooms'[i] = chatRooms[i]
      /\ \A i \in 1 .. Len(chatRooms') : i > Len(chatRooms) => chatRooms'[i].status = "OPEN"
      /\ RoomsApart' /\ q.room \in 1 .. Len(chatRooms')
  BY <1>2, <1>4 DEF ChatInv, ChatTypeOK, RoomsApart
<1>. QED
  BY <1>2, <1>6, <1>7, MembersCommit

LEMMA MakeRoomStep == ASSUME ChatInv, NEW w \in ChatThreads, MakeRoom(w) PROVE ChatInv'
<1>1. PICK q : q = chat[w] /\ RequestOk(q)
  BY DEF ChatInv, RequestsStand
<1>2. /\ Done(w, "room") /\ q.op = "room" /\ messages' = messages /\ reads' = reads
  BY <1>1 DEF MakeRoom, Done
<1>3. FillOk(q) /\ MakeOk(q)
  BY <1>1, <1>2 DEF RequestOk
<1>4. q.seen \in 0 .. Len(members) /\ q.users \in SUBSET People /\ q.room \in 0 .. Len(chatRooms)
  BY <1>3 DEF FillOk
<1>5. PICK n \in Nat : n = Len(chatRooms)
  BY DEF ChatInv, ChatTypeOK
<1>6. CASE q.room = 0
  <2>1. PICK row : row = [type |-> q.type, status |-> "OPEN", creator |-> q.by, seen |-> q.rooms]
    OBVIOUS
  <2>2. /\ chatRooms' = Append(chatRooms, row) /\ members' = WithMembers(n + 1, q.users, q.seen)
    BY <1>1, <1>5, <1>6, <2>1 DEF MakeRoom
  <2>3. /\ row \in RoomRow /\ row.status = "OPEN" /\ row.type = q.type /\ row.seen = q.rooms /\ q.rooms \in 0 .. n
    BY <1>3, <1>5, <2>1 DEF MakeOk, RoomRow
  <2>4. /\ chatRooms' \in Seq(RoomRow) /\ Len(chatRooms') = n + 1
        /\ \A i \in 1 .. n : chatRooms'[i] = chatRooms[i]
        /\ chatRooms'[n + 1] = row
    <3>1. PICK T : T = RoomRow
      OBVIOUS
    <3>2. chatRooms \in Seq(T) /\ row \in T
      BY <2>3, <3>1 DEF ChatInv, ChatTypeOK
    <3>. QED
      BY <1>5, <2>2, <3>1, <3>2, AppendProperties
  <2>5. \A i \in 1 .. q.seen : members[i].room = n + 1 /\ members[i].user \in q.users => members[i].left
    <3>1. \A i \in 1 .. q.seen : i \in 1 .. Len(members)
      BY <1>4 DEF ChatInv, ChatTypeOK
    <3>2. \A i \in 1 .. Len(members) : members[i].room # n + 1
      BY <1>5 DEF ChatInv, RoomsStand
    <3>. QED
      BY <3>1, <3>2
  <2>6. /\ members' \in Seq(MemberRow) /\ Len(members') \in Nat /\ Len(members) <= Len(members')
        /\ \A i \in 1 .. Len(members) : members'[i] = members[i]
        /\ \A i \in 1 .. Len(members') : i > Len(members) => members'[i].room = n + 1
        /\ MembersApart'
    <3>1. n + 1 \in Nat /\ ChatTypeOK /\ MembersApart
      BY DEF ChatInv
    <3>. QED
      BY <1>4, <2>2, <2>5, <3>1, MembersAdded
  <2>7. RoomsApart'
    <3>1. PICK rs : rs = chatRooms'
      OBVIOUS
    <3>2. ASSUME NEW i \in 1 .. Len(rs), NEW j \in 1 .. Len(rs), i < j, rs[i].type = "INCIDENT", rs[j].type = "INCIDENT"
          PROVE  rs[j].seen < i
      <4>1. i \in Nat /\ j \in Nat /\ i \in 1 .. n
        BY <2>4, <3>1, <3>2
      <4>2. CASE j \in 1 .. n
        BY <1>5, <2>4, <3>1, <3>2, <4>1, <4>2 DEF ChatInv, RoomsApart
      <4>3. CASE j = n + 1
        <5>1. q.type = "INCIDENT" /\ chatRooms[i].type = "INCIDENT" /\ rs[j].seen = q.rooms /\ q.rooms \in Nat
          BY <2>3, <2>4, <3>1, <3>2, <4>1, <4>3
        <5>2. i \notin 1 .. q.rooms
          BY <1>3, <1>6, <5>1 DEF MakeOk
        <5>. QED
          BY <4>1, <5>1, <5>2
      <4>. QED
        BY <2>4, <3>1, <4>1, <4>2, <4>3
    <3>. QED
      BY <3>1, <3>2 DEF RoomsApart
  <2>8. /\ Len(chatRooms') \in Nat /\ n <= Len(chatRooms') /\ n + 1 \in 1 .. Len(chatRooms')
        /\ \A i \in 1 .. Len(chatRooms') : i > n => chatRooms'[i].status = "OPEN"
    <3>1. \A i \in 1 .. n + 1 : i > n => i = n + 1
      OBVIOUS
    <3>. QED
      BY <2>3, <2>4, <3>1
  <2>. QED
    BY <1>2, <1>5, <2>4, <2>6, <2>7, <2>8, MembersCommit
<1>7. CASE q.room # 0
  <2>1. chatRooms' = chatRooms /\ members' = WithMembers(q.room, q.users, q.seen)
    BY <1>1, <1>7 DEF MakeRoom
  <2>2. q.room \in 1 .. Len(chatRooms) /\ q.room \in Nat
    BY <1>4, <1>5, <1>7
  <2>3. \A i \in 1 .. q.seen : members[i].room = q.room /\ members[i].user \in q.users => members[i].left
    BY <1>3, <1>7 DEF FillOk
  <2>4. /\ members' \in Seq(MemberRow) /\ Len(members') \in Nat /\ Len(members) <= Len(members')
        /\ \A i \in 1 .. Len(members) : members'[i] = members[i]
        /\ \A i \in 1 .. Len(members') : i > Len(members) => members'[i].room = q.room
        /\ MembersApart'
    BY <1>4, <2>1, <2>2, <2>3, MembersAdded DEF ChatInv
  <2>5. /\ chatRooms' \in Seq(RoomRow) /\ Len(chatRooms') \in Nat /\ Len(chatRooms) <= Len(chatRooms')
        /\ \A i \in 1 .. Len(chatRooms) : chatRooms'[i] = chatRooms[i]
        /\ \A i \in 1 .. Len(chatRooms') : i > Len(chatRooms) => chatRooms'[i].status = "OPEN"
        /\ RoomsApart' /\ q.room \in 1 .. Len(chatRooms')
    BY <2>1, <2>2 DEF ChatInv, ChatTypeOK, RoomsApart
  <2>. QED
    BY <1>2, <2>4, <2>5, MembersCommit
<1>. QED
  BY <1>6, <1>7

-----------------------------------------------------------------------------
LEMMA LeaveStep == ASSUME ChatInv, NEW w \in ChatThreads, Leave(w) PROVE ChatInv'
<1>1. PICK q : q = chat[w] /\ RequestOk(q)
  BY DEF ChatInv, RequestsStand
<1>2. /\ RowsEnd(w, "leave") /\ q.op = "leave" /\ members' = [members EXCEPT ![q.row].left = TRUE]
      /\ chatRooms' = chatRooms /\ messages' = messages /\ reads' = reads
  BY <1>1 DEF Leave, RowsEnd
<1>3. q.row \in 1 .. Len(members)
  BY <1>1, <1>2 DEF RequestOk
<1>4. /\ members' \in Seq(MemberRow) /\ Len(members') = Len(members) /\ Len(members) \in Nat
      /\ \A i \in 1 .. Len(members) :
           /\ members'[i].room = members[i].room /\ members'[i].user = members[i].user
           /\ members'[i].seen = members[i].seen
           /\ members[i].left => members'[i].left
  <2>1. members \in [1 .. Len(members) -> MemberRow] /\ Len(members) \in Nat
    BY DEF ChatInv, ChatTypeOK
  <2>2. PICK m \in MemberRow : m = members[q.row]
    BY <1>3, <2>1
  <2>3. PICK k : k = [m EXCEPT !.left = TRUE]
    OBVIOUS
  <2>4. k \in MemberRow /\ k.room = m.room /\ k.user = m.user /\ k.seen = m.seen /\ k.left = TRUE
    BY <2>3 DEF MemberRow
  <2>5. members' = [members EXCEPT ![q.row] = k]
    BY <1>2, <1>3, <2>1, <2>2, <2>3
  <2>6. /\ members' \in [1 .. Len(members) -> MemberRow]
        /\ members'[q.row] = k /\ \A i \in 1 .. Len(members) : i # q.row => members'[i] = members[i]
    BY <1>3, <2>1, <2>4, <2>5
  <2>7. members' \in Seq(MemberRow) /\ Len(members') = Len(members)
    BY <2>1, <2>6
  <2>. QED
    BY <2>1, <2>2, <2>4, <2>6, <2>7
<1>5. Kept
  BY <1>2, <1>4 DEF Kept, ChatInv, ChatTypeOK
<1>6. RequestsStand' /\ DOMAIN chat' = ChatThreads
  BY <1>2, <1>5, OthersLate DEF ChatInv
<1>7. ChatTypeOK'
  BY <1>2, <1>4, <1>6 DEF ChatInv, ChatTypeOK
<1>8. MembersApart'
  <2>1. \A i \in 1 .. Len(members) : ~members'[i].left => ~members[i].left
    BY <1>4
  <2>. QED
    BY <1>4, <2>1 DEF ChatInv, MembersApart
<1>9. RoomsStand'
  BY <1>2, <1>4 DEF ChatInv, RoomsStand
<1>. QED
  BY <1>2, <1>6, <1>7, <1>8, <1>9 DEF ChatInv, RoomsApart, MarksApart, OutIsLate

LEMMA EndRoomStep == ASSUME ChatInv, NEW w \in ChatThreads, EndRoom(w) PROVE ChatInv'
<1>1. PICK q : q = chat[w] /\ RequestOk(q)
  BY DEF ChatInv, RequestsStand
<1>2. /\ RowsEnd(w, "end") /\ q.op = "end" /\ chatRooms' = [chatRooms EXCEPT ![q.room].status = q.status]
      /\ members' = members /\ messages' = messages /\ reads' = reads
  BY <1>1 DEF EndRoom, RowsEnd
<1>3. EndOk(q)
  BY <1>1, <1>2 DEF RequestOk
<1>4. /\ chatRooms' \in Seq(RoomRow) /\ Len(chatRooms') = Len(chatRooms) /\ Len(chatRooms) \in Nat
      /\ \A i \in 1 .. Len(chatRooms) :
           /\ chatRooms'[i].type = chatRooms[i].type /\ chatRooms'[i].seen = chatRooms[i].seen
           /\ chatRooms'[i].status = IF i = q.room THEN q.status ELSE chatRooms[i].status
  <2>1. chatRooms \in [1 .. Len(chatRooms) -> RoomRow] /\ Len(chatRooms) \in Nat
    BY DEF ChatInv, ChatTypeOK
  <2>2. PICK m \in RoomRow : m = chatRooms[q.room]
    BY <1>3, <2>1 DEF EndOk
  <2>3. PICK k : k = [m EXCEPT !.status = q.status]
    OBVIOUS
  <2>4. k \in RoomRow /\ k.type = m.type /\ k.seen = m.seen /\ k.status = q.status
    BY <1>3, <2>3 DEF RoomRow, EndOk
  <2>5. chatRooms' = [chatRooms EXCEPT ![q.room] = k]
    BY <1>2, <1>3, <2>1, <2>2, <2>3 DEF EndOk
  <2>6. /\ chatRooms' \in [1 .. Len(chatRooms) -> RoomRow]
        /\ chatRooms'[q.room] = k /\ \A i \in 1 .. Len(chatRooms) : i # q.room => chatRooms'[i] = chatRooms[i]
    BY <1>3, <2>1, <2>4, <2>5 DEF EndOk
  <2>7. chatRooms' \in Seq(RoomRow) /\ Len(chatRooms') = Len(chatRooms)
    BY <2>1, <2>6
  <2>. QED
    BY <2>1, <2>2, <2>4, <2>6, <2>7
<1>5. Kept
  BY <1>2, <1>4 DEF Kept, ChatInv, ChatTypeOK
<1>6. RequestsStand' /\ DOMAIN chat' = ChatThreads
  BY <1>2, <1>5, OthersLate DEF ChatInv
<1>7. ChatTypeOK'
  BY <1>2, <1>4, <1>6 DEF ChatInv, ChatTypeOK
<1>8. RoomsStand'
  BY <1>2, <1>3, <1>4 DEF ChatInv, RoomsStand, EndOk
<1>9. RoomsApart'
  BY <1>4 DEF ChatInv, RoomsApart
<1>. QED
  BY <1>2, <1>6, <1>7, <1>8, <1>9 DEF ChatInv, MembersApart, MarksApart, OutIsLate

LEMMA SendStep == ASSUME ChatInv, NEW w \in ChatThreads, Send(w) PROVE ChatInv'
<1>1. PICK q : q = chat[w] /\ RequestOk(q)
  BY DEF ChatInv, RequestsStand
<1>2. PICK row : row = [room |-> q.room, sender |-> q.by, deleted |-> FALSE,
                        out |-> chatRooms[q.room].status # "OPEN" \/ ActiveRows(q.room, q.by) = {},
                        late |-> q.late]
  OBVIOUS
<1>3. /\ Done(w, "send") /\ q.op = "send" /\ messages' = Append(messages, row)
      /\ chatRooms' = chatRooms /\ members' = members /\ reads' = reads
  BY <1>1, <1>2 DEF Send, Done
<1>4. SendOk(q)
  BY <1>1, <1>3 DEF RequestOk
<1>5. /\ row.out = (chatRooms[q.room].status # "OPEN" \/ ActiveRows(q.room, q.by) = {})
      /\ row.late = q.late
  BY <1>2
<1>6. row.out => row.late
  BY <1>4, <1>5 DEF SendOk
<1>7. row \in MessageRow
  <2>1. q.room \in Nat /\ q.by \in People /\ q.late \in BOOLEAN
    BY <1>4 DEF SendOk, ChatInv, ChatTypeOK
  <2>2. PICK out \in BOOLEAN : out = (chatRooms[q.room].status # "OPEN" \/ ActiveRows(q.room, q.by) = {})
    OBVIOUS
  <2>. QED
    BY <1>2, <2>1, <2>2 DEF MessageRow
<1>8. PICK n \in Nat : n = Len(messages)
  BY DEF ChatInv, ChatTypeOK
<1>9. /\ messages' \in Seq(MessageRow) /\ Len(messages') = n + 1
      /\ (\A i \in 1 .. n : messages'[i] = messages[i]) /\ messages'[n + 1] = row
  <2>1. PICK T : T = MessageRow
    OBVIOUS
  <2>2. messages \in Seq(T) /\ row \in T
    BY <1>7, <2>1 DEF ChatInv, ChatTypeOK
  <2>. QED
    BY <1>3, <1>8, <2>1, <2>2, AppendProperties
<1>10. Len(messages') \in Nat /\ n <= Len(messages') /\ \A i \in 1 .. Len(messages') : i \in 1 .. n \/ i = n + 1
  BY <1>9
<1>11. Kept /\ Stays
  BY <1>3, <1>8, <1>10 DEF Kept, Stays, ChatInv, ChatTypeOK
<1>12. RequestsStand' /\ DOMAIN chat' = ChatThreads
  BY <1>3, <1>11, OthersWait DEF ChatInv
<1>13. ChatTypeOK'
  BY <1>3, <1>9, <1>10, <1>12 DEF ChatInv, ChatTypeOK
<1>14. OutIsLate'
  <2>1. ASSUME NEW i \in 1 .. Len(messages') PROVE messages'[i].out => messages'[i].late
    <3>1. CASE i \in 1 .. n
      BY <1>8, <1>9, <3>1 DEF ChatInv, OutIsLate
    <3>2. CASE i = n + 1
      BY <1>6, <1>9, <3>2
    <3>. QED
      BY <1>10, <3>1, <3>2
  <2>. QED
    BY <2>1 DEF OutIsLate
<1>. QED
  BY <1>3, <1>12, <1>13, <1>14 DEF ChatInv, RoomsStand, MembersApart, RoomsApart, MarksApart

LEMMA UnsendStep == ASSUME ChatInv, NEW w \in ChatThreads, Unsend(w) PROVE ChatInv'
<1>1. PICK q : q = chat[w] /\ RequestOk(q)
  BY DEF ChatInv, RequestsStand
<1>2. /\ Done(w, "unsend") /\ q.op = "unsend" /\ messages' = [messages EXCEPT ![q.message].deleted = TRUE]
      /\ chatRooms' = chatRooms /\ members' = members /\ reads' = reads
  BY <1>1 DEF Unsend, Done
<1>3. q.message \in 1 .. Len(messages)
  BY <1>1, <1>2 DEF RequestOk
<1>4. /\ messages' \in Seq(MessageRow) /\ Len(messages') = Len(messages) /\ Len(messages) \in Nat
      /\ \A i \in 1 .. Len(messages) : messages'[i].out = messages[i].out /\ messages'[i].late = messages[i].late
  <2>1. messages \in [1 .. Len(messages) -> MessageRow] /\ Len(messages) \in Nat
    BY DEF ChatInv, ChatTypeOK
  <2>2. PICK m \in MessageRow : m = messages[q.message]
    BY <1>3, <2>1
  <2>3. PICK k : k = [m EXCEPT !.deleted = TRUE]
    OBVIOUS
  <2>4. k \in MessageRow /\ k.out = m.out /\ k.late = m.late
    BY <2>3 DEF MessageRow
  <2>5. messages' = [messages EXCEPT ![q.message] = k]
    BY <1>2, <1>3, <2>1, <2>2, <2>3
  <2>6. /\ messages' \in [1 .. Len(messages) -> MessageRow]
        /\ messages'[q.message] = k /\ \A i \in 1 .. Len(messages) : i # q.message => messages'[i] = messages[i]
    BY <1>3, <2>1, <2>4, <2>5
  <2>7. messages' \in Seq(MessageRow) /\ Len(messages') = Len(messages)
    BY <2>1, <2>6
  <2>. QED
    BY <2>1, <2>2, <2>4, <2>6, <2>7
<1>5. Kept /\ Stays
  BY <1>2, <1>4 DEF Kept, Stays, ChatInv, ChatTypeOK
<1>6. RequestsStand' /\ DOMAIN chat' = ChatThreads
  BY <1>2, <1>5, OthersWait DEF ChatInv
<1>7. ChatTypeOK'
  BY <1>2, <1>4, <1>6 DEF ChatInv, ChatTypeOK
<1>8. OutIsLate'
  BY <1>4 DEF ChatInv, OutIsLate
<1>. QED
  BY <1>2, <1>6, <1>7, <1>8 DEF ChatInv, RoomsStand, MembersApart, RoomsApart, MarksApart

LEMMA MarkReadStep == ASSUME ChatInv, NEW w \in ChatThreads, MarkRead(w) PROVE ChatInv'
<1>1. PICK q : q = chat[w] /\ RequestOk(q)
  BY DEF ChatInv, RequestsStand
<1>2. PICK S : S = {[message |-> i, user |-> q.by, seen |-> q.seen] : i \in q.marks}
  OBVIOUS
<1>3. /\ Done(w, "read") /\ q.op = "read" /\ reads' = reads \o SetToSeq(S)
      /\ chatRooms' = chatRooms /\ members' = members /\ messages' = messages
  BY <1>1, <1>2 DEF MarkRead, Done
<1>4. ReadOk(q)
  BY <1>1, <1>3 DEF RequestOk
<1>5. /\ q.by \in People /\ q.seen \in 0 .. Len(reads) /\ q.seen \in Nat
      /\ q.marks \subseteq 1 .. Len(messages) /\ q.marks \subseteq Nat
      /\ \A k \in 1 .. q.seen : reads[k].user = q.by => reads[k].message \notin q.marks
  <2>1. Len(messages) \in Nat /\ Len(reads) \in Nat
    BY DEF ChatInv, ChatTypeOK
  <2>2. \A k \in 0 .. Len(reads) : k \in Nat
    BY <2>1
  <2>3. 1 .. Len(messages) \subseteq Nat
    BY <2>1
  <2>. QED
    BY <1>4, <2>2, <2>3 DEF ReadOk
<1>6. \A x \in S : \E i \in q.marks : x = [message |-> i, user |-> q.by, seen |-> q.seen]
  BY <1>2
<1>7. ASSUME NEW x \in S
      PROVE  /\ x.message \in q.marks /\ x.user = q.by /\ x.seen = q.seen /\ x \in MarkRow
             /\ x = [message |-> x.message, user |-> q.by, seen |-> q.seen]
  <2>1. PICK i \in q.marks : x = [message |-> i, user |-> q.by, seen |-> q.seen]
    BY <1>6
  <2>2. i \in Nat /\ q.by \in People /\ q.seen \in Nat
    BY <1>5
  <2>. QED
    BY <2>1, <2>2 DEF MarkRow
<1>8. \A x, y \in S : x.message = y.message => x = y
  BY ONLY <1>7
<1>9. IsFiniteSet(S)
  <2>1. PICK f : f = [x \in S |-> x.message]
    OBVIOUS
  <2>2. f \in [S -> 1 .. Len(messages)] /\ \A x, y \in S : f[x] = f[y] => x = y
    BY <1>5, <1>7, <1>8, <2>1
  <2>3. f \in Injection(S, 1 .. Len(messages))
    BY <2>2, Fun_IsInj
  <2>4. IsFiniteSet(1 .. Len(messages))
    BY FS_Interval DEF ChatInv, ChatTypeOK
  <2>. QED
    BY <2>3, <2>4, FS_Injection
<1>10. PICK n \in Nat : n = Len(reads)
  BY DEF ChatInv, ChatTypeOK
<1>11. PICK rs : rs = reads'
  OBVIOUS
<1>12. Longer(MarkRow, reads, S, rs)
  <2>1. PICK T : T = MarkRow
    OBVIOUS
  <2>2. reads \in Seq(T) /\ S \in SUBSET T
    BY <1>7, <2>1 DEF ChatInv, ChatTypeOK
  <2>. QED
    BY <1>3, <1>9, <1>11, <2>1, <2>2, RowsAdded
<1>13. /\ rs \in Seq(MarkRow) /\ Len(rs) \in Nat /\ n <= Len(rs)
       /\ \A i \in 1 .. n : rs[i] = reads[i]
       /\ \A i \in 1 .. Len(rs) : i > n => rs[i] \in S
       /\ \A i, j \in 1 .. Len(rs) : i > n /\ j > n /\ rs[i] = rs[j] => i = j
  BY <1>10, <1>12 DEF Longer
<1>14. ASSUME NEW i \in 1 .. Len(rs), NEW j \in 1 .. Len(rs), i < j,
              rs[i].message = rs[j].message, rs[i].user = rs[j].user
       PROVE  rs[j].seen < i
  <2>1. i \in Nat /\ j \in Nat
    BY <1>13
  <2>2. CASE j <= n
    <3>1. i \in 1 .. n /\ j \in 1 .. n
      BY <1>10, <1>14, <2>1, <2>2
    <3>. QED
      BY <1>10, <1>13, <1>14, <3>1 DEF ChatInv, MarksApart
  <2>3. CASE j > n /\ i <= n
    <3>1. i \in 1 .. n /\ rs[j] \in S
      BY <1>10, <1>13, <2>1, <2>3
    <3>2. reads[i].user = q.by /\ reads[i].message \in q.marks /\ rs[j].seen = q.seen
      BY <1>7, <1>13, <1>14, <3>1
    <3>3. i \notin 1 .. q.seen
      BY <1>5, <3>2
    <3>. QED
      BY <1>5, <2>1, <3>1, <3>2, <3>3
  <2>4. CASE j > n /\ i > n
    <3>1. rs[i] \in S /\ rs[j] \in S
      BY <1>13, <2>4
    <3>2. i = j
      BY <1>8, <1>13, <1>14, <2>4, <3>1
    <3>. QED
      BY <1>14, <2>1, <3>2
  <2>. QED
    BY <1>10, <2>1, <2>2, <2>3, <2>4
<1>15. MarksApart'
  BY <1>11, <1>14 DEF MarksApart
<1>16. Kept /\ Stays
  BY <1>3, <1>10, <1>11, <1>13 DEF Kept, Stays, ChatInv, ChatTypeOK
<1>17. RequestsStand' /\ DOMAIN chat' = ChatThreads
  BY <1>3, <1>16, OthersWait DEF ChatInv
<1>18. ChatTypeOK'
  BY <1>3, <1>11, <1>13, <1>17 DEF ChatInv, ChatTypeOK
<1>. QED
  BY <1>3, <1>15, <1>17, <1>18 DEF ChatInv, RoomsStand, MembersApart, RoomsApart, OutIsLate

LEMMA ChatInvStays == ASSUME ChatInv, [ChatNext]_chatVars PROVE ChatInv'
<1>1. ASSUME UNCHANGED chatVars PROVE ChatInv'
  <2>1. chatRooms' = chatRooms /\ members' = members /\ messages' = messages /\ reads' = reads /\ chat' = chat
    BY <1>1 DEF chatVars
  <2>2. \A x : RequestOk(x) => RequestOk(x)'
    BY <2>1 DEF RequestOk, FillOk, MakeOk, SendOk, ReadOk, EndOk, ActiveRows
  <2>3. RequestsStand'
    BY <2>1, <2>2 DEF ChatInv, RequestsStand
  <2>. QED
    BY <2>1, <2>3 DEF ChatInv, ChatTypeOK, RoomsStand, MembersApart, RoomsApart, MarksApart, OutIsLate
<1>. QED
  BY <1>1, AskChatStep, FailChatStep, MakeRoomStep, AddMembersStep, LeaveStep, EndRoomStep, SendStep, UnsendStep,
     MarkReadStep DEF ChatNext

\* For any people, threads and rooms: two rows that say the same come only of requests
\* that overlapped, and a message reaches an ended room, or comes of somebody who left,
\* only if the room ended or he left while it was being sent (chat/service.py).
THEOREM ChatIsSerial == ChatSpec => []ChatIsSerialButForOverlaps
<1>. QED
  BY ChatInitInv, ChatInvStays, ChatInvSerial, PTL DEF ChatSpec

=============================================================================

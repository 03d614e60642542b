--------------------------- MODULE Accounts_proofs ---------------------------
(*****************************************************************************)
(* An account with its signup request, codes and sign-ins, for any number of *)
(* requests that overlap and any number of codes.                            *)
(*                                                                           *)
(* The inductive invariant tells the story of the account (StoryOk: which states *)
(* of its rows go together after how many reviews), and of every request what *)
(* is still true of the rows it loaded (LoadedOk, SeenOk): SQLAlchemy        *)
(* writes the columns that differ from the loaded ones, and nothing else.    *)
(*****************************************************************************)
EXTENDS Accounts, TLAPS

UserStatuses == {"NONE", "PENDING", "ACTIVE", "REJECTED", "DELETED"}
UserRow == [status : UserStatuses, verified : BOOLEAN, provider : {"NONE", "EMAIL", "GOOGLE"}, sub : BOOLEAN,
            request : {"NONE", "REQUESTED", "APPROVED", "REJECTED"}]
RowStatuses == {"PENDING", "CANCELLED", "VERIFIED", "EXPIRED", "USED"}
CodeRow == [status : {"PENDING", "CANCELLED", "VERIFIED", "EXPIRED"}, seen : Nat]
WebRequest == [op : Operations, user : UserRow, rows : Seq(RowStatuses)]

AccountsTyped ==
  /\ user \in UserRow
  /\ codes \in Seq(CodeRow) /\ states \in Seq(RowStatuses)
  /\ web \in [Web -> {Free} \cup WebRequest]
  /\ reviews \in Nat

\* A proof of the address counts, or a review may have taken it back.
Counts == user.verified = TRUE \/ user.request = "REJECTED" \/ reviews > 1

\* How far the account has come.
StoryOk ==
  /\ user.status = "NONE" => user = NoUser /\ codes = <<>> /\ states = <<>>
  /\ user.request = "NONE" => user.status = "NONE"
  /\ user.request = "REQUESTED" => user.status = "PENDING"
  /\ user.request \in {"NONE", "REQUESTED"} => reviews = 0
  /\ user.request = "APPROVED" => user.status \in {"ACTIVE", "DELETED"}
  /\ user.request = "REJECTED" => user.status = "REJECTED" \/ (user.status = "DELETED" /\ reviews > 1 /\ withdrawn)
  /\ user.request \in {"APPROVED", "REJECTED"} => reviews > 0
  /\ approved => user.request \in {"APPROVED", "REJECTED"}
  /\ approved /\ user.request = "REJECTED" => reviews > 1
  /\ token \/ sockets # {} \/ withdrawn \/ user.status = "ACTIVE" => approved
  /\ withdrawn /\ reviews < 2 => user.status = "DELETED"

\* What a request loaded is what the account was, or had been.
LoadedOk(q) ==
  /\ q.op # "none" => user.status # "NONE"
  /\ q.op \in {"approve", "reject"} => q.user.request = "REQUESTED" /\ q.user.status = "PENDING"
  /\ q.op \in {"login", "withdraw"} => approved
  /\ q.op = "withdraw" => q.user.status = "ACTIVE"
  /\ q.op \in {"verify", "google"} => q.user.verified = FALSE \/ Counts

\* The rows it saw are still there, and none is pending again.
SeenOk(q) ==
  /\ q.op \in {"resend", "verify"} =>
       /\ Len(q.rows) <= Len(codes)
       /\ \A i \in 1 .. Len(q.rows) : codes[i].status = "PENDING" => q.rows[i] = "PENDING"
  /\ q.op \in {"start google", "google"} => Len(q.rows) <= Len(states)

ProofsCount ==
  (\E i \in 1 .. Len(codes) : codes[i].status = "VERIFIED") \/ (\E i \in 1 .. Len(states) : states[i] = "USED")
  => Counts

OnePending ==
  \A i, j \in 1 .. Len(codes) :
    codes[i].status = "PENDING" /\ codes[j].status = "PENDING" /\ i < j => codes[j].seen < i

AccountInv ==
  /\ AccountsTyped /\ StoryOk /\ ProofsCount /\ OnePending
  /\ \A w \in Web : LoadedOk(web[w]) /\ SeenOk(web[w])

LEMMA SavedRow ==
  ASSUME user \in UserRow, NEW old \in UserRow, NEW new \in UserRow
  PROVE  /\ Saved(old, new) \in UserRow
         /\ Saved(old, new).status = IF new.status # old.status THEN new.status ELSE user.status
         /\ Saved(old, new).request = IF new.request # old.request THEN new.request ELSE user.request
         /\ Saved(old, new).verified = IF new.verified # old.verified THEN new.verified ELSE user.verified
<1>. DEFINE s == Saved(old, new)
<1>1. DOMAIN user = {"status", "verified", "provider", "sub", "request"}
  BY DEF UserRow
<1>2. s = [c \in {"status", "verified", "provider", "sub", "request"} |-> IF new[c] # old[c] THEN new[c] ELSE user[c]]
  BY <1>1 DEF Saved
<1>3. s.status = IF new.status # old.status THEN new.status ELSE user.status
  BY <1>2
<1>4. s.request = IF new.request # old.request THEN new.request ELSE user.request
  BY <1>2
<1>5. s.verified = IF new.verified # old.verified THEN new.verified ELSE user.verified
  BY <1>2
<1>6. s \in UserRow
  BY <1>2 DEF UserRow
<1>. QED
  BY <1>3, <1>4, <1>5, <1>6

LEMMA Proved ==
  ASSUME NEW u \in UserRow, NEW by \in {"EMAIL", "GOOGLE"}
  PROVE /\ ProvedUser(u, by) \in UserRow /\ ProvedUser(u, by).status = u.status /\ ProvedUser(u, by).request = u.request
        /\ ProvedUser(u, by).verified = TRUE
  BY DEF ProvedUser, UserRow

LEMMA Reviewed ==
  ASSUME NEW u \in UserRow
  PROVE /\ ApprovedUser(u) \in UserRow /\ ApprovedUser(u).status = "ACTIVE" /\ ApprovedUser(u).request = "APPROVED"
        /\ ApprovedUser(u).verified = u.verified
        /\ RejectedUser(u) \in UserRow /\ RejectedUser(u).status = "REJECTED" /\ RejectedUser(u).request = "REJECTED"
<1>1. ApprovedUser(u) \in UserRow
  <2>. DEFINE a == [u EXCEPT !.request = "APPROVED"]
  <2>1. a \in UserRow
    BY DEF UserRow
  <2>2. ASSUME NEW b \in UserRow PROVE [b EXCEPT !.status = "ACTIVE"] \in UserRow
    BY DEF UserRow, UserStatuses
  <2>3. ApprovedUser(u) = [a EXCEPT !.status = "ACTIVE"]
    BY DEF ApprovedUser
  <2>. QED
    BY <2>1, <2>2, <2>3
<1>2. ApprovedUser(u).status = "ACTIVE" /\ ApprovedUser(u).request = "APPROVED"
  BY DEF ApprovedUser, UserRow
<1>3. ApprovedUser(u).verified = u.verified
  BY DEF ApprovedUser, UserRow
<1>4. RejectedUser(u) \in UserRow
  BY DEF RejectedUser, UserRow, UserStatuses
<1>5. RejectedUser(u).status = "REJECTED" /\ RejectedUser(u).request = "REJECTED"
  BY DEF RejectedUser, UserRow
<1>. QED
  BY <1>1, <1>2, <1>3, <1>4, <1>5

LEMMA NewCodeRow ==
  ASSUME codes \in Seq(CodeRow), NEW seen \in Seq(RowStatuses)
  PROVE  /\ WithNewCode(seen) \in Seq(CodeRow)
         /\ Len(WithNewCode(seen)) = Len(codes) + 1
         /\ WithNewCode(seen)[Len(codes) + 1] = [status |-> "PENDING", seen |-> Len(seen)]
         /\ \A i \in 1 .. Len(codes) : WithNewCode(seen)[i].seen = codes[i].seen
         /\ \A i \in 1 .. Len(codes) : WithNewCode(seen)[i].status = IF i \in Pending(seen) THEN "CANCELLED" ELSE codes[i].status
<1>. DEFINE t == [i \in 1 .. Len(codes) |->
            IF i \in Pending(seen) THEN [codes[i] EXCEPT !.status = "CANCELLED"] ELSE codes[i]]
<1>1. ASSUME NEW i \in 1 .. Len(codes)
      PROVE  t[i] \in CodeRow /\ t[i].seen = codes[i].seen /\ t[i].status = IF i \in Pending(seen) THEN "CANCELLED" ELSE codes[i].status
  <2>1. codes[i] \in CodeRow
    OBVIOUS
  <2>2. CASE i \in Pending(seen)
    <3>1. t[i] = [codes[i] EXCEPT !.status = "CANCELLED"]
      BY <2>2
    <3>2. [codes[i] EXCEPT !.status = "CANCELLED"] \in CodeRow
      BY <2>1 DEF CodeRow
    <3>3. [codes[i] EXCEPT !.status = "CANCELLED"].seen = codes[i].seen /\ [codes[i] EXCEPT !.status = "CANCELLED"].status = "CANCELLED"
      BY <2>1 DEF CodeRow
    <3>. QED
      BY <2>2, <3>1, <3>2, <3>3
  <2>3. CASE i \notin Pending(seen)
    BY <2>1, <2>3
  <2>. QED
    BY <2>2, <2>3
<1>2. t \in Seq(CodeRow) /\ Len(t) = Len(codes)
  BY <1>1
<1>3. WithNewCode(seen) = Append(t, [status |-> "PENDING", seen |-> Len(seen)])
  BY DEF WithNewCode
<1>4. [status |-> "PENDING", seen |-> Len(seen)] \in CodeRow
  BY DEF CodeRow
<1>. HIDE DEF t
<1>. QED
  BY <1>1, <1>2, <1>3, <1>4

LEMMA AccountInitInv == AccountInit => AccountInv
<1>. SUFFICES ASSUME AccountInit PROVE AccountInv
  OBVIOUS
<1>1. user \in UserRow /\ user.status = "NONE" /\ user.request = "NONE"
  BY DEF AccountInit, NoUser, UserRow, UserStatuses
<1>2. AccountsTyped
  BY <1>1 DEF AccountInit, AccountsTyped
<1>3. \A w \in Web : web[w].op = "none"
  BY DEF AccountInit, Free
<1>4. StoryOk
  BY <1>1 DEF AccountInit, StoryOk
<1>5. ProofsCount /\ OnePending
  BY DEF AccountInit, ProofsCount, OnePending
<1>. QED
  BY <1>2, <1>3, <1>4, <1>5 DEF AccountInv, LoadedOk, SeenOk

\* A request that is not idle.
LEMMA IsRequest == ASSUME AccountInv, NEW w \in Web, web[w].op # "none" PROVE web[w] \in WebRequest
<1>1. web[w] \in {Free} \cup WebRequest
  BY DEF AccountInv, AccountsTyped
<1>2. Free.op = "none"
  BY DEF Free
<1>. QED
  BY <1>1, <1>2

\* What a step must keep for the requests that have read already.
LEMMA OthersStay ==
  ASSUME AccountInv, AccountsTyped', StoryOk', ProofsCount', OnePending',
         \A w \in Web : web'[w] = web[w] \/ web'[w] = Free,
         user.status # "NONE" => user'.status # "NONE", approved => approved', Counts => Counts',
         Len(codes) <= Len(codes'), Len(states) <= Len(states'),
         \A i \in 1 .. Len(codes) : codes'[i].status = "PENDING" => codes[i].status = "PENDING"
  PROVE  AccountInv'
<1>1. ASSUME NEW w \in Web PROVE LoadedOk(web[w])' /\ SeenOk(web[w])'
  <2>1. LoadedOk(web[w]) /\ SeenOk(web[w])
    BY DEF AccountInv
  <2>2. CASE web'[w] = Free
    <3>1. web'[w].op = "none"
      BY <2>2 DEF Free
    <3>. QED
      BY <3>1 DEF LoadedOk, SeenOk
  <2>3. CASE web'[w] = web[w]
    <3>1. LoadedOk(web[w])'
      BY <2>1, <2>3 DEF LoadedOk
    <3>2. ASSUME web[w].op \in {"start google", "google"} PROVE Len(web[w].rows) <= Len(states')
      <4>1. Len(states) \in Nat /\ Len(states') \in Nat /\ Len(states) <= Len(states')
        BY DEF AccountInv, AccountsTyped
      <4>2. web[w] \in WebRequest
        <5>1. web[w].op # "none"
          BY <3>2
        <5>. QED
          BY <5>1, IsRequest
      <4>3. Len(web[w].rows) \in Nat
        BY <4>2 DEF WebRequest
      <4>4. Len(web[w].rows) <= Len(states)
        BY <2>1, <3>2 DEF SeenOk
      <4>. QED
        BY <4>1, <4>3, <4>4
    <3>3. ASSUME web[w].op \in {"resend", "verify"}
          PROVE  /\ Len(web[w].rows) <= Len(codes')
                 /\ \A i \in 1 .. Len(web[w].rows) : codes'[i].status = "PENDING" => web[w].rows[i] = "PENDING"
      <4>1. Len(codes) \in Nat /\ Len(codes') \in Nat /\ Len(codes) <= Len(codes')
        BY DEF AccountInv, AccountsTyped
      <4>2. web[w] \in WebRequest
        <5>1. web[w].op # "none"
          BY <3>3
        <5>. QED
          BY <5>1, IsRequest
      <4>3. Len(web[w].rows) \in Nat
        BY <4>2 DEF WebRequest
      <4>4. /\ Len(web[w].rows) <= Len(codes)
            /\ \A i \in 1 .. Len(web[w].rows) : codes[i].status = "PENDING" => web[w].rows[i] = "PENDING"
        BY <2>1, <3>3 DEF SeenOk
      <4>5. \A i \in 1 .. Len(web[w].rows) : i \in 1 .. Len(codes)
        BY <4>1, <4>3, <4>4
      <4>. QED
        BY <4>1, <4>3, <4>4, <4>5
    <3>. QED
      BY <2>3, <3>1, <3>2, <3>3 DEF SeenOk
  <2>. QED
    BY <2>2, <2>3
<1>. QED
  BY <1>1 DEF AccountInv

\* A step that touches no row.
LEMMA NoRowStep ==
  ASSUME AccountInv, UNCHANGED <<user, codes, states, reviews, withdrawn, approved>>,
         web' \in [Web -> {Free} \cup WebRequest], \A w \in Web : web'[w] = web[w] \/ web'[w] = Free,
         token' \/ sockets' # {} => approved
  PROVE  AccountInv'
<1>1. AccountsTyped' /\ ProofsCount' /\ OnePending' /\ (Counts => Counts')
  BY DEF AccountInv, AccountsTyped, ProofsCount, OnePending, Counts
<1>2. StoryOk'
  BY DEF AccountInv, StoryOk
<1>3. Len(codes) <= Len(codes') /\ Len(states) <= Len(states')
  BY DEF AccountInv, AccountsTyped
<1>. QED
  BY <1>1, <1>2, <1>3, OthersStay

LEMMA EndsWeb ==
  ASSUME AccountInv, NEW w \in Web, Ends(w)
  PROVE  /\ web' \in [Web -> {Free} \cup WebRequest]
         /\ \A x \in Web : web'[x] = web[x] \/ web'[x] = Free
  BY DEF AccountInv, AccountsTyped, Ends

\* A request that runs has read something.
LEMMA Running ==
  ASSUME AccountInv, NEW w \in Web, web[w].op # "none"
  PROVE  /\ web[w] \in WebRequest /\ web[w].user \in UserRow
         /\ web[w].rows \in Seq(RowStatuses) /\ Len(web[w].rows) \in Nat
         /\ user.status # "NONE" /\ LoadedOk(web[w]) /\ SeenOk(web[w])
<1>1. web[w] \in WebRequest
  BY IsRequest
<1>2. LoadedOk(web[w]) /\ SeenOk(web[w])
  BY DEF AccountInv
<1>. QED
  BY <1>1, <1>2 DEF WebRequest, LoadedOk

LEMMA BeginRequest == ASSUME AccountInv, NEW w \in Web, NEW op \in Operations, Begin(w, op) PROVE AccountInv'
<1>. DEFINE q == [op |-> op, user |-> IF op = "resend" THEN NoUser ELSE user, rows |-> SeenRows(op)]
<1>1. /\ web' = [web EXCEPT ![w] = q] /\ Accepted(op)
      /\ UNCHANGED <<user, codes, states, reviews, withdrawn, approved, token, sockets>>
  BY DEF Begin, tables, socketVars, reviewHistory
<1>2. AccountsTyped /\ StoryOk
  BY DEF AccountInv
<1>3. StatusOf(codes) \in Seq(RowStatuses) /\ Len(StatusOf(codes)) = Len(codes)
      /\ \A i \in 1 .. Len(codes) : StatusOf(codes)[i] = codes[i].status
  <2>1. ASSUME NEW i \in 1 .. Len(codes) PROVE codes[i].status \in RowStatuses
    <3>1. codes[i] \in CodeRow
      BY <1>2 DEF AccountsTyped
    <3>2. codes[i].status \in {"PENDING", "CANCELLED", "VERIFIED", "EXPIRED"}
      BY <3>1 DEF CodeRow
    <3>. QED
      BY <3>2 DEF RowStatuses
  <2>2. Len(codes) \in Nat
    BY <1>2 DEF AccountsTyped
  <2>. QED
    BY <2>1, <2>2 DEF StatusOf
<1>4. NoUser \in UserRow /\ NoUser.status = "NONE" /\ NoUser.verified = FALSE
  BY DEF NoUser, UserRow, UserStatuses
<1>5. SeenRows(op) \in Seq(RowStatuses)
  <2>1. states \in Seq(RowStatuses) /\ <<>> \in Seq(RowStatuses)
    BY <1>2 DEF AccountsTyped
  <2>2. SeenRows(op) \in {StatusOf(codes), states, <<>>}
    <3>1. CASE op \in {"resend", "verify"}
      BY <3>1 DEF SeenRows
    <3>2. CASE op \in {"start google", "google"}
      BY <3>2 DEF SeenRows
    <3>3. CASE op \notin {"resend", "verify", "start google", "google"}
      BY <3>3 DEF SeenRows
    <3>. QED
      BY <3>1, <3>2, <3>3
  <2>. QED
    BY <1>3, <2>1, <2>2
<1>6. q \in WebRequest
  <2>1. (IF op = "resend" THEN NoUser ELSE user) \in UserRow
    BY <1>2, <1>4 DEF AccountsTyped
  <2>. QED
    BY <1>5, <2>1 DEF WebRequest
<1>7. /\ web' \in [Web -> {Free} \cup WebRequest] /\ web'[w] = q
      /\ \A x \in Web : x # w => web'[x] = web[x]
  BY <1>1, <1>2, <1>6 DEF AccountsTyped
<1>8. AccountsTyped' /\ StoryOk' /\ ProofsCount' /\ OnePending'
  BY <1>1, <1>2, <1>7 DEF AccountInv, AccountsTyped, StoryOk, ProofsCount, OnePending, Counts
<1>9. user.status # "NONE"
  <2>1. codes = <<>> => Pending(StatusOf(codes)) = {}
    BY <1>3 DEF Pending
  <2>2. states = <<>> => Pending(states) = {}
    BY DEF Pending
  <2>3. user = NoUser => user.status = "NONE" /\ user.request = "NONE"
    BY DEF NoUser
  <2>4. CASE op \in {"resend", "start google"}
    BY <1>1, <1>2, <2>4 DEF Accepted, StoryOk
  <2>5. CASE op \in {"verify", "google"}
    BY <1>1, <1>2, <2>1, <2>2, <2>5 DEF Accepted, StoryOk
  <2>6. CASE op \in {"login", "withdraw"}
    BY <1>1, <1>2, <2>6 DEF Accepted, MayLogin
  <2>7. CASE op \in {"approve", "reject"}
    BY <1>1, <1>2, <2>7 DEF Accepted, MayReview, StoryOk
  <2>. QED
    BY <2>4, <2>5, <2>6, <2>7 DEF Operations
<1>10. LoadedOk(q)
  <2>1. op # "resend" => q.user = user
    OBVIOUS
  <2>2. op \in {"approve", "reject"} => user.request = "REQUESTED" /\ user.status = "PENDING"
    BY <1>1, <1>2 DEF Accepted, MayReview, StoryOk
  <2>3. op \in {"login", "withdraw"} => user.status = "ACTIVE" /\ approved
    BY <1>1, <1>2 DEF Accepted, MayLogin, StoryOk
  <2>4. user.verified = FALSE \/ Counts
    BY <1>2 DEF AccountsTyped, UserRow, Counts
  <2>5. q.op = op
    OBVIOUS
  <2>. HIDE DEF q
  <2>. QED
    BY <1>9, <2>1, <2>2, <2>3, <2>4, <2>5 DEF LoadedOk
<1>11. SeenOk(q)
  <2>1. q.op = op /\ q.rows = SeenRows(op)
    OBVIOUS
  <2>2. op \in {"resend", "verify"} => SeenRows(op) = StatusOf(codes)
    BY DEF SeenRows
  <2>3. op \in {"start google", "google"} => SeenRows(op) = states
    BY DEF SeenRows
  <2>4. Len(codes) \in Nat /\ Len(states) \in Nat
    BY <1>2 DEF AccountsTyped
  <2>. HIDE DEF q
  <2>5. ASSUME op \in {"resend", "verify"}
        PROVE  Len(q.rows) <= Len(codes) /\ \A i \in 1 .. Len(q.rows) : codes[i].status = "PENDING" => q.rows[i] = "PENDING"
    BY <1>3, <2>1, <2>2, <2>4, <2>5
  <2>6. ASSUME op \in {"start google", "google"} PROVE Len(q.rows) <= Len(states)
    <3>1. q.rows = states
      BY <2>1, <2>3, <2>6
    <3>. QED
      BY <2>4, <3>1
  <2>. QED
    BY <2>1, <2>5, <2>6 DEF SeenOk
<1>12. ASSUME NEW x \in Web PROVE LoadedOk(web[x])' /\ SeenOk(web[x])'
  <2>1. web'[x] = q \/ web'[x] = web[x]
    BY <1>7
  <2>2. (LoadedOk(web[x])' <=> LoadedOk(web'[x])) /\ (SeenOk(web[x])' <=> SeenOk(web'[x]))
    BY <1>1 DEF LoadedOk, SeenOk, Counts
  <2>3. LoadedOk(web[x]) /\ SeenOk(web[x])
    BY DEF AccountInv
  <2>. HIDE DEF q
  <2>. QED
    BY <1>10, <1>11, <2>1, <2>2, <2>3
<1>. QED
  BY <1>8, <1>12 DEF AccountInv

\* A proof of the address changes nothing but the three columns, and counts
\* unless it was one already when the request began and has been taken back since.
LEMMA Proving ==
  ASSUME AccountInv, NEW w \in Web, web[w].op \in {"verify", "google"}, NEW by \in {"EMAIL", "GOOGLE"},
         user' = Saved(web[w].user, ProvedUser(web[w].user, by)),
         UNCHANGED <<reviews, withdrawn, approved, token, sockets>>
  PROVE  user' \in UserRow /\ StoryOk' /\ Counts' /\ user'.status = user.status
<1>. DEFINE old == web[w].user
            new == ProvedUser(old, by)
<1>1. web[w].op # "none"
  OBVIOUS
<1>2. old \in UserRow /\ user.status # "NONE" /\ LoadedOk(web[w]) /\ user \in UserRow /\ StoryOk
  BY <1>1, Running DEF AccountInv, AccountsTyped
<1>3. new \in UserRow /\ new.status = old.status /\ new.request = old.request /\ new.verified = TRUE
  BY <1>2, Proved
<1>4. /\ user' \in UserRow /\ user'.status = user.status /\ user'.request = user.request
      /\ user'.verified = IF new.verified # old.verified THEN new.verified ELSE user.verified
  BY <1>2, <1>3, SavedRow
<1>5. Counts'
  <2>1. CASE old.verified = FALSE
    BY <1>3, <1>4, <2>1 DEF Counts
  <2>2. CASE old.verified = TRUE
    <3>1. Counts
      BY <1>2, <2>2 DEF LoadedOk
    <3>2. user'.verified = user.verified
      BY <1>3, <1>4, <2>2
    <3>. QED
      BY <1>4, <3>1, <3>2 DEF Counts
  <2>. QED
    BY <1>2, <2>1, <2>2 DEF UserRow
<1>6. StoryOk'
  BY <1>2, <1>4 DEF StoryOk
<1>. QED
  BY <1>4, <1>5, <1>6

\* A code or a state that is used up, and its table.
LEMMA RowUsed ==
  ASSUME AccountInv, NEW i \in 1 .. Len(codes), NEW s \in {"EXPIRED", "VERIFIED"},
         codes' = [codes EXCEPT ![i].status = s]
  PROVE  /\ codes' \in Seq(CodeRow) /\ Len(codes') = Len(codes)
         /\ codes'[i].status = s
         /\ \A k \in 1 .. Len(codes) : k # i => codes'[k] = codes[k]
         /\ \A k \in 1 .. Len(codes) : codes'[k].seen = codes[k].seen
<1>1. codes \in Seq(CodeRow) /\ codes[i] \in CodeRow
  BY DEF AccountInv, AccountsTyped
<1>2. codes' = [codes EXCEPT ![i] = [@ EXCEPT !.status = s]]
  OBVIOUS
<1>3. [codes[i] EXCEPT !.status = s] \in CodeRow
  BY <1>1 DEF CodeRow
<1>4. [codes[i] EXCEPT !.status = s].status = s /\ [codes[i] EXCEPT !.status = s].seen = codes[i].seen
  BY <1>1 DEF CodeRow
<1>. QED
  BY <1>1, <1>2, <1>3, <1>4

LEMMA VerifyStep == ASSUME AccountInv, NEW w \in Web, NEW i \in Nat, VerifyEmail(w, i) PROVE AccountInv'
<1>1. /\ web[w].op = "verify" /\ i \in Pending(web[w].rows) /\ Ends(w)
      /\ UNCHANGED <<states, reviews, withdrawn, approved, token, sockets>>
  BY DEF VerifyEmail, Runs, socketVars, reviewHistory
<1>2. AccountsTyped /\ Len(web[w].rows) \in Nat /\ SeenOk(web[w]) /\ Len(codes) \in Nat
  <2>1. web[w].op # "none"
    BY <1>1
  <2>. QED
    BY <2>1, Running DEF AccountInv, AccountsTyped
<1>3. i \in 1 .. Len(codes)
  <2>1. i \in 1 .. Len(web[w].rows) /\ Len(web[w].rows) <= Len(codes)
    BY <1>1, <1>2 DEF Pending, SeenOk
  <2>. QED
    BY <1>2, <2>1
<1>5. PICK s \in {"EXPIRED", "VERIFIED"} :
        /\ codes' = [codes EXCEPT ![i].status = s]
        /\ s = "EXPIRED" => user' = user
        /\ s = "VERIFIED" => user' = Saved(web[w].user, ProvedUser(web[w].user, "EMAIL"))
  BY DEF VerifyEmail
<1>6. /\ codes' \in Seq(CodeRow) /\ Len(codes') = Len(codes)
      /\ codes'[i].status = s
      /\ \A k \in 1 .. Len(codes) : k # i => codes'[k] = codes[k]
      /\ \A k \in 1 .. Len(codes) : codes'[k].seen = codes[k].seen
  BY <1>3, <1>5, RowUsed
<1>7. user.status # "NONE"
  <2>1. web[w].op # "none"
    BY <1>1
  <2>. QED
    BY <2>1, Running
<1>8. /\ user' \in UserRow /\ StoryOk' /\ user'.status = user.status
      /\ (Counts => Counts') /\ (s = "VERIFIED" => Counts')
  <2>1. CASE s = "VERIFIED"
    <3>1. web[w].op \in {"verify", "google"}
      BY <1>1
    <3>2. user' = Saved(web[w].user, ProvedUser(web[w].user, "EMAIL"))
      BY <1>5, <2>1
    <3>3. user' \in UserRow /\ StoryOk' /\ Counts' /\ user'.status = user.status
      BY <1>1, <3>1, <3>2, Proving
    <3>. QED
      BY <3>3
  <2>2. CASE s = "EXPIRED"
    <3>1. user' = user
      BY <1>5, <2>2
    <3>2. StoryOk'
      BY <1>1, <1>7, <3>1 DEF AccountInv, StoryOk
    <3>. QED
      BY <1>1, <1>2, <2>2, <3>1, <3>2 DEF AccountsTyped, Counts
  <2>. QED
    BY <2>1, <2>2
<1>9. ProofsCount'
  <2>1. SUFFICES ASSUME (\E k \in 1 .. Len(codes') : codes'[k].status = "VERIFIED")
                        \/ (\E k \in 1 .. Len(states') : states'[k] = "USED")
                 PROVE  Counts'
    BY DEF ProofsCount
  <2>2. CASE s = "VERIFIED"
    BY <1>8, <2>2
  <2>3. CASE s = "EXPIRED"
    <3>1. (\E k \in 1 .. Len(codes) : codes[k].status = "VERIFIED") \/ (\E k \in 1 .. Len(states) : states[k] = "USED")
      BY <1>1, <1>6, <2>1, <2>3
    <3>. QED
      BY <1>8, <3>1 DEF AccountInv, ProofsCount
  <2>. QED
    BY <2>2, <2>3
<1>10. \A k \in 1 .. Len(codes) : codes'[k].status = "PENDING" => codes[k].status = "PENDING"
  BY <1>6
<1>11. OnePending'
  <2>. SUFFICES ASSUME NEW k \in 1 .. Len(codes), NEW j \in 1 .. Len(codes),
                       codes'[k].status = "PENDING", codes'[j].status = "PENDING", k < j
                PROVE  codes'[j].seen < k
    BY <1>6 DEF OnePending
  <2>1. codes[k].status = "PENDING" /\ codes[j].status = "PENDING" /\ codes'[j].seen = codes[j].seen
    BY <1>6, <1>10
  <2>. QED
    BY <2>1 DEF AccountInv, OnePending
<1>12. /\ web' \in [Web -> {Free} \cup WebRequest]
       /\ \A x \in Web : web'[x] = web[x] \/ web'[x] = Free
  BY <1>1, EndsWeb
<1>13. AccountsTyped'
  BY <1>1, <1>2, <1>6, <1>8, <1>12 DEF AccountsTyped
<1>14. Len(codes) <= Len(codes') /\ Len(states) <= Len(states')
  BY <1>1, <1>2, <1>6 DEF AccountsTyped
<1>. QED
  BY <1>1, <1>7, <1>8, <1>9, <1>10, <1>11, <1>12, <1>13, <1>14, OthersStay

LEMMA GoogleStep == ASSUME AccountInv, NEW w \in Web, NEW i \in Nat, CompleteGoogle(w, i) PROVE AccountInv'
<1>1. /\ web[w].op = "google" /\ i \in Pending(web[w].rows) /\ Ends(w)
      /\ UNCHANGED <<codes, reviews, withdrawn, approved, token, sockets>>
  BY DEF CompleteGoogle, Runs, socketVars, reviewHistory
<1>2. /\ AccountsTyped /\ Len(web[w].rows) \in Nat /\ SeenOk(web[w]) /\ Len(states) \in Nat
      /\ user.status # "NONE"
  <2>1. web[w].op # "none"
    BY <1>1
  <2>. QED
    BY <2>1, Running DEF AccountInv, AccountsTyped
<1>3. i \in 1 .. Len(states)
  <2>1. i \in 1 .. Len(web[w].rows) /\ Len(web[w].rows) <= Len(states)
    BY <1>1, <1>2 DEF Pending, SeenOk
  <2>. QED
    BY <1>2, <2>1
<1>5. PICK s \in {"EXPIRED", "USED"} :
        /\ states' = [states EXCEPT ![i] = s]
        /\ s = "EXPIRED" => user' = user
        /\ s = "USED" => user' = Saved(web[w].user, ProvedUser(web[w].user, "GOOGLE"))
  BY DEF CompleteGoogle
<1>6. /\ states' \in Seq(RowStatuses) /\ Len(states') = Len(states)
      /\ states'[i] = s
      /\ \A k \in 1 .. Len(states) : k # i => states'[k] = states[k]
  BY <1>2, <1>3, <1>5 DEF AccountsTyped, RowStatuses
<1>8. /\ user' \in UserRow /\ StoryOk' /\ user'.status = user.status
      /\ (Counts => Counts') /\ (s = "USED" => Counts')
  <2>1. CASE s = "USED"
    <3>1. web[w].op \in {"verify", "google"}
      BY <1>1
    <3>2. user' = Saved(web[w].user, ProvedUser(web[w].user, "GOOGLE"))
      BY <1>5, <2>1
    <3>3. user' \in UserRow /\ StoryOk' /\ Counts' /\ user'.status = user.status
      BY <1>1, <3>1, <3>2, Proving
    <3>. QED
      BY <3>3
  <2>2. CASE s = "EXPIRED"
    <3>1. user' = user
      BY <1>5, <2>2
    <3>2. StoryOk'
      BY <1>1, <1>2, <3>1 DEF AccountInv, StoryOk
    <3>. QED
      BY <1>1, <1>2, <2>2, <3>1, <3>2 DEF AccountsTyped, Counts
  <2>. QED
    BY <2>1, <2>2
<1>9. ProofsCount'
  <2>1. SUFFICES ASSUME (\E k \in 1 .. Len(codes') : codes'[k].status = "VERIFIED")
                        \/ (\E k \in 1 .. Len(states') : states'[k] = "USED")
                 PROVE  Counts'
    BY DEF ProofsCount
  <2>2. CASE s = "USED"
    BY <1>8, <2>2
  <2>3. CASE s = "EXPIRED"
    <3>1. (\E k \in 1 .. Len(codes) : codes[k].status = "VERIFIED") \/ (\E k \in 1 .. Len(states) : states[k] = "USED")
      BY <1>1, <1>6, <2>1, <2>3
    <3>. QED
      BY <1>8, <3>1 DEF AccountInv, ProofsCount
  <2>. QED
    BY <2>2, <2>3
<1>11. OnePending'
  BY <1>1 DEF AccountInv, OnePending
<1>12. /\ web' \in [Web -> {Free} \cup WebRequest]
       /\ \A x \in Web : web'[x] = web[x] \/ web'[x] = Free
  BY <1>1, EndsWeb
<1>13. AccountsTyped'
  BY <1>1, <1>2, <1>6, <1>8, <1>12 DEF AccountsTyped
<1>14. Len(codes) <= Len(codes') /\ Len(states) <= Len(states')
  BY <1>1, <1>2, <1>6 DEF AccountsTyped
<1>. QED
  BY <1>1, <1>2, <1>8, <1>9, <1>11, <1>12, <1>13, <1>14, OthersStay

\* A new code: the pending ones its request saw are cancelled, so that whatever
\* else is pending came later.
LEMMA ResendStep == ASSUME AccountInv, NEW w \in Web, Resend(w) PROVE AccountInv'
<1>. DEFINE rows == web[w].rows
<1>1. /\ web[w].op = "resend" /\ codes' = WithNewCode(rows) /\ Ends(w)
      /\ UNCHANGED <<user, states, reviews, withdrawn, approved, token, sockets>>
  BY DEF Resend, Runs, socketVars, reviewHistory
<1>2. /\ AccountsTyped /\ rows \in Seq(RowStatuses) /\ Len(rows) \in Nat /\ Len(codes) \in Nat
      /\ SeenOk(web[w]) /\ user.status # "NONE"
  <2>1. web[w].op # "none"
    BY <1>1
  <2>. QED
    BY <2>1, Running DEF AccountInv, AccountsTyped
<1>. HIDE DEF rows
<1>3. /\ codes' \in Seq(CodeRow)
      /\ Len(codes') = Len(codes) + 1
      /\ codes'[Len(codes) + 1] = [status |-> "PENDING", seen |-> Len(rows)]
      /\ \A i \in 1 .. Len(codes) : codes'[i].seen = codes[i].seen
      /\ \A i \in 1 .. Len(codes) : codes'[i].status = IF i \in Pending(rows) THEN "CANCELLED" ELSE codes[i].status
  BY <1>1, <1>2, NewCodeRow DEF AccountsTyped
<1>4. \A i \in 1 .. Len(codes) : codes'[i].status = "PENDING" => codes[i].status = "PENDING" /\ i \notin Pending(rows)
  BY <1>3
<1>5. ASSUME NEW i \in 1 .. Len(codes), codes'[i].status = "PENDING" PROVE Len(rows) < i
  <2>1. SUFFICES ASSUME i <= Len(rows) PROVE FALSE
    BY <1>2
  <2>2. i \in 1 .. Len(rows)
    BY <1>2, <2>1
  <2>3. rows[i] = "PENDING"
    BY <1>1, <1>2, <1>4, <1>5, <2>2 DEF SeenOk, rows
  <2>. QED
    BY <1>4, <1>5, <2>2, <2>3 DEF Pending
<1>6. OnePending'
  <2>. SUFFICES ASSUME NEW i \in 1 .. Len(codes'), NEW j \in 1 .. Len(codes'),
                       codes'[i].status = "PENDING", codes'[j].status = "PENDING", i < j
                PROVE  codes'[j].seen < i
    BY DEF OnePending
  <2>1. i \in 1 .. Len(codes)
    BY <1>2, <1>3
  <2>2. CASE j = Len(codes) + 1
    <3>1. codes'[j].seen = Len(rows)
      BY <1>3, <2>2
    <3>. QED
      BY <1>5, <2>1, <3>1
  <2>3. CASE j \in 1 .. Len(codes)
    <3>1. codes[i].status = "PENDING" /\ codes[j].status = "PENDING" /\ codes'[j].seen = codes[j].seen
      BY <1>3, <1>4, <2>1, <2>3
    <3>. QED
      BY <2>1, <2>3, <3>1 DEF AccountInv, OnePending
  <2>. QED
    BY <1>2, <1>3, <2>2, <2>3
<1>7. ASSUME NEW i \in 1 .. Len(codes'), codes'[i].status = "VERIFIED"
      PROVE  i \in 1 .. Len(codes) /\ codes[i].status = "VERIFIED"
  <2>1. i # Len(codes) + 1
    BY <1>3, <1>7
  <2>2. i \in 1 .. Len(codes)
    BY <1>2, <1>3, <2>1
  <2>. QED
    BY <1>3, <1>7, <2>2
<1>8. Counts' <=> Counts
  BY <1>1 DEF Counts
<1>9. ProofsCount'
  BY <1>1, <1>7, <1>8 DEF AccountInv, ProofsCount
<1>10. StoryOk'
  BY <1>1, <1>2 DEF AccountInv, StoryOk
<1>11. /\ web' \in [Web -> {Free} \cup WebRequest]
       /\ \A x \in Web : web'[x] = web[x] \/ web'[x] = Free
  BY <1>1, EndsWeb
<1>12. AccountsTyped'
  BY <1>1, <1>2, <1>3, <1>11 DEF AccountsTyped
<1>13. Len(codes) <= Len(codes') /\ Len(states) <= Len(states')
  BY <1>1, <1>2, <1>3 DEF AccountsTyped
<1>. QED
  BY <1>1, <1>4, <1>6, <1>8, <1>9, <1>10, <1>11, <1>12, <1>13, OthersStay

LEMMA Longer ==
  ASSUME NEW S, NEW u \in Seq(S), NEW x \in S
  PROVE  /\ Append(u, x) \in Seq(S) /\ Len(Append(u, x)) = Len(u) + 1
         /\ Append(u, x)[Len(u) + 1] = x /\ \A i \in 1 .. Len(u) : Append(u, x)[i] = u[i]
  OBVIOUS

LEMMA StartGoogleStep == ASSUME AccountInv, NEW w \in Web, StartGoogle(w) PROVE AccountInv'
<1>. DEFINE t == [i \in 1 .. Len(states) |-> IF i \in Pending(web[w].rows) THEN "CANCELLED" ELSE states[i]]
<1>1. /\ web[w].op = "start google" /\ states' = Append(t, "PENDING") /\ Ends(w)
      /\ UNCHANGED <<user, codes, reviews, withdrawn, approved, token, sockets>>
  BY DEF StartGoogle, Runs, socketVars, reviewHistory
<1>2. AccountsTyped /\ Len(states) \in Nat /\ user.status # "NONE"
  <2>1. web[w].op # "none"
    BY <1>1
  <2>. QED
    BY <2>1, Running DEF AccountInv, AccountsTyped
<1>3. /\ t \in Seq(RowStatuses) /\ Len(t) = Len(states)
      /\ \A i \in 1 .. Len(states) : t[i] = "USED" => states[i] = "USED"
  BY <1>2 DEF AccountsTyped, RowStatuses
<1>. HIDE DEF t
<1>4. "PENDING" \in RowStatuses
  BY DEF RowStatuses
<1>5. /\ states' \in Seq(RowStatuses) /\ Len(states') = Len(states) + 1
      /\ \A i \in 1 .. Len(states') : states'[i] = "USED" => i \in 1 .. Len(states) /\ states[i] = "USED"
  <2>1. states' = Append(t, "PENDING")
    BY <1>1
  <2>2. t \in Seq(RowStatuses) /\ Len(t) = Len(states)
    BY <1>3
  <2>3. states' \in Seq(RowStatuses) /\ Len(states') = Len(states) + 1
    BY <1>4, <2>1, <2>2, Longer
  <2>4. states'[Len(states) + 1] = "PENDING" /\ \A i \in 1 .. Len(states) : states'[i] = t[i]
    BY <1>4, <2>1, <2>2, Longer
  <2>5. \A i \in 1 .. Len(states') : i = Len(states) + 1 \/ i \in 1 .. Len(states)
    BY <1>2, <2>3
  <2>. QED
    BY <1>3, <2>3, <2>4, <2>5
<1>6. Counts' <=> Counts
  BY <1>1 DEF Counts
<1>7. ProofsCount'
  BY <1>1, <1>5, <1>6 DEF AccountInv, ProofsCount
<1>8. StoryOk' /\ OnePending'
  BY <1>1, <1>2 DEF AccountInv, StoryOk, OnePending
<1>9. /\ web' \in [Web -> {Free} \cup WebRequest]
      /\ \A x \in Web : web'[x] = web[x] \/ web'[x] = Free
  BY <1>1, EndsWeb
<1>10. AccountsTyped'
  BY <1>1, <1>2, <1>5, <1>9 DEF AccountsTyped
<1>11. Len(codes) <= Len(codes') /\ Len(states) <= Len(states')
  <2>1. codes' = codes /\ Len(states') = Len(states) + 1
    BY <1>1, <1>5
  <2>2. Len(codes) \in Nat
    BY <1>2 DEF AccountsTyped
  <2>. QED
    BY <1>2, <2>1, <2>2
<1>. QED
  BY <1>1, <1>6, <1>7, <1>8, <1>9, <1>10, <1>11, OthersStay

\* The first signup: nothing is there yet, and no request runs that has read.
LEMMA SignupStep == ASSUME AccountInv, Signup PROVE AccountInv'
<1>1. /\ user = NoUser /\ user' = [NoUser EXCEPT !.status = "PENDING", !.request = "REQUESTED"]
      /\ codes' \in {codes, WithNewCode(<<>>)}
      /\ UNCHANGED <<states, web, reviews, withdrawn, approved, token, sockets>>
  BY DEF Signup, socketVars, reviewHistory
<1>2. user.status = "NONE" /\ user.request = "NONE"
  BY <1>1 DEF NoUser
<1>3. /\ user' \in UserRow /\ user'.status = "PENDING" /\ user'.request = "REQUESTED"
      /\ user'.verified = FALSE
  BY <1>1 DEF NoUser, UserRow, UserStatuses
<1>4. AccountsTyped /\ StoryOk /\ codes = <<>> /\ states = <<>> /\ reviews = 0
  BY <1>2 DEF AccountInv, StoryOk
<1>5. ~approved /\ ~token /\ sockets = {} /\ ~withdrawn
  BY <1>2, <1>4 DEF StoryOk
<1>6. /\ codes' \in Seq(CodeRow) /\ Len(codes') \in {0, 1}
      /\ \A i \in 1 .. Len(codes') : codes'[i].status = "PENDING"
  <2>1. CASE codes' = codes
    BY <1>4, <2>1 DEF AccountsTyped
  <2>2. CASE codes' = WithNewCode(<<>>)
    <3>1. codes \in Seq(CodeRow) /\ <<>> \in Seq(RowStatuses) /\ Len(codes) = 0
      BY <1>4 DEF AccountsTyped
    <3>2. /\ codes' \in Seq(CodeRow) /\ Len(codes') = Len(codes) + 1
          /\ codes'[Len(codes) + 1] = [status |-> "PENDING", seen |-> Len(<<>>)]
      BY <2>2, <3>1, NewCodeRow
    <3>3. [status |-> "PENDING", seen |-> Len(<<>>)].status = "PENDING"
      OBVIOUS
    <3>4. Len(codes') = 1 /\ codes'[1].status = "PENDING"
      BY <3>1, <3>2, <3>3
    <3>5. \A i \in 1 .. Len(codes') : i = 1
      BY <3>4
    <3>. QED
      BY <3>2, <3>4, <3>5
  <2>. QED
    BY <1>1, <2>1, <2>2
<1>7. StoryOk'
  BY <1>1, <1>3, <1>4, <1>5 DEF StoryOk
<1>8. OnePending'
  BY <1>6 DEF OnePending
<1>9. ProofsCount'
  BY <1>1, <1>4, <1>6 DEF ProofsCount
<1>10. AccountsTyped'
  BY <1>1, <1>3, <1>4, <1>6 DEF AccountsTyped
<1>11. ASSUME NEW w \in Web PROVE web[w].op = "none"
  BY <1>2, Running
<1>12. ASSUME NEW w \in Web PROVE LoadedOk(web[w])' /\ SeenOk(web[w])'
  <2>1. web'[w].op = "none"
    BY <1>1, <1>11
  <2>. QED
    BY <2>1 DEF LoadedOk, SeenOk
<1>. QED
  BY <1>7, <1>8, <1>9, <1>10, <1>12 DEF AccountInv

\* The account and its request change together, whatever was loaded: each review
\* writes the columns that differ from a request that was open.
LEMMA ReviewStep == ASSUME AccountInv, NEW w \in Web, Review(w) PROVE AccountInv'
<1>. DEFINE old == web[w].user
            new == IF Runs(w, "approve") THEN ApprovedUser(old) ELSE RejectedUser(old)
<1>1. /\ web[w].op \in {"approve", "reject"} /\ user' = Saved(old, new)
      /\ (approved' <=> approved \/ web[w].op = "approve") /\ reviews' = reviews + 1 /\ Ends(w)
      /\ UNCHANGED <<codes, states, token, sockets, withdrawn>>
  BY DEF Review, Runs, socketVars
<1>2. /\ AccountsTyped /\ StoryOk /\ old \in UserRow /\ user \in UserRow
      /\ old.status = "PENDING" /\ old.request = "REQUESTED" /\ user.status # "NONE" /\ reviews \in Nat
  <2>1. web[w].op # "none"
    BY <1>1
  <2>. QED
    BY <1>1, <2>1, Running DEF AccountInv, AccountsTyped, LoadedOk
<1>3. ASSUME web[w].op = "approve"
      PROVE  /\ user' \in UserRow /\ user'.status # "NONE" /\ StoryOk'
             /\ (approved => approved') /\ (Counts => Counts')
  <2>1. new = ApprovedUser(old)
    BY <1>3 DEF Runs
  <2>2. new \in UserRow /\ new.status = "ACTIVE" /\ new.request = "APPROVED" /\ new.verified = old.verified
    BY <1>2, <2>1, Reviewed
  <2>. HIDE DEF new
  <2>3. /\ user' \in UserRow /\ user'.status = "ACTIVE" /\ user'.request = "APPROVED"
        /\ user'.verified = user.verified
    BY <1>1, <1>2, <2>2, SavedRow
  <2>4. approved' /\ (withdrawn => reviews' > 1)
    BY <1>1, <1>2, <1>3 DEF StoryOk
  <2>5. reviews' > 0 /\ reviews' \in Nat
    BY <1>1, <1>2
  <2>6. StoryOk'
    BY <1>1, <1>2, <2>3, <2>4, <2>5 DEF StoryOk
  <2>7. Counts => Counts'
    <3>1. user.request = "REJECTED" => reviews > 0
      BY <1>2 DEF StoryOk
    <3>. QED
      BY <1>1, <1>2, <2>3, <3>1 DEF Counts
  <2>. QED
    BY <2>3, <2>4, <2>5, <2>6, <2>7
<1>4. ASSUME web[w].op = "reject"
      PROVE  /\ user' \in UserRow /\ user'.status # "NONE" /\ StoryOk'
             /\ (approved => approved') /\ (Counts => Counts')
  <2>1. new = RejectedUser(old)
    BY <1>4 DEF Runs
  <2>2. new \in UserRow /\ new.status = "REJECTED" /\ new.request = "REJECTED"
    BY <1>2, <2>1, Reviewed
  <2>. HIDE DEF new
  <2>3. user' \in UserRow /\ user'.status = "REJECTED" /\ user'.request = "REJECTED"
    BY <1>1, <1>2, <2>2, SavedRow
  <2>4. approved => reviews' > 1
    BY <1>1, <1>2 DEF StoryOk
  <2>5. reviews' > 0 /\ reviews' \in Nat /\ (approved' <=> approved)
    BY <1>1, <1>2, <1>4
  <2>6. StoryOk'
    BY <1>1, <1>2, <2>3, <2>4, <2>5 DEF StoryOk
  <2>7. Counts'
    BY <2>3 DEF Counts
  <2>. QED
    BY <2>3, <2>5, <2>6, <2>7
<1>5. /\ user' \in UserRow /\ user'.status # "NONE" /\ StoryOk' /\ reviews' \in Nat
      /\ (approved => approved') /\ (Counts => Counts')
  <2>1. reviews' \in Nat
    BY <1>1, <1>2
  <2>. QED
    BY <1>1, <1>3, <1>4, <2>1
<1>6. ProofsCount' /\ OnePending'
  BY <1>1, <1>5 DEF AccountInv, ProofsCount, OnePending
<1>7. /\ web' \in [Web -> {Free} \cup WebRequest]
      /\ \A x \in Web : web'[x] = web[x] \/ web'[x] = Free
  BY <1>1, EndsWeb
<1>8. AccountsTyped'
  BY <1>1, <1>2, <1>5, <1>7 DEF AccountsTyped
<1>9. Len(codes) <= Len(codes') /\ Len(states) <= Len(states')
  BY <1>1, <1>2 DEF AccountsTyped
<1>. QED
  BY <1>1, <1>5, <1>6, <1>7, <1>8, <1>9, OthersStay

LEMMA WithdrawStep == ASSUME AccountInv, NEW w \in Web, Withdraw(w) PROVE AccountInv'
<1>. DEFINE old == web[w].user
            new == [old EXCEPT !.status = "DELETED"]
<1>1. /\ web[w].op = "withdraw" /\ user' = Saved(old, new) /\ withdrawn' = TRUE /\ Ends(w)
      /\ UNCHANGED <<codes, states, token, sockets, reviews, approved>>
  BY DEF Withdraw, Runs, socketVars
<1>2. /\ AccountsTyped /\ StoryOk /\ old \in UserRow /\ user \in UserRow
      /\ old.status = "ACTIVE" /\ approved = TRUE /\ user.status # "NONE"
  <2>1. web[w].op # "none"
    BY <1>1
  <2>. QED
    BY <1>1, <2>1, Running DEF AccountInv, AccountsTyped, LoadedOk
<1>3. /\ new \in UserRow /\ new.status = "DELETED" /\ new.request = old.request /\ new.verified = old.verified
  BY <1>2 DEF UserRow, UserStatuses
<1>. HIDE DEF new
<1>4. /\ user' \in UserRow /\ user'.status = "DELETED" /\ user'.request = user.request
      /\ user'.verified = user.verified
  BY <1>1, <1>2, <1>3, SavedRow
<1>5. StoryOk'
  BY <1>1, <1>2, <1>4 DEF StoryOk
<1>6. Counts' <=> Counts
  BY <1>1, <1>4 DEF Counts
<1>7. ProofsCount' /\ OnePending'
  BY <1>1, <1>6 DEF AccountInv, ProofsCount, OnePending
<1>8. /\ web' \in [Web -> {Free} \cup WebRequest]
      /\ \A x \in Web : web'[x] = web[x] \/ web'[x] = Free
  BY <1>1, EndsWeb
<1>9. AccountsTyped'
  BY <1>1, <1>2, <1>4, <1>8 DEF AccountsTyped
<1>10. Len(codes) <= Len(codes') /\ Len(states) <= Len(states')
  BY <1>1, <1>2 DEF AccountsTyped
<1>. QED
  BY <1>1, <1>4, <1>5, <1>6, <1>7, <1>8, <1>9, <1>10, OthersStay

\* Login, the end of a token, the sockets and a failed request.
LEMMA QuietAccount ==
  ASSUME AccountInv,
         \/ TokenExpires \/ UNCHANGED accountVars
         \/ \E w \in Web : FailRequest(w) \/ Login(w)
         \/ \E s \in Sockets :
              Connect(s) \/ Disconnect(s) \/ \E r \in Reports : JoinReport(s, r) \/ LeaveReport(s, r)
  PROVE  AccountInv'
<1>1. StoryOk
  BY DEF AccountInv
<1>2. CASE TokenExpires \/ UNCHANGED accountVars
  <2>1. UNCHANGED <<user, codes, states, reviews, withdrawn, approved, web, sockets>> /\ (token' => token)
    BY <1>2 DEF TokenExpires, accountVars, tables, socketVars, reviewHistory
  <2>. QED
    BY <1>1, <2>1, NoRowStep DEF AccountInv, AccountsTyped, StoryOk
<1>3. ASSUME NEW w \in Web, FailRequest(w) \/ Login(w) PROVE AccountInv'
  <2>1. Ends(w) /\ UNCHANGED <<user, codes, states, reviews, withdrawn, approved, sockets>>
    BY <1>3 DEF FailRequest, Login, tables, socketVars, reviewHistory
  <2>2. token' \/ sockets' # {} => approved
    <3>1. CASE FailRequest(w)
      BY <1>1, <3>1 DEF FailRequest, socketVars, StoryOk
    <3>2. CASE Login(w)
      <4>1. web[w].op = "login" /\ LoadedOk(web[w])
        BY <3>2 DEF Login, Runs, AccountInv
      <4>. QED
        BY <4>1 DEF LoadedOk
    <3>. QED
      BY <1>3, <3>1, <3>2
  <2>3. /\ web' \in [Web -> {Free} \cup WebRequest]
        /\ \A x \in Web : web'[x] = web[x] \/ web'[x] = Free
    BY <2>1, EndsWeb
  <2>. QED
    BY <2>1, <2>2, <2>3, NoRowStep
<1>4. ASSUME NEW s \in Sockets,
             Connect(s) \/ Disconnect(s) \/ \E r \in Reports : JoinReport(s, r) \/ LeaveReport(s, r)
      PROVE  AccountInv'
  <2>1. UNCHANGED <<user, codes, states, reviews, withdrawn, approved, token, web>>
    BY <1>4 DEF Connect, Disconnect, JoinReport, LeaveReport, tables, reviewHistory
  <2>2. (Connect(s) /\ token) \/ sockets' \subseteq sockets
    BY <1>4 DEF Connect, Authenticated, Disconnect, JoinReport, LeaveReport
  <2>3. token' \/ sockets' # {} => approved
    BY <1>1, <2>1, <2>2 DEF StoryOk
  <2>. QED
    BY <2>1, <2>3, NoRowStep DEF AccountInv, AccountsTyped
<1>. QED
  BY <1>2, <1>3, <1>4

LEMMA AccountStep == AccountInv /\ [AccountNext]_accountVars => AccountInv'
<1>. SUFFICES ASSUME AccountInv, [AccountNext]_accountVars PROVE AccountInv'
  OBVIOUS
<1>1. CASE Signup
  BY <1>1, SignupStep
<1>2. ASSUME NEW w \in Web, NEW op \in Operations, Begin(w, op) PROVE AccountInv'
  BY <1>2, BeginRequest
<1>3. ASSUME NEW w \in Web, Resend(w) \/ StartGoogle(w) \/ Review(w) \/ Withdraw(w) PROVE AccountInv'
  BY <1>3, ResendStep, StartGoogleStep, ReviewStep, WithdrawStep
<1>4. ASSUME NEW w \in Web, NEW i \in Nat, VerifyEmail(w, i) \/ CompleteGoogle(w, i) PROVE AccountInv'
  BY <1>4, VerifyStep, GoogleStep
<1>5. \A n, i : i \in 1 .. n => i \in Nat
  OBVIOUS
<1>6. CASE \E w \in Web :
             \/ \E i \in 1 .. MaxCodes : VerifyEmail(w, i)
             \/ \E i \in 1 .. MaxStates : CompleteGoogle(w, i)
  BY <1>4, <1>5, <1>6
<1>. QED
  BY <1>1, <1>2, <1>3, <1>6, QuietAccount DEF AccountNext

\* Whatever requests overlap, the account and its signup request tell the same
\* story, a proof of the address counts unless a review took it back, and two codes
\* are pending only if the second's request did not see the first.
THEOREM RecordsSafety == AccountSpec => []AccountRecordsAgree
<1>1. AccountInv => AccountRecordsAgree
  <2>. SUFFICES ASSUME AccountInv PROVE AccountRecordsAgree
    OBVIOUS
  <2>1. Pending(StatusOf(codes)) = {i \in 1 .. Len(codes) : codes[i].status = "PENDING"}
    BY DEF Pending, StatusOf, AccountInv, AccountsTyped
  <2>2. \A i, j \in Pending(StatusOf(codes)) : i < j => codes[j].seen < i
    BY <2>1 DEF AccountInv, OnePending
  <2>3. (\E i \in 1 .. Len(codes) : codes[i].status = "VERIFIED")
          \/ (\E i \in 1 .. Len(states) : states[i] = "USED")
        => user.verified \/ user.request = "REJECTED" \/ reviews > 1
    BY DEF AccountInv, ProofsCount, Counts
  <2>. QED
    BY <2>2, <2>3 DEF AccountInv, StoryOk, AccountRecordsAgree
<1>. QED
  BY AccountInitInv, AccountStep, <1>1, PTL DEF AccountSpec

\* Only an approved account has had tokens, connections or a withdrawal, and the
\* withdrawal stays unless two reviews overlapped.
THEOREM ApprovedSafety == AccountSpec => []OnlyTheApprovedAct
<1>1. AccountInv => OnlyTheApprovedAct
  BY DEF AccountInv, StoryOk, OnlyTheApprovedAct
<1>. QED
  BY AccountInitInv, AccountStep, <1>1, PTL DEF AccountSpec
=============================================================================

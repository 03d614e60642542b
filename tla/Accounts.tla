-------------------------------- MODULE Accounts --------------------------------
(***************************************************************************)
(* One account of the backend: its signup, the proof of its address, the   *)
(* review, its sessions and its sockets (flask-vm auth/service.py,         *)
(* utils/security.py, socketio/events.py).                                 *)
(*                                                                         *)
(* Each request reads in the snapshot its first query opened and writes at *)
(* one commit, an UPDATE the columns that differ from what was loaded (see *)
(* Snapshot and Flush in ReportAnalysis): Begin is the snapshot, the other *)
(* actions the commits.  The calls to Google are between the two.          *)
(*                                                                         *)
(* Left out: names, phone, password (whether one is right is an input),    *)
(* the security log, mails, the time (whether a code, a state or a token   *)
(* has expired, or a cooldown has passed, is an input).                    *)
(***************************************************************************)
EXTENDS Naturals, Sequences, FiniteSets

CONSTANTS
  Web,         \* web threads
  Sockets,     \* connections of the account's owner
  Reports,     \* reports the owner may see, of the others he may not
  MaxCodes,    \* bound: verification codes
  MaxStates    \* bound: OAuth states

Operations == {"resend", "verify", "start google", "google", "login", "approve", "reject", "withdraw"}

VARIABLES
  user,      \* the rows in users and signup_requests
  codes,     \* email_verifications: [status, seen], seen the rows its request saw
  states,    \* identity_oauth_states: their status
  token,     \* whether the owner has an access token
  sockets,   \* _SID_TO_USER_ID: the connections
  rooms,     \* the report rooms of each connection
  web,       \* each web thread's request: its operation and snapshot
  reviews,   \* history: reviews committed
  withdrawn, \* history: the owner has withdrawn
  approved   \* history: an approval was committed

tables == <<user, codes, states>>
socketVars == <<sockets, rooms>>
reviewHistory == <<reviews, withdrawn, approved>>
accountVars == <<tables, token, socketVars, web, reviewHistory>>

NoUser == [status |-> "NONE", verified |-> FALSE, provider |-> "NONE", sub |-> FALSE, request |-> "NONE"]
Free == [op |-> "none"]

AccountInit ==
  /\ user = NoUser
  /\ codes = <<>> /\ states = <<>>
  /\ token = FALSE
  /\ sockets = {} /\ rooms = [s \in Sockets |-> {}]
  /\ web = [w \in Web |-> Free]
  /\ reviews = 0 /\ withdrawn = FALSE /\ approved = FALSE

-----------------------------------------------------------------------------
(* Requests: what each one reads and refuses by *)

Pending(rows) == {i \in 1 .. Len(rows) : rows[i] = "PENDING"}
StatusOf(rows) == [i \in 1 .. Len(rows) |-> rows[i].status]

\* Mutant: login looks at the password only.
LoginAnyway == user # NoUser

\* login's conditions, EMAIL_VERIFICATION_REQUIRED being unset.
MayLogin == user.status = "ACTIVE"

\* Mutant: a request can be reviewed as often as one likes.
ReviewAgain == user # NoUser

MayReview == user.request = "REQUESTED"

\* Only withdraw needs a token of an active account (require_auth).  Reviewers
\* are other, active accounts.
Accepted(op) ==
  \/ op = "resend" /\ user # NoUser /\ user.status # "DELETED" /\ ~user.verified
  \/ op = "verify" /\ Pending(StatusOf(codes)) # {}
  \/ op = "start google" /\ user # NoUser /\ user.status # "DELETED" /\ user.provider # "GOOGLE"
  \/ op = "google" /\ Pending(states) # {}
  \/ op = "login" /\ MayLogin
  \/ op \in {"approve", "reject"} /\ MayReview
  \/ op = "withdraw" /\ token /\ user.status = "ACTIVE"

\* What is still used of the snapshot.
SeenRows(op) ==
  CASE op \in {"resend", "verify"} -> StatusOf(codes)
    [] op \in {"start google", "google"} -> states
    [] OTHER -> <<>>

Begin(w, op) ==
  /\ web[w] = Free
  /\ Accepted(op)
  /\ web' = [web EXCEPT ![w] =
       [op |-> op, user |-> IF op = "resend" THEN NoUser ELSE user, rows |-> SeenRows(op)]]
  /\ UNCHANGED <<tables, token, socketVars, reviewHistory>>

Ends(w) == web' = [web EXCEPT ![w] = Free]
Runs(w, op) == web[w].op = op

\* An error later on: of the database, of Google, a code out of the million that
\* an earlier one has (verification_token is unique, and no row is ever deleted).
FailRequest(w) ==
  /\ web[w] # Free
  /\ Ends(w)
  /\ UNCHANGED <<tables, token, socketVars, reviewHistory>>

\* The row after an UPDATE to `new' by a request that had loaded `old'.
Saved(old, new) == [c \in DOMAIN user |-> IF new[c] # old[c] THEN new[c] ELSE user[c]]

-----------------------------------------------------------------------------
(* Requests: their commits *)

\* _create_email_verification: the pending codes it sees are cancelled.
WithNewCode(seen) ==
  Append([i \in 1 .. Len(codes) |->
            IF i \in Pending(seen) THEN [codes[i] EXCEPT !.status = "CANCELLED"] ELSE codes[i]],
         [status |-> "PENDING", seen |-> Len(seen)])

\* signup: with a code, or by Google; the unique keys stop a second one.
Signup ==
  /\ user = NoUser
  /\ user' = [NoUser EXCEPT !.status = "PENDING", !.request = "REQUESTED"]
  /\ codes' \in {codes, WithNewCode(<<>>)}
  /\ UNCHANGED <<states, token, socketVars, web, reviewHistory>>

\* resend_email_verification, its cooldown over.
Resend(w) ==
  /\ Runs(w, "resend")
  /\ Len(codes) < MaxCodes
  /\ codes' = WithNewCode(web[w].rows)
  /\ Ends(w)
  /\ UNCHANGED <<user, states, token, socketVars, reviewHistory>>

\* The address is proved, by whom the provider is.
ProvedUser(u, by) == [u EXCEPT !.verified = TRUE, !.provider = by, !.sub = (by = "GOOGLE")]

\* verify_email with code i: it proves the address, or has expired.
VerifyEmail(w, i) ==
  LET old == web[w].user IN
  /\ Runs(w, "verify")
  /\ i \in Pending(web[w].rows)
  /\ \/ /\ codes' = [codes EXCEPT ![i].status = "EXPIRED"]
        /\ UNCHANGED user
     \/ /\ old.status # "DELETED"
        /\ codes' = [codes EXCEPT ![i].status = "VERIFIED"]
        /\ user' = Saved(old, ProvedUser(old, "EMAIL"))
  /\ Ends(w)
  /\ UNCHANGED <<states, token, socketVars, reviewHistory>>

\* start_google_identity_verification: the pending states it sees are closed.
StartGoogle(w) ==
  /\ Runs(w, "start google")
  /\ Len(states) < MaxStates
  /\ states' = Append([i \in 1 .. Len(states) |->
                         IF i \in Pending(web[w].rows) THEN "CANCELLED" ELSE states[i]], "PENDING")
  /\ Ends(w)
  /\ UNCHANGED <<user, codes, token, socketVars, reviewHistory>>

\* complete_google_identity_verification of state i.
CompleteGoogle(w, i) ==
  LET old == web[w].user IN
  /\ Runs(w, "google")
  /\ i \in Pending(web[w].rows)
  /\ \/ /\ states' = [states EXCEPT ![i] = "EXPIRED"]
        /\ UNCHANGED user
     \/ /\ old.status # "DELETED"
        /\ states' = [states EXCEPT ![i] = "USED"]
        /\ user' = Saved(old, ProvedUser(old, "GOOGLE"))
  /\ Ends(w)
  /\ UNCHANGED <<codes, token, socketVars, reviewHistory>>

Login(w) ==
  /\ Runs(w, "login")
  /\ token' = TRUE
  /\ Ends(w)
  /\ UNCHANGED <<tables, socketVars, reviewHistory>>

\* The token's twelve hours are over.
TokenExpires ==
  /\ token /\ token' = FALSE
  /\ UNCHANGED <<tables, socketVars, web, reviewHistory>>

\* approve_signup_request, reject_signup_request
ApprovedUser(u) == [u EXCEPT !.request = "APPROVED", !.status = "ACTIVE"]
RejectedUser(u) == [u EXCEPT !.request = "REJECTED", !.status = "REJECTED", !.verified = FALSE]

Review(w) ==
  LET old == web[w].user IN
  /\ web[w].op \in {"approve", "reject"}
  /\ user' = Saved(old, IF Runs(w, "approve") THEN ApprovedUser(old) ELSE RejectedUser(old))
  /\ approved' = (approved \/ Runs(w, "approve"))
  /\ reviews' = reviews + 1
  /\ Ends(w)
  /\ UNCHANGED <<codes, states, token, socketVars, withdrawn>>

\* withdraw_my_account; the token remains.
Withdraw(w) ==
  LET old == web[w].user IN
  /\ Runs(w, "withdraw")
  /\ user' = Saved(old, [old EXCEPT !.status = "DELETED"])
  /\ withdrawn' = TRUE
  /\ Ends(w)
  /\ UNCHANGED <<codes, states, token, socketVars, reviews, approved>>

-----------------------------------------------------------------------------
(* Sockets: the account is looked at when a connection is made, not after *)

\* _authenticate_socket_user: a token that decodes and an account that is active.
Authenticated == token /\ user.status = "ACTIVE"

Connect(s) ==
  /\ s \notin sockets
  /\ Authenticated
  /\ sockets' = sockets \cup {s}
  /\ UNCHANGED <<tables, token, rooms, web, reviewHistory>>

JoinReport(s, r) ==
  /\ s \in sockets
  /\ rooms' = [rooms EXCEPT ![s] = @ \cup {r}]
  /\ UNCHANGED <<tables, token, sockets, web, reviewHistory>>

LeaveReport(s, r) ==
  /\ r \in rooms[s]
  /\ rooms' = [rooms EXCEPT ![s] = @ \ {r}]
  /\ UNCHANGED <<tables, token, sockets, web, reviewHistory>>

Disconnect(s) ==
  /\ s \in sockets
  /\ sockets' = sockets \ {s}
  /\ rooms' = [rooms EXCEPT ![s] = {}]
  /\ UNCHANGED <<tables, token, web, reviewHistory>>

-----------------------------------------------------------------------------
AccountNext ==
  \/ Signup \/ TokenExpires
  \/ \E w \in Web :
       \/ \E op \in Operations : Begin(w, op)
       \/ FailRequest(w) \/ Resend(w) \/ StartGoogle(w) \/ Login(w) \/ Review(w) \/ Withdraw(w)
       \/ \E i \in 1 .. MaxCodes : VerifyEmail(w, i)
       \/ \E i \in 1 .. MaxStates : CompleteGoogle(w, i)
  \/ \E s \in Sockets :
       \/ Connect(s) \/ Disconnect(s)
       \/ \E r \in Reports : JoinReport(s, r) \/ LeaveReport(s, r)

AccountSpec == AccountInit /\ [][AccountNext]_accountVars

-----------------------------------------------------------------------------
AccountTypeOK ==
  /\ user.status \in {"NONE", "PENDING", "ACTIVE", "REJECTED", "DELETED"}
  /\ user.request \in {"NONE", "REQUESTED", "APPROVED", "REJECTED"}
  /\ user.provider \in {"NONE", "EMAIL", "GOOGLE"}
  /\ user.verified \in BOOLEAN /\ user.sub \in BOOLEAN
  /\ \A i \in 1 .. Len(codes) :
       codes[i].status \in {"PENDING", "CANCELLED", "VERIFIED", "EXPIRED"}
  /\ \A i \in 1 .. Len(states) :
       states[i] \in {"PENDING", "CANCELLED", "USED", "EXPIRED"}
  /\ sockets \subseteq Sockets
  /\ rooms \in [Sockets -> SUBSET Reports]

\* Whatever requests overlap, the account and its signup request tell the same
\* story (approve and reject, each of two rows); a used code or state still counts
\* unless the request was rejected or reviewed twice; and two codes are pending
\* only if the request for the second did not see the first.
AccountRecordsAgree ==
  /\ user.request = "REQUESTED" => user.status = "PENDING"
  /\ user.request = "APPROVED" => user.status \in {"ACTIVE", "DELETED"}
  /\ user.request = "REJECTED" =>
       user.status = "REJECTED" \/ (user.status = "DELETED" /\ reviews > 1 /\ withdrawn)
  /\ (\E i \in 1 .. Len(codes) : codes[i].status = "VERIFIED")
       \/ (\E i \in 1 .. Len(states) : states[i] = "USED")
     => user.verified \/ user.request = "REJECTED" \/ reviews > 1
  /\ \A i, j \in Pending(StatusOf(codes)) : i < j => codes[j].seen < i

\* Sessions, sockets and withdrawals exist only of an approved account, and a
\* withdrawn one stays so unless two reviews of its request overlapped.
OnlyTheApprovedAct ==
  /\ token \/ sockets # {} \/ withdrawn \/ user.status = "ACTIVE" => approved
  /\ withdrawn /\ reviews < 2 => user.status = "DELETED"
=============================================================================

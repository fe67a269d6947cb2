---------------------------- MODULE RecordProofs ----------------------------
(***************************************************************************)
(* Theorems about the tables behind the requests: Users, for any sets of   *)
(* accounts, requests and e-mails; Pagination, for any rows, page sizes    *)
(* and order; AuditCleanup, for any rows, ages, jobs and batch size; Seed, *)
(* for any number of runs at once or one after the other, and tables of    *)
(* any length; and about what the limiter records: RateLimit, for any      *)
(* limit, window, keys, requests and limiters.                             *)
(***************************************************************************)
EXTENDS Users, Pagination, AuditCleanup, Seed, RateLimit, FiniteSetTheorems, TLAPS

(* A leaf is left to Zenon first, which is fast where no arithmetic is needed; *)
(* the longer limits are for slow machines.                                    *)
USE ZenonT(2), SMT, ZenonT(20), SMTT(30)

(***************************************************************************)
(* Users: rows, transactions and requests.                                 *)
(***************************************************************************)
CallRec == [op: UserOps, pc: UserPcs, id: UserIds, email: Emails \cup {Unset},
            pw: Passwords, old: Row \cup {NoRow}, res: UserResults]

UserTypes ==
  /\ rows \in [UserIds -> Row \cup {NoRow}]
  /\ pending \in [Calls -> Row \cup {NoRow}]
  /\ call \in [Calls -> CallRec]

(* What the unique index enforces: the committed rows and those of the     *)
(* open transactions have different e-mails.                               *)
PendingApart ==
  \A d \in Calls : pending[d] # NoRow =>
    /\ \A i \in UserIds : rows[i] # NoRow => rows[i].email # pending[d].email
    /\ \A e \in Calls : e # d /\ pending[e] # NoRow => pending[e].email # pending[d].email

(* A request in the state r, the committed row of its own name, the row it *)
(* is about, the row of its transaction, and whether the trail has it.     *)
CallOK(r, own, target, pend, logged) ==
  /\ pend # NoRow => r.op = "create" /\ r.pc \in {"commit", "rollback"}
  /\ r.pc = "commit" => r.op = "create" /\ pend # NoRow
  /\ r.pc \in {"idle", "check", "insert"} => r.op = "create"
  /\ r.pc \in {"check", "insert"} => r.email \in Emails
  /\ r.pc \in {"old", "read", "write", "revoke"} => r.op # "create"
  /\ r.pc = "write" \/ (r.pc = "read" /\ r.op # "password") => target # NoRow
  /\ r.pc \notin {"rollback", "done"} => r.res = "none"
  /\ r.op # "create" \/ r.pc \notin {"log", "done"} \/ r.res \in {"conflict", "error"}
       => own = NoRow
  /\ r.op = "create" /\ r.pc = "log" => own # NoRow
  /\ logged => r.pc = "done" /\ (r.op = "create" => own # NoRow)

UserInv ==
  /\ UserTypes
  /\ EmailsUnique
  /\ PendingApart
  /\ audit \subseteq Calls
  /\ \A c \in Calls : CallOK(call[c], rows[c], rows[call[c].id], pending[c], c \in audit)

-----------------------------------------------------------------------------
(* No request has come yet, and the accounts have different e-mails. *)
LEMMA UserInvInit == UserInit => UserInv
<1> SUFFICES ASSUME UserInit PROVE UserInv OBVIOUS
<1>1. PICK f \in [Accounts -> [email: Emails, active: BOOLEAN, pw: {"initial"}]] :
        /\ \A i, j \in Accounts : i # j => f[i].email # f[j].email
        /\ rows = [i \in UserIds |-> IF i \in Accounts THEN f[i] ELSE NoRow]
  BY DEF UserInit
<1>2. \A i \in Accounts : f[i] \in Row BY DEF Row, Passwords
<1>3. rows \in [UserIds -> Row \cup {NoRow}] BY <1>1, <1>2
<1>4. pending \in [Calls -> Row \cup {NoRow}] /\ \A c \in Calls : pending[c] = NoRow
  BY DEF UserInit
<1>5. \A c \in Calls : /\ call[c].op = "create"
                       /\ call[c].pc = "idle"
                       /\ call[c].res = "none"
  BY DEF UserInit
<1>6. call \in [Calls -> CallRec]
  BY DEF UserInit, CallRec, UserOps, UserPcs, UserIds, UserResults, Passwords
<1>7. \A c \in Calls : rows[c] = NoRow /\ c \in UserIds BY <1>1, UserInputs DEF UserIds
<1>8. EmailsUnique BY <1>1, UserInputs DEF EmailsUnique
<1>9. PendingApart BY <1>4 DEF PendingApart
<1>10. audit = {} BY DEF UserInit
<1>11. ASSUME NEW c \in Calls
       PROVE  CallOK(call[c], rows[c], rows[call[c].id], pending[c], c \in audit)
  <2>1. call[c].op = "create" /\ call[c].pc = "idle" /\ call[c].res = "none" BY <1>5
  <2>2. rows[c] = NoRow /\ pending[c] = NoRow BY <1>4, <1>7
  <2>3. (c \in audit) = FALSE BY <1>10
  <2> QED BY <2>1, <2>2, <2>3 DEF CallOK
<1> QED BY <1>3, <1>4, <1>6, <1>8, <1>9, <1>10, <1>11 DEF UserInv, UserTypes

(* A step that writes no row: it is enough to look at the request itself.  *)
LEMMA CallMoves ==
  ASSUME UserInv, NEW c \in Calls, NEW r \in CallRec,
         call' = [call EXCEPT ![c] = r],
         rows' = rows, pending' = pending, audit' = audit,
         c \notin audit,
         CallOK(r, rows[c], rows[r.id], pending[c], FALSE)
  PROVE  UserInv'
<1>1. UserTypes' BY DEF UserInv, UserTypes
<1>2. EmailsUnique' /\ PendingApart' /\ (audit \subseteq Calls)'
  BY DEF UserInv, EmailsUnique, PendingApart
<1>3. ASSUME NEW d \in Calls
      PROVE  CallOK(call'[d], rows'[d], rows'[call'[d].id], pending'[d], d \in audit')
  <2>1. CASE d = c
    <3>1. call'[d] = r BY <2>1 DEF UserInv, UserTypes
    <3>2. (d \in audit') = FALSE BY <2>1
    <3> QED BY <2>1, <3>1, <3>2, ZenonT(30)
  <2>2. CASE d # c
    <3>1. call'[d] = call[d] BY <2>2 DEF UserInv, UserTypes
    <3>2. CallOK(call[d], rows[d], rows[call[d].id], pending[d], d \in audit) BY DEF UserInv
    <3> QED BY <3>1, <3>2
  <2> QED BY <2>1, <2>2
<1> QED BY <1>1, <1>2, <1>3 DEF UserInv
(* The state of a request that goes to pc with the result res. *)
At(q, pc, res) == [op |-> q.op, pc |-> pc, id |-> q.id, email |-> q.email, pw |-> q.pw,
                   old |-> q.old, res |-> res]

(* The state of a request, moved, is a state of a request. *)
LEMMA AtType ==
  ASSUME NEW q \in CallRec, NEW pc \in UserPcs, NEW res \in UserResults
  PROVE  At(q, pc, res) \in CallRec
  BY DEF At, CallRec

(* What moving a request changes, and what it leaves. *)
LEMMA AtFields ==
  ASSUME NEW q, NEW pc, NEW res
  PROVE  At(q, pc, res).op = q.op /\ At(q, pc, res).pc = pc /\ At(q, pc, res).res = res
  BY DEF At

(* Goto moves a request and leaves its result. *)
LEMMA GotoMoves ==
  ASSUME UserTypes, NEW c \in Calls, NEW pc, Goto(c, pc)
  PROVE  call' = [call EXCEPT ![c] = At(call[c], pc, call[c].res)]
<1>1. call[c] \in CallRec BY DEF UserTypes
<1>2. call' = [call EXCEPT ![c] = [call[c] EXCEPT !.pc = pc]] BY ZenonT(30) DEF Goto
<1>3. [call[c] EXCEPT !.pc = pc] = At(call[c], pc, call[c].res) BY <1>1 DEF At, CallRec
<1> QED BY <1>2, <1>3, ZenonT(30)

(* Leave moves a request and sets its result. *)
LEMMA EndMoves ==
  ASSUME UserTypes, NEW c \in Calls, NEW pc, NEW res, Leave(c, pc, res)
  PROVE  call' = [call EXCEPT ![c] = At(call[c], pc, res)]
<1>1. call[c] \in CallRec BY DEF UserTypes
<1>2. [call[c] EXCEPT !.pc = pc] = At(call[c], pc, call[c].res) BY <1>1 DEF At, CallRec
<1>3. [At(call[c], pc, call[c].res) EXCEPT !.res = res] = At(call[c], pc, res) BY DEF At
<1>4. call' = [call EXCEPT ![c] = [[call[c] EXCEPT !.pc = pc] EXCEPT !.res = res]]
  BY <1>1, ZenonT(30) DEF Leave, UserTypes, CallRec
<1> QED BY <1>2, <1>3, <1>4, ZenonT(30)

-----------------------------------------------------------------------------
(* What the invariant says of one request. *)
LEMMA OneCall ==
  ASSUME UserInv, NEW c \in Calls
  PROVE  /\ UserTypes /\ call[c] \in CallRec
         /\ CallOK(call[c], rows[c], rows[call[c].id], pending[c], c \in audit)
         /\ call[c].pc # "done" => c \notin audit
<1>1. UserTypes /\ call[c] \in CallRec BY DEF UserInv, UserTypes
<1>2. CallOK(call[c], rows[c], rows[call[c].id], pending[c], c \in audit) BY DEF UserInv
<1>3. call[c].pc # "done" => c \notin audit BY <1>2 DEF CallOK
<1> QED BY <1>1, <1>2, <1>3

(* A request arrives. *)
LEMMA ArriveKeeps ==
  ASSUME UserInv, NEW c \in Calls, call[c].pc = "idle", UNCHANGED <<rows, pending, audit>>,
         NEW op \in UserOps, NEW pc \in UserPcs, NEW i \in UserIds,
         NEW e \in Emails \cup {Unset}, NEW pw \in Passwords, Arrive(c, op, pc, i, e, pw),
         \/ op = "create" /\ pc = "check" /\ e \in Emails
         \/ op # "create" /\ pc = "old"
         \/ op = "password" /\ pc = "read"
  PROVE  UserInv'
<1> DEFINE r == [op |-> op, pc |-> pc, id |-> i, email |-> e, pw |-> pw, old |-> NoRow,
                 res |-> "none"]
<1>1. c \notin audit BY OneCall
<1>2. CallOK(call[c], rows[c], rows[call[c].id], pending[c], c \in audit) BY OneCall
<1>3. r \in CallRec BY DEF CallRec, UserResults
<1>4. CallOK(r, rows[c], rows[r.id], pending[c], FALSE) BY <1>2 DEF CallOK
<1>5. call' = [call EXCEPT ![c] = r] BY DEF Arrive
<1> HIDE DEF r
<1> QED BY <1>1, <1>3, <1>4, <1>5, CallMoves, ZenonT(30)

(* The handlers, which bind a request and call the use case. *)
LEMMA HandlersKeep ==
  ASSUME UserInv, NEW c \in Calls,
         CreateHandler(c) \/ UpdateHandler(c) \/ DeleteHandler(c) \/ StateHandler(c)
           \/ PasswordHandler(c)
  PROVE  UserInv'
<1>1. call[c].pc = "idle" /\ UNCHANGED <<rows, pending, audit>>
  BY DEF CreateHandler, UpdateHandler, DeleteHandler, StateHandler, PasswordHandler
<1>2. c \in UserIds /\ "initial" \in Passwords BY DEF UserIds, Passwords
<1> USE DEF UserOps, UserPcs
<1>3. CASE CreateHandler(c) BY <1>1, <1>2, <1>3, ArriveKeeps DEF CreateHandler
<1>4. CASE UpdateHandler(c) BY <1>1, <1>2, <1>4, ArriveKeeps DEF UpdateHandler
<1>5. CASE DeleteHandler(c) BY <1>1, <1>2, <1>5, ArriveKeeps DEF DeleteHandler
<1>6. CASE StateHandler(c) BY <1>1, <1>2, <1>6, ArriveKeeps DEF StateHandler
<1>7. CASE PasswordHandler(c) BY <1>1, <1>2, <1>7, ArriveKeeps DEF PasswordHandler
<1> QED BY <1>3, <1>4, <1>5, <1>6, <1>7

(* A request goes on, and only its own state changes. *)
LEMMA GoesOn ==
  ASSUME UserInv, NEW c \in Calls, UNCHANGED <<rows, pending, audit>>,
         NEW pc \in UserPcs, NEW res \in UserResults,
         call' = [call EXCEPT ![c] = At(call[c], pc, res)],
         call[c].pc # "done",
         CallOK(At(call[c], pc, res), rows[c], rows[call[c].id], pending[c], FALSE)
  PROVE  UserInv'
<1>1. c \notin audit /\ call[c] \in CallRec BY OneCall
<1>2. At(call[c], pc, res) \in CallRec BY <1>1, AtType
<1>3. At(call[c], pc, res).id = call[c].id BY DEF At
<1> QED BY <1>1, <1>2, <1>3, CallMoves, ZenonT(30)
(* The steps that only read the table. *)
LEMMA ReadsKeep ==
  ASSUME UserInv, NEW c \in Calls,
         ExistsByEmail(c) \/ GetByID(c) \/ ChangePassword(c) \/ Activate(c) \/ Deactivate(c)
           \/ RevokeSessions(c) \/ StatementFails(c)
  PROVE  UserInv'
<1> DEFINE q == call[c]
<1> USE DEF UserPcs, UserResults
<1>1. UserTypes /\ q \in CallRec BY OneCall
<1>2. q.op \in UserOps /\ q.res \in UserResults BY <1>1 DEF CallRec
<1>3. CallOK(q, rows[c], rows[q.id], pending[c], c \in audit) BY OneCall
<1>4. UNCHANGED <<rows, pending, audit>>
  BY ZenonT(30) DEF ExistsByEmail, GetByID, ChangePassword, Activate, Deactivate, RevokeSessions,
         StatementFails
<1>5. CASE ExistsByEmail(c)
  <2>1. q.pc = "check" BY <1>5 DEF ExistsByEmail
  <2>2. CASE Leave(c, "rollback", "conflict")
    <3>1. call' = [call EXCEPT ![c] = At(q, "rollback", "conflict")] BY <1>1, <2>2, EndMoves
    <3>2. CallOK(At(q, "rollback", "conflict"), rows[c], rows[q.id], pending[c], FALSE)
      BY <1>3, <2>1 DEF CallOK, At
    <3> QED BY <1>4, <2>1, <3>1, <3>2, GoesOn, ZenonT(30)
  <2>3. CASE Goto(c, "insert")
    <3>1. call' = [call EXCEPT ![c] = At(q, "insert", q.res)] BY <1>1, <2>3, GotoMoves
    <3>2. CallOK(At(q, "insert", q.res), rows[c], rows[q.id], pending[c], FALSE)
      BY <1>3, <2>1 DEF CallOK, At
    <3> QED BY <1>2, <1>4, <2>1, <3>1, <3>2, GoesOn, ZenonT(30)
  <2> QED BY <1>5, <2>2, <2>3 DEF ExistsByEmail
<1>6. CASE GetByID(c)
  <2>1. q.pc = "old" BY <1>6 DEF GetByID
  <2>2. CASE rows[q.id] = NoRow
    <3>1. Result(c, "notfound") BY <1>6, <2>2 DEF GetByID, Target
    <3>2. call' = [call EXCEPT ![c] = At(q, "done", "notfound")]
      BY <1>1, <3>1, EndMoves DEF Result
    <3>3. CallOK(At(q, "done", "notfound"), rows[c], rows[q.id], pending[c], FALSE)
      BY <1>3, <2>1 DEF CallOK, At
    <3> QED BY <1>4, <2>1, <3>2, <3>3, GoesOn, ZenonT(30)
  <2>3. CASE rows[q.id] # NoRow
    <3> DEFINE pc == IF q.op \in {"update", "delete"} THEN "write" ELSE "read"
               r == [op |-> q.op, pc |-> pc, id |-> q.id, email |-> q.email, pw |-> q.pw,
                     old |-> rows[q.id], res |-> q.res]
    <3>1. call' = [call EXCEPT ![c].old = rows[q.id], ![c].pc = pc]
      BY <1>6, <2>3 DEF GetByID, Target
    <3> HIDE DEF pc
    <3>2. [call EXCEPT ![c].old = rows[q.id], ![c].pc = pc]
            = [call EXCEPT ![c] = [q EXCEPT !.old = rows[q.id], !.pc = pc]]
      BY <1>1, ZenonT(30) DEF UserTypes
    <3>3. [q EXCEPT !.old = rows[q.id], !.pc = pc]
            = [[q EXCEPT !.old = rows[q.id]] EXCEPT !.pc = pc]
      BY <1>1 DEF CallRec
    <3>4. [q EXCEPT !.old = rows[q.id]]
            = [op |-> q.op, pc |-> q.pc, id |-> q.id, email |-> q.email, pw |-> q.pw,
               old |-> rows[q.id], res |-> q.res]
      BY <1>1 DEF CallRec
    <3>5. [[op |-> q.op, pc |-> q.pc, id |-> q.id, email |-> q.email, pw |-> q.pw,
            old |-> rows[q.id], res |-> q.res] EXCEPT !.pc = pc] = r
      OBVIOUS
    <3>6. call' = [call EXCEPT ![c] = r] BY <3>1, <3>2, <3>3, <3>4, <3>5, ZenonT(30)
    <3>7. pc \in {"write", "read"} BY DEF pc
    <3>8. rows[q.id] \in Row \cup {NoRow} BY <1>1 DEF UserTypes, CallRec
    <3>9. r \in CallRec BY <1>1, <3>7, <3>8 DEF CallRec
    <3>10. CallOK(r, rows[c], rows[r.id], pending[c], FALSE) BY <1>3, <2>1, <2>3, <3>7 DEF CallOK
    <3>11. c \notin audit BY <2>1, OneCall
    <3> HIDE DEF r
    <3> QED BY <1>4, <3>6, <3>9, <3>10, <3>11, CallMoves, ZenonT(30)
  <2> QED BY <2>2, <2>3
<1>7. CASE ChangePassword(c)
  <2>1. q.pc = "read" /\ q.op = "password" BY <1>7 DEF ChangePassword
  <2>2. \/ \E res \in {"notfound", "denied"} : Result(c, res)
        \/ rows[q.id] # NoRow /\ Goto(c, "write")
    BY <1>7, ZenonT(30) DEF ChangePassword, Target
  <2>3. ASSUME NEW res \in {"notfound", "denied"}, Result(c, res) PROVE UserInv'
    <3>1. call' = [call EXCEPT ![c] = At(q, "done", res)] BY <1>1, <2>3, EndMoves DEF Result
    <3>2. CallOK(At(q, "done", res), rows[c], rows[q.id], pending[c], FALSE)
      BY <1>3, <2>1 DEF CallOK, At
    <3> QED BY <1>4, <2>1, <3>1, <3>2, GoesOn, ZenonT(30)
  <2>4. CASE rows[q.id] # NoRow /\ Goto(c, "write")
    <3>1. call' = [call EXCEPT ![c] = At(q, "write", q.res)] BY <1>1, <2>4, GotoMoves
    <3>2. CallOK(At(q, "write", q.res), rows[c], rows[q.id], pending[c], FALSE)
      BY <1>3, <2>1, <2>4 DEF CallOK, At
    <3> QED BY <1>2, <1>4, <2>1, <3>1, <3>2, GoesOn, ZenonT(30)
  <2> QED BY <2>2, <2>3, <2>4
<1>8. CASE Activate(c) \/ Deactivate(c)
  <2>1. q.pc = "read" /\ q.op \in {"activate", "deactivate"}
    BY <1>8 DEF Activate, Deactivate
  <2>2. PICK pc \in {"log", "write"} : Goto(c, pc) BY <1>8 DEF Activate, Deactivate
  <2>3. call' = [call EXCEPT ![c] = At(q, pc, q.res)] BY <1>1, <2>2, GotoMoves
  <2>4. CallOK(At(q, pc, q.res), rows[c], rows[q.id], pending[c], FALSE)
    BY <1>3, <2>1 DEF CallOK, At
  <2> QED BY <1>2, <1>4, <2>1, <2>3, <2>4, GoesOn, ZenonT(30)
<1>9. CASE RevokeSessions(c)
  <2>1. q.pc = "revoke" BY <1>9 DEF RevokeSessions
  <2>2. CASE Goto(c, "log")
    <3>1. call' = [call EXCEPT ![c] = At(q, "log", q.res)] BY <1>1, <2>2, GotoMoves
    <3>2. CallOK(At(q, "log", q.res), rows[c], rows[q.id], pending[c], FALSE)
      BY <1>3, <2>1 DEF CallOK, At
    <3> QED BY <1>2, <1>4, <2>1, <3>1, <3>2, GoesOn, ZenonT(30)
  <2>3. CASE Result(c, "error")
    <3>1. call' = [call EXCEPT ![c] = At(q, "done", "error")] BY <1>1, <2>3, EndMoves DEF Result
    <3>2. CallOK(At(q, "done", "error"), rows[c], rows[q.id], pending[c], FALSE)
      BY <1>3, <2>1 DEF CallOK, At
    <3> QED BY <1>4, <2>1, <3>1, <3>2, GoesOn, ZenonT(30)
  <2> QED BY <1>9, <2>2, <2>3 DEF RevokeSessions
<1>10. CASE StatementFails(c)
  <2> DEFINE pc == IF q.op = "create" THEN "rollback" ELSE "done"
  <2>1. q.pc \in {"check", "insert", "old", "read", "write"} BY <1>10 DEF StatementFails
  <2>2. call' = [call EXCEPT ![c] = At(q, pc, "error")]
    BY <1>1, <1>10, EndMoves DEF StatementFails
  <2>3. CallOK(At(q, pc, "error"), rows[c], rows[q.id], pending[c], FALSE)
    BY <1>3, <2>1 DEF CallOK, At
  <2>4. pc \in UserPcs OBVIOUS
  <2> HIDE DEF pc
  <2> QED BY <1>4, <2>1, <2>2, <2>3, <2>4, GoesOn, ZenonT(30)
<1> QED BY <1>5, <1>6, <1>7, <1>8, <1>9, <1>10
-----------------------------------------------------------------------------
(* A row stays a row, and only the request c may make one of its own name: *)
(* the other requests keep what the invariant says of them.                *)
LEMMA OthersKeep ==
  ASSUME UserInv, NEW c \in Calls, NEW r \in CallRec, call' = [call EXCEPT ![c] = r],
         rows' \in [UserIds -> Row \cup {NoRow}], pending' \in [Calls -> Row \cup {NoRow}],
         \A i \in UserIds : rows[i] # NoRow => rows'[i] # NoRow,
         \A d \in Calls : d # c => pending'[d] = pending[d] /\ (rows[d] = NoRow => rows'[d] = NoRow),
         audit \subseteq audit', audit' \subseteq audit \cup {c},
         EmailsUnique', PendingApart',
         CallOK(r, rows'[c], rows'[r.id], pending'[c], c \in audit')
  PROVE  UserInv'
<1>1. UserTypes' BY ZenonT(30) DEF UserInv, UserTypes
<1>2. (audit \subseteq Calls)' BY DEF UserInv
<1>3. ASSUME NEW d \in Calls
      PROVE  CallOK(call'[d], rows'[d], rows'[call'[d].id], pending'[d], d \in audit')
  <2>1. CASE d = c
    <3>1. call'[d] = r BY <2>1 DEF UserInv, UserTypes
    <3> QED BY <2>1, <3>1
  <2>2. CASE d # c
    <3>1. call'[d] = call[d] /\ call[d] \in CallRec BY <2>2 DEF UserInv, UserTypes
    <3>2. CallOK(call[d], rows[d], rows[call[d].id], pending[d], d \in audit) BY DEF UserInv
    <3>3. (d \in audit') <=> (d \in audit) BY <2>2
    <3>4. (rows'[d] = NoRow) <=> (rows[d] = NoRow) BY <2>2 DEF UserIds
    <3>5. rows[call[d].id] # NoRow => rows'[call[d].id] # NoRow BY <3>1 DEF CallRec
    <3>6. pending'[d] = pending[d] BY <2>2
    <3>7. CallOK(call[d], rows'[d], rows'[call[d].id], pending'[d], d \in audit')
      BY <3>2, <3>3, <3>4, <3>5, <3>6 DEF CallOK
    <3> QED BY <3>1, <3>7
  <2> QED BY <2>1, <2>2
<1> QED BY <1>1, <1>2, <1>3 DEF UserInv

(* WithTx rolls back: the e-mail of the row is free again. *)
LEMMA RollbackKeeps == ASSUME UserInv, NEW c \in Calls, Rollback(c) PROVE UserInv'
<1> DEFINE q == call[c]
           r == At(q, "done", q.res)
<1>1. UserTypes /\ q \in CallRec BY OneCall
<1>2. CallOK(q, rows[c], rows[q.id], pending[c], c \in audit) BY OneCall
<1>3. /\ q.pc = "rollback" /\ rows' = rows /\ audit' = audit
      /\ pending' = [pending EXCEPT ![c] = NoRow]
  BY DEF Rollback
<1>4. call' = [call EXCEPT ![c] = r] BY <1>1, GotoMoves DEF Rollback
<1>5. r \in CallRec
  <2>1. q.res \in UserResults BY <1>1 DEF CallRec
  <2> QED BY <1>1, <2>1, AtType DEF UserPcs
<1>6. pending' \in [Calls -> Row \cup {NoRow}] /\ pending'[c] = NoRow
      /\ \A d \in Calls : d # c => pending'[d] = pending[d]
  BY <1>1, <1>3 DEF UserTypes
<1>7. EmailsUnique' BY <1>3 DEF UserInv, EmailsUnique
<1>8. PendingApart' BY <1>3, <1>6 DEF UserInv, PendingApart
<1>9. c \notin audit BY <1>3, OneCall
<1>10. CallOK(r, rows[c], rows[r.id], NoRow, c \in audit) BY <1>2, <1>3, <1>9 DEF CallOK, At
<1>11. rows' \in [UserIds -> Row \cup {NoRow}] BY <1>1, <1>3 DEF UserTypes
<1> HIDE DEF r
<1> QED BY <1>3, <1>4, <1>5, <1>6, <1>7, <1>8, <1>10, <1>11, OthersKeep, ZenonT(30)

(* The INSERT of Create takes an e-mail that no row and no open            *)
(* transaction has.                                                        *)
LEMMA RepoCreateKeeps == ASSUME UserInv, NEW c \in Calls, RepoCreate(c) PROVE UserInv'
<1> DEFINE q == call[c]
<1>1. UserTypes /\ q \in CallRec BY OneCall
<1>2. CallOK(q, rows[c], rows[q.id], pending[c], c \in audit) BY OneCall
<1>3. q.pc = "insert" /\ rows' = rows /\ audit' = audit /\ ~Waits(q.email, c) BY DEF RepoCreate
<1>4. CASE Taken(q.email, c)
  <2>1. Leave(c, "rollback", "conflict") /\ pending' = pending BY <1>4 DEF RepoCreate
  <2>2. call' = [call EXCEPT ![c] = At(q, "rollback", "conflict")] BY <1>1, <2>1, EndMoves
  <2>3. CallOK(At(q, "rollback", "conflict"), rows[c], rows[q.id], pending[c], FALSE)
    BY <1>2, <1>3 DEF CallOK, At
  <2> QED BY <1>3, <2>1, <2>2, <2>3, GoesOn, ZenonT(30) DEF UserPcs, UserResults
<1>5. CASE ~Taken(q.email, c)
  <2> DEFINE x == CreateUser(q.email, c)
  <2>1. pending' = [pending EXCEPT ![c] = x] BY <1>5 DEF RepoCreate
  <2>2. Goto(c, "commit") \/ Leave(c, "rollback", "error") BY <1>5 DEF RepoCreate
  <2>3. PICK r \in {At(q, "commit", q.res), At(q, "rollback", "error")} :
          call' = [call EXCEPT ![c] = r]
    BY <1>1, <2>2, GotoMoves, EndMoves
  <2>4. q.op = "create" /\ q.email \in Emails /\ q.res = "none" /\ rows[c] = NoRow
    BY <1>2, <1>3 DEF CallOK
  <2>5. r \in CallRec BY <1>1, <2>4, AtType DEF UserPcs, UserResults
  <2>6. x \in Row /\ x # NoRow /\ x.email = q.email
    <3>1. x \in Row BY <2>4 DEF CreateUser, Row, Passwords
    <3>2. x.email = q.email BY DEF CreateUser
    <3> HIDE DEF x
    <3> QED BY <3>1, <3>2, UserInputs
  <2> HIDE DEF x
  <2>7. pending' \in [Calls -> Row \cup {NoRow}] /\ pending'[c] = x
        /\ \A d \in Calls : d # c => pending'[d] = pending[d]
    BY <1>1, <2>1, <2>6 DEF UserTypes
  <2>8. EmailsUnique' BY <1>3 DEF UserInv, EmailsUnique
  <2>9. PendingApart'
    <3>1. \A i \in UserIds : rows[i] # NoRow => rows[i].email # q.email
      BY <1>5, <2>4 DEF Taken
    <3>2. \A d \in Calls : d # c /\ pending[d] # NoRow => pending[d].email # q.email
      BY <1>3 DEF Waits
    <3> QED BY <1>3, <2>6, <2>7, <3>1, <3>2 DEF UserInv, PendingApart
  <2>10. c \notin audit BY <1>3, OneCall
  <2>11. CallOK(r, rows[c], rows[r.id], x, c \in audit)
    <3>1. r.op = "create" /\ ((r.pc = "commit" /\ r.res = "none") \/ r.pc = "rollback")
      BY <2>3, <2>4, AtFields
    <3> QED BY <2>4, <2>6, <2>10, <3>1 DEF CallOK
  <2>12. rows' \in [UserIds -> Row \cup {NoRow}] BY <1>1, <1>3 DEF UserTypes
  <2> QED BY <1>3, <2>3, <2>5, <2>7, <2>8, <2>9, <2>11, <2>12, OthersKeep, ZenonT(30)
<1> QED BY <1>4, <1>5
(* The COMMIT publishes the row under the e-mail it already held. *)
LEMMA CommitKeeps == ASSUME UserInv, NEW c \in Calls, Commit(c) PROVE UserInv'
<1> DEFINE q == call[c]
<1>1. UserTypes /\ q \in CallRec BY OneCall
<1>2. CallOK(q, rows[c], rows[q.id], pending[c], c \in audit) BY OneCall
<1>3. q.pc = "commit" /\ audit' = audit /\ pending' = [pending EXCEPT ![c] = NoRow] BY DEF Commit
<1>4. q.op = "create" /\ q.res = "none" /\ rows[c] = NoRow /\ pending[c] # NoRow
  BY <1>2, <1>3 DEF CallOK
<1>5. pending' \in [Calls -> Row \cup {NoRow}] /\ pending'[c] = NoRow
      /\ \A d \in Calls : d # c => pending'[d] = pending[d]
  BY <1>1, <1>3 DEF UserTypes
<1>6. c \notin audit /\ c \in UserIds BY <1>3, OneCall DEF UserIds
<1>7. CASE rows' = rows /\ Result(c, "uncertain")
  <2> DEFINE r == At(q, "done", "uncertain")
  <2>1. call' = [call EXCEPT ![c] = r] BY <1>1, <1>7, EndMoves DEF Result
  <2>2. r \in CallRec BY <1>1, AtType DEF UserPcs, UserResults
  <2>3. CallOK(r, rows'[c], rows'[r.id], NoRow, c \in audit')
    BY <1>3, <1>4, <1>6, <1>7 DEF CallOK, At
  <2>4. EmailsUnique' BY <1>7 DEF UserInv, EmailsUnique
  <2>5. PendingApart' BY <1>5, <1>7 DEF UserInv, PendingApart
  <2>6. rows' \in [UserIds -> Row \cup {NoRow}] BY <1>1, <1>7 DEF UserTypes
  <2> HIDE DEF r
  <2> QED BY <1>3, <1>5, <1>7, <2>1, <2>2, <2>3, <2>4, <2>5, <2>6, OthersKeep, ZenonT(30)
<1>8. CASE /\ rows' = [rows EXCEPT ![c] = pending[c]]
           /\ Goto(c, "log") \/ Result(c, "uncertain")
  <2>1. PICK r \in {At(q, "log", q.res), At(q, "done", "uncertain")} :
          call' = [call EXCEPT ![c] = r]
    BY <1>1, <1>8, GotoMoves, EndMoves DEF Result
  <2>2. r \in CallRec BY <1>1, <1>4, <2>1, AtType DEF UserPcs, UserResults
  <2>3. rows' \in [UserIds -> Row \cup {NoRow}] /\ rows'[c] = pending[c]
        /\ \A i \in UserIds : i # c => rows'[i] = rows[i]
    BY <1>1, <1>6, <1>8 DEF UserTypes
  <2>4. r.op = "create" /\ ((r.pc = "log" /\ r.res = "none") \/ (r.pc = "done" /\ r.res = "uncertain"))
    BY <1>4, <2>1, AtFields
  <2>5. CallOK(r, rows'[c], rows'[r.id], NoRow, c \in audit')
    BY <1>3, <1>4, <1>6, <2>3, <2>4 DEF CallOK
  <2>6. EmailsUnique' BY <1>4, <2>3 DEF UserInv, EmailsUnique, PendingApart
  <2>7. PendingApart' BY <1>4, <1>5, <2>3 DEF UserInv, PendingApart
  <2>8. \A d \in Calls : d # c => rows'[d] = rows[d] BY <2>3 DEF UserIds
  <2>9. \A i \in UserIds : rows[i] # NoRow => rows'[i] # NoRow BY <1>4, <2>3
  <2> QED BY <1>3, <1>5, <2>1, <2>2, <2>3, <2>5, <2>6, <2>7, <2>8, <2>9, OthersKeep, ZenonT(30)
<1>9. \/ rows' = rows /\ Result(c, "uncertain")
      \/ /\ rows' = [rows EXCEPT ![c] = pending[c]]
         /\ Goto(c, "log") \/ Result(c, "uncertain")
  BY DEF Commit
<1> QED BY <1>7, <1>8, <1>9

(* A statement that changes a row: to an e-mail no other row and no open   *)
(* transaction has, or to the one it had.                                  *)
LEMMA StoreRowKeeps ==
  ASSUME UserInv, NEW c \in Calls, NEW x \in Row, NEW next \in {"log", "revoke"},
         call[c].pc = "write", next = "revoke" => call[c].op = "password",
         StoreRow(c, x, next), pending' = pending, audit' = audit,
         \/ x.email = rows[call[c].id].email
         \/ ~Taken(x.email, call[c].id) /\ ~Waits(x.email, c)
  PROVE  UserInv'
<1> DEFINE q == call[c]
<1>1. UserTypes /\ q \in CallRec /\ q.id \in UserIds BY OneCall DEF CallRec
<1>2. CallOK(q, rows[c], rows[q.id], pending[c], c \in audit) BY OneCall
<1>3. q.op # "create" /\ q.res = "none" /\ rows[c] = NoRow /\ pending[c] = NoRow
      /\ rows[q.id] # NoRow
  BY <1>2 DEF CallOK
<1>4. PICK r \in {At(q, next, q.res), At(q, "done", "uncertain")} :
        call' = [call EXCEPT ![c] = r]
  <2>1. CASE Goto(c, next) BY <1>1, <2>1, GotoMoves
  <2>2. CASE Result(c, "uncertain") BY <1>1, <2>2, EndMoves DEF Result
  <2> QED BY <2>1, <2>2 DEF StoreRow
<1>5. r \in CallRec BY <1>1, <1>3, <1>4, AtType DEF UserPcs, UserResults
<1>6. /\ rows' \in [UserIds -> Row \cup {NoRow}] /\ rows'[q.id] = x
      /\ \A i \in UserIds : i # q.id => rows'[i] = rows[i]
  BY <1>1 DEF UserTypes, StoreRow
<1>7. x # NoRow BY UserInputs
<1>8. c \notin audit /\ c \in UserIds BY OneCall DEF UserIds
<1>9. rows'[c] = NoRow BY <1>3, <1>6, <1>8
<1>10. r.op = q.op /\ ((r.pc = next /\ r.res = "none") \/ (r.pc = "done" /\ r.res = "uncertain"))
  BY <1>3, <1>4, AtFields
<1>11. CallOK(r, rows'[c], rows'[r.id], pending'[c], c \in audit')
  BY <1>3, <1>8, <1>9, <1>10 DEF CallOK
<1>12. \A j \in UserIds : j # q.id /\ rows[j] # NoRow => rows[j].email # x.email
  BY <1>1, <1>3 DEF UserInv, EmailsUnique, Taken
<1>13. \A d \in Calls : pending[d] # NoRow => pending[d].email # x.email
  BY <1>1, <1>3 DEF UserInv, PendingApart, Waits
<1>14. EmailsUnique'
  <2> SUFFICES ASSUME NEW i \in UserIds, NEW j \in UserIds, i # j, rows'[i] # NoRow,
                      rows'[j] # NoRow
               PROVE  rows'[i].email # rows'[j].email
    BY DEF EmailsUnique
  <2>1. CASE i = q.id BY <1>6, <1>12, <2>1
  <2>2. CASE j = q.id BY <1>6, <1>12, <2>2
  <2>3. CASE i # q.id /\ j # q.id BY <1>6, <2>3 DEF UserInv, EmailsUnique
  <2> QED BY <2>1, <2>2, <2>3
<1>15. PendingApart' BY <1>1, <1>6, <1>13 DEF UserInv, PendingApart
<1>16. \A i \in UserIds : rows[i] # NoRow => rows'[i] # NoRow BY <1>6, <1>7
<1>17. \A d \in Calls : rows[d] = NoRow => rows'[d] = NoRow BY <1>3, <1>6 DEF UserIds
<1>18. pending' \in [Calls -> Row \cup {NoRow}] BY <1>1 DEF UserTypes
<1> QED BY <1>4, <1>5, <1>6, <1>11, <1>14, <1>15, <1>16, <1>17, <1>18, OthersKeep, ZenonT(30)
(* UPDATE of one row: only Update may give it another e-mail. *)
LEMMA WritesKeep ==
  ASSUME UserInv, NEW c \in Calls,
         RepoUpdate(c) \/ RepoUpdatePassword(c) \/ RepoDelete(c) \/ RepoActivate(c)
           \/ RepoDeactivate(c)
  PROVE  UserInv'
<1> DEFINE q == call[c]
           t == rows[q.id]
<1>1. UserTypes /\ q \in CallRec BY OneCall
<1>2. CallOK(q, rows[c], t, pending[c], c \in audit) BY OneCall
<1>3. q.pc = "write" /\ pending' = pending /\ audit' = audit
  BY DEF RepoUpdate, RepoUpdatePassword, RepoDelete, RepoActivate, RepoDeactivate
<1>4. t \in Row
  <2>1. t # NoRow BY <1>2, <1>3 DEF CallOK
  <2>2. t \in Row \cup {NoRow} BY <1>1 DEF UserTypes, CallRec
  <2> QED BY <2>1, <2>2
<1>5. t.email \in Emails /\ t.active \in BOOLEAN /\ t.pw \in Passwords BY <1>4 DEF Row
<1>6. c \in Passwords BY DEF Passwords
<1>7. CASE RepoUpdate(c)
  <2> DEFINE x == UpdateUser(t, q.email)
  <2>1. x \in Row
    <3>1. q.email \in Emails \cup {Unset} BY <1>1 DEF CallRec
    <3>2. (IF q.email = Unset THEN t.email ELSE q.email) \in Emails BY <1>5, <3>1
    <3> QED BY <1>5, <3>2 DEF UpdateUser, Row
  <2>2. ~Waits(x.email, c) BY <1>7 DEF RepoUpdate, Target
  <2>3. CASE Taken(x.email, q.id)
    <3>1. Leave(c, "done", "conflict") /\ rows' = rows
      BY <1>7, <2>3 DEF RepoUpdate, Target, Result
    <3>2. call' = [call EXCEPT ![c] = At(q, "done", "conflict")] BY <1>1, <3>1, EndMoves
    <3>3. CallOK(At(q, "done", "conflict"), rows[c], t, pending[c], FALSE)
      BY <1>2, <1>3 DEF CallOK, At
    <3> QED BY <1>3, <3>1, <3>2, <3>3, GoesOn, ZenonT(30) DEF UserPcs, UserResults
  <2>4. CASE ~Taken(x.email, q.id)
    <3>1. StoreRow(c, x, "log") BY <1>7, <2>4, ZenonT(30) DEF RepoUpdate, Target
    <3> HIDE DEF x
    <3> QED BY <1>3, <2>1, <2>2, <2>4, <3>1, StoreRowKeeps, ZenonT(30)
  <2> QED BY <2>3, <2>4
<1>8. CASE RepoUpdatePassword(c)
  <2> DEFINE x == UpdatePasswordRow(t, c)
  <2>1. x \in Row BY <1>5, <1>6 DEF UpdatePasswordRow, Row
  <2>2. x.email = t.email BY DEF UpdatePasswordRow
  <2>3. StoreRow(c, x, "revoke") /\ q.op = "password" BY <1>8 DEF RepoUpdatePassword, Target
  <2> HIDE DEF x
  <2> QED BY <1>3, <2>1, <2>2, <2>3, StoreRowKeeps, ZenonT(30)
<1>9. CASE RepoDelete(c)
  <2> DEFINE x == DeleteUser(t)
  <2>1. x \in Row BY <1>5 DEF DeleteUser, Row
  <2>2. x.email = t.email BY DEF DeleteUser
  <2>3. StoreRow(c, x, "log") BY <1>9 DEF RepoDelete, Target
  <2> HIDE DEF x
  <2> QED BY <1>3, <2>1, <2>2, <2>3, StoreRowKeeps
<1>10. CASE RepoActivate(c)
  <2> DEFINE x == ActivateUser(t)
  <2>1. x \in Row BY <1>5 DEF ActivateUser, Row
  <2>2. x.email = t.email BY DEF ActivateUser
  <2>3. StoreRow(c, x, "log") BY <1>10 DEF RepoActivate, Target
  <2> HIDE DEF x
  <2> QED BY <1>3, <2>1, <2>2, <2>3, StoreRowKeeps
<1>11. CASE RepoDeactivate(c)
  <2> DEFINE x == DeactivateUser(t)
  <2>1. x \in Row BY <1>5 DEF DeactivateUser, Row
  <2>2. x.email = t.email BY DEF DeactivateUser
  <2>3. StoreRow(c, x, "log") BY <1>11 DEF RepoDeactivate, Target
  <2> HIDE DEF x
  <2> QED BY <1>3, <2>1, <2>2, <2>3, StoreRowKeeps
<1> QED BY <1>7, <1>8, <1>9, <1>10, <1>11

(* The decorator writes its entry after the call, or fails to. *)
LEMMA AuditsKeep ==
  ASSUME UserInv, NEW c \in Calls,
         AuditCreate(c) \/ AuditUpdate(c) \/ AuditPassword(c) \/ AuditDelete(c)
           \/ AuditActivate(c) \/ AuditDeactivate(c)
  PROVE  UserInv'
<1> DEFINE q == call[c]
           r == At(q, "done", "ok")
<1>1. UserTypes /\ q \in CallRec BY OneCall
<1>2. CallOK(q, rows[c], rows[q.id], pending[c], c \in audit) BY OneCall
<1>3. /\ q.pc = "log" /\ Result(c, "ok") /\ rows' = rows /\ pending' = pending
      /\ audit \subseteq audit' /\ audit' \subseteq audit \cup {c}
  BY DEF AuditCreate, AuditUpdate, AuditPassword, AuditDelete, AuditActivate, AuditDeactivate,
         Answered, Log
<1>4. call' = [call EXCEPT ![c] = r] BY <1>1, <1>3, EndMoves DEF Result
<1>5. r \in CallRec BY <1>1, AtType DEF UserPcs, UserResults
<1>6. CallOK(r, rows[c], rows[r.id], pending[c], c \in audit')
  <2>1. r.op = q.op /\ r.pc = "done" /\ r.res = "ok" BY AtFields
  <2>2. /\ pending[c] = NoRow
        /\ q.op # "create" => rows[c] = NoRow
        /\ q.op = "create" => rows[c] # NoRow
    BY <1>2, <1>3 DEF CallOK
  <2> HIDE DEF r
  <2> QED BY <2>1, <2>2 DEF CallOK
<1>7. EmailsUnique' /\ PendingApart' BY <1>3 DEF UserInv, EmailsUnique, PendingApart
<1>8. rows' \in [UserIds -> Row \cup {NoRow}] /\ pending' \in [Calls -> Row \cup {NoRow}]
  BY <1>1, <1>3 DEF UserTypes
<1> HIDE DEF r
<1> QED BY <1>3, <1>4, <1>5, <1>6, <1>7, <1>8, OthersKeep, ZenonT(30)

-----------------------------------------------------------------------------
(* The steps of the requests keep the invariant, fair or not. *)
LEMMA UserSafe == UserInit /\ [][UserNext]_userVars => []UserInv
<1>1. UserInit => UserInv BY UserInvInit
<1>2. UserInv /\ [UserNext]_userVars => UserInv'
  <2> SUFFICES ASSUME UserInv, [UserNext]_userVars PROVE UserInv' OBVIOUS
  <2>1. CASE UserNext
    <3>1. PICK c \in Calls :
            \/ CreateHandler(c) \/ UpdateHandler(c) \/ DeleteHandler(c) \/ StateHandler(c)
            \/ PasswordHandler(c) \/ UserStep(c) \/ StatementFails(c)
      BY <2>1 DEF UserNext
    <3>2. CASE UserStep(c)
      BY <3>2, ReadsKeep, RollbackKeeps, RepoCreateKeeps, CommitKeeps, WritesKeep, AuditsKeep
         DEF UserStep
    <3> QED BY <3>1, <3>2, HandlersKeep, ReadsKeep
  <2>2. CASE UNCHANGED userVars
    BY <2>2 DEF userVars, UserInv, UserTypes, EmailsUnique, PendingApart
  <2> QED BY <2>1, <2>2
<1> QED BY <1>1, <1>2, PTL

(* The inductive invariant of the user module. *)
THEOREM UserInvariant == UserSpec => []UserInv
BY UserSafe, PTL DEF UserSpec

(* Only calls enter the audit trail and the histories. *)
LEMMA UserHistories ==
  ASSUME wrote \subseteq Calls, untrue \subseteq Calls, [UserNext]_userVars
  PROVE  wrote' \subseteq Calls /\ untrue' \subseteq Calls
<1>1. CASE UNCHANGED userVars BY <1>1 DEF userVars
<1>2. ASSUME NEW c \in Calls,
             \/ CreateHandler(c) \/ UpdateHandler(c) \/ DeleteHandler(c) \/ StateHandler(c)
             \/ PasswordHandler(c) \/ StatementFails(c) \/ ExistsByEmail(c) \/ RepoCreate(c)
             \/ Rollback(c) \/ GetByID(c) \/ ChangePassword(c) \/ Activate(c) \/ Deactivate(c)
             \/ RevokeSessions(c)
      PROVE  UNCHANGED <<wrote, untrue>>
  BY <1>2, ZenonT(30) DEF CreateHandler, UpdateHandler, DeleteHandler, StateHandler, PasswordHandler,
    StatementFails, ExistsByEmail, RepoCreate, Rollback, GetByID, ChangePassword, Activate,
    Deactivate, RevokeSessions
<1>3. ASSUME NEW c \in Calls,
             \/ Commit(c) \/ RepoUpdate(c) \/ RepoUpdatePassword(c) \/ RepoDelete(c)
             \/ RepoActivate(c) \/ RepoDeactivate(c)
      PROVE  (wrote' = wrote \/ wrote' = wrote \cup {c}) /\ UNCHANGED untrue
  BY <1>3 DEF Commit, RepoUpdate, RepoUpdatePassword, RepoDelete, RepoActivate, RepoDeactivate,
    StoreRow
<1>4. ASSUME NEW c \in Calls,
             \/ AuditCreate(c) \/ AuditUpdate(c) \/ AuditPassword(c) \/ AuditDelete(c)
             \/ AuditActivate(c) \/ AuditDeactivate(c)
      PROVE  UNCHANGED wrote /\ (untrue' = untrue \/ untrue' = untrue \cup {c})
  BY <1>4 DEF AuditCreate, AuditUpdate, AuditPassword, AuditDelete, AuditActivate, AuditDeactivate,
    Log
<1> QED BY <1>1, <1>2, <1>3, <1>4 DEF UserNext, UserStep

(* The user module keeps to its types. *)
LEMMA UserTypesKept == UserInit /\ [][UserNext]_userVars => []UserTypeOK
<1>1. UserInit => wrote \subseteq Calls /\ untrue \subseteq Calls BY DEF UserInit
<1>2. /\ wrote \subseteq Calls /\ untrue \subseteq Calls /\ [UserNext]_userVars
      => (wrote \subseteq Calls /\ untrue \subseteq Calls)'
  BY UserHistories
<1>3. UserInv /\ wrote \subseteq Calls /\ untrue \subseteq Calls => UserTypeOK
  BY DEF UserInv, UserTypes, CallRec, UserTypeOK
<1> QED BY <1>1, <1>2, <1>3, UserSafe, PTL

(* No two rows of the users table ever share an e-mail, however many       *)
(* Create and Update calls run at once.                                    *)
THEOREM EmailsStayUnique == UserSpec => []EmailsUnique
<1>1. UserInv => EmailsUnique BY DEF UserInv
<1> QED BY <1>1, UserInvariant, PTL

(* A Create that answered a conflict or an error has left no row. *)
THEOREM FailedCreatesLeaveNothing == UserSpec => []NothingOfAFailedCreate
<1>1. UserInv => NothingOfAFailedCreate BY DEF UserInv, CallOK, NothingOfAFailedCreate
<1> QED BY <1>1, UserInvariant, PTL

(* The user of a CREATE entry in the audit trail exists. *)
THEOREM AuditedUsersExist == UserSpec => []AuditedCreateExists
<1>1. UserInv => AuditedCreateExists BY DEF UserInv, CallOK, AuditedCreateExists
<1> QED BY <1>1, UserInvariant, PTL

(***************************************************************************)
(* Pagination: a walk through the pages.                                   *)
(***************************************************************************)
(* A page that is not empty has a first and a last row.                    *)
LEMMA EndsExist ==
  ASSUME NEW T, T \subseteq Int, IsFiniteSet(T), T # {}
  PROVE  /\ FirstId(T) \in T /\ \A y \in T : FirstId(T) <= y
         /\ LastId(T) \in T /\ \A y \in T : y <= LastId(T)
  <1> DEFINE Ends(U) == /\ \E i \in U : \A j \in U : i <= j
                        /\ \E i \in U : \A j \in U : i >= j
             Bad == {n \in Nat : \E U \in SUBSET T :
                       IsFiniteSet(U) /\ Cardinality(U) = n /\ U # {} /\ ~Ends(U)}
  <1>1. 0 \notin Bad
    BY FS_EmptySet
  <1>2. ASSUME NEW n \in Nat, n \notin Bad PROVE n + 1 \notin Bad
    <2> SUFFICES ASSUME NEW U \in SUBSET T, IsFiniteSet(U), Cardinality(U) = n + 1, U # {}
                 PROVE  Ends(U)
      OBVIOUS
    <2>1. PICK x \in U : TRUE
      BY ZenonT(30)
    <2> DEFINE V == U \ {x}
    <2>2. IsFiniteSet(V) /\ Cardinality(V) = n
      <3>1. IsFiniteSet(V) /\ Cardinality(V) = Cardinality(U) - 1
        BY <2>1, FS_RemoveElement, ZenonT(30)
      <3> QED BY <3>1
    <2>3. CASE V = {}
      <3>1. U = {x} /\ x \in Int
        BY <2>1, <2>3, ZenonT(30)
      <3> QED BY <3>1
    <2>4. CASE V # {}
      <3>1. Ends(V)
        BY <1>2, <2>2, <2>4
      <3>2. PICK lo \in V : \A j \in V : lo <= j
        BY <3>1
      <3>3. PICK hi \in V : \A j \in V : hi >= j
        BY <3>1, ZenonT(30)
      <3>4. x \in Int /\ lo \in Int /\ hi \in Int /\ V \subseteq Int /\ U = V \cup {x}
        BY <2>1
      <3>5. \E i \in U : \A j \in U : i <= j
        <4>1. CASE x <= lo
          <5>1. \A j \in U : x <= j
            BY <3>2, <3>4, <4>1
          <5> QED BY <2>1, <5>1
        <4>2. CASE lo <= x
          <5>1. \A j \in U : lo <= j
            BY <3>2, <3>4, <4>2
          <5> QED BY <3>4, <5>1
        <4> QED BY <3>4, <4>1, <4>2
      <3>6. \E i \in U : \A j \in U : i >= j
        <4>1. CASE x >= hi
          <5>1. \A j \in U : x >= j
            BY <3>3, <3>4, <4>1
          <5> QED BY <2>1, <5>1
        <4>2. CASE hi >= x
          <5>1. \A j \in U : hi >= j
            BY <3>3, <3>4, <4>2
          <5> QED BY <3>4, <5>1
        <4> QED BY <3>4, <4>1, <4>2
      <3> QED BY <3>5, <3>6, ZenonT(30)
    <2> QED BY <2>3, <2>4
  <1>3. Bad = {}
    <2>1. Bad \subseteq Nat
      OBVIOUS
    <2> HIDE DEF Bad
    <2>2. SUFFICES ASSUME Bad # {} PROVE FALSE
      OBVIOUS
    <2>3. PICK m \in Bad : \A y \in Bad : ~(<<y, m>> \in OpToRel(<, Nat))
      BY <2>1, <2>2, WFMin, NatLessThanWellFounded, ZenonT(30)
    <2>4. m # 0 /\ m - 1 \in Nat /\ m - 1 < m /\ (m - 1) + 1 = m
      BY <1>1, <2>1
    <2>5. m - 1 \notin Bad
      BY <2>1, <2>3, <2>4, ZenonT(30) DEF OpToRel
    <2> QED BY <1>2, <2>3, <2>4, <2>5
  <1>4. Ends(T)
    <2>1. Cardinality(T) \in Nat
      BY FS_CardinalityType
    <2> HIDE DEF Ends
    <2> QED BY <1>3, <2>1
  <1>5. FirstId(T) \in T /\ \A y \in T : FirstId(T) <= y
    BY <1>4, ZenonT(30) DEF FirstId
  <1>6. LastId(T) \in T /\ \A y \in T : LastId(T) >= y
    BY <1>4, ZenonT(30) DEF LastId
  <1> QED BY <1>5, <1>6

(* A page is at least one row long.                                        *)
LEMMA LimitPositive ==
  ASSUME size \in Limits
  PROVE  NormalizeLimit(size) \in Nat \ {0}
  BY PageInputs DEF NormalizeLimit

(* LIMIT k of the LIMIT k + 1 is LIMIT k, in either order.                 *)
LEMMA LimitOfLimit ==
  ASSUME NEW S, S \subseteq Int, NEW k \in Nat, NEW F, NEW D
  PROVE  /\ F \in Highest(S, k + 1) /\ D \in Highest(F, k) => D \in Highest(S, k)
         /\ F \in Lowest(S, k + 1) /\ D \in Lowest(F, k) => D \in Lowest(S, k)
  BY DEF Highest, Lowest

(* LIMIT leaves no choice.                                                 *)
LEMMA HighestIsOne ==
  ASSUME NEW S, S \subseteq Int, IsFiniteSet(S), NEW k \in Nat,
         NEW F \in Highest(S, k), NEW G \in Highest(S, k)
  PROVE  F = G
  <1>1. IsFiniteSet(F) /\ IsFiniteSet(G) /\ F \subseteq S /\ G \subseteq S
    BY FS_Subset, ZenonT(30) DEF Highest
  <1>2. F \subseteq G \/ G \subseteq F
    <2> SUFFICES ASSUME NEW x \in F, x \notin G, NEW y \in G, y \notin F PROVE FALSE
      OBVIOUS
    <2>1. x > y /\ y > x /\ x \in Int /\ y \in Int
      BY DEF Highest
    <2> QED BY <2>1
  <1>3. Cardinality(F) \in Nat /\ Cardinality(G) \in Nat
    BY <1>1, FS_CardinalityType
  <1>4. ASSUME F \subseteq G, F # G PROVE FALSE
    <2>1. Cardinality(F) < Cardinality(G)
      <3>1. F \in SUBSET G
        BY <1>4
      <3>2. Cardinality(F) <= Cardinality(G) /\ (Cardinality(G) = Cardinality(F) => G = F)
        BY <1>1, <3>1, FS_Subset, ZenonT(30)
      <3> QED BY <1>3, <1>4, <3>2
    <2>2. F # S /\ Cardinality(F) = k /\ Cardinality(G) <= k
      BY <1>1, <1>4, ZenonT(30) DEF Highest
    <2> QED BY <1>3, <2>1, <2>2
  <1>5. ASSUME G \subseteq F, F # G PROVE FALSE
    <2>1. Cardinality(G) < Cardinality(F)
      <3>1. G \in SUBSET F
        BY <1>5
      <3>2. Cardinality(G) <= Cardinality(F) /\ (Cardinality(F) = Cardinality(G) => F = G)
        BY <1>1, <3>1, FS_Subset, ZenonT(30)
      <3> QED BY <1>3, <1>5, <3>2
    <2>2. G # S /\ Cardinality(G) = k /\ Cardinality(F) <= k
      BY <1>1, <1>5, ZenonT(30) DEF Highest
    <2> QED BY <1>3, <2>1, <2>2
  <1> QED BY <1>2, <1>4, <1>5

(* A page fetched forward from c: the lowest rows after the cursor.  With  *)
(* has_more its cursor is its last row, and every row up to there is on    *)
(* it; without, it holds every row there is.                               *)
LEMMA ForwardPage ==
  ASSUME NEW c, List(c), c = NoCursor \/ (c \in Cursors /\ c.dir = "next"),
         listed \subseteq RowIds, size \in Limits
  PROVE  /\ page'.items \subseteq ListUsers(c)
         /\ page'.hasMore \in BOOLEAN
         /\ page'.hasMore =>
              /\ page'.next \in Cursors /\ page'.next.dir = "next"
              /\ page'.next.id \in page'.items
              /\ \A y \in page'.items : y <= page'.next.id
              /\ \A y \in ListUsers(c) : y <= page'.next.id => y \in page'.items
              /\ Cardinality(page'.items) = NormalizeLimit(size)
         /\ ~page'.hasMore => page'.items = ListUsers(c) /\ page'.next = NoCursor
         /\ page'.prev # NoCursor =>
              /\ c # NoCursor
              /\ page'.prev \in Cursors /\ page'.prev.dir = "prev"
              /\ page'.prev.id \in page'.items
              /\ \A y \in ListUsers(c) : page'.prev.id <= y
  <1> DEFINE S == ListUsers(c)
             n == NormalizeLimit(size)
  <1>1. n \in Nat \ {0}
    BY LimitPositive
  <1>2. S \subseteq RowIds /\ S \subseteq Int /\ IsFiniteSet(S)
    BY PageInputs, FS_Subset, ZenonT(30) DEF ListUsers
  <1>3. ~Backward(c)
    BY DEF Backward
  <1>4. PICK F, D : /\ F \in Lowest(S, n + 1) /\ D \in Lowest(F, n)
                    /\ page' = NewBidirectionalCursorPage(F, D, n, c)
    BY <1>3 DEF List, RepoList, Trim
  <1>5. D \in Lowest(S, n)
    BY <1>1, <1>2, <1>4, LimitOfLimit
  <1> HIDE DEF S, n
  <1>6. F \subseteq S /\ D \subseteq F /\ IsFiniteSet(F) /\ IsFiniteSet(D) /\ D \subseteq Int
    <2>1. F \subseteq S /\ D \subseteq F
      BY <1>4 DEF Lowest
    <2> QED BY <1>2, <2>1, FS_Subset, ZenonT(30)
  <1>7. Cardinality(F) \in Nat /\ Cardinality(D) \in Nat
    BY <1>6, FS_CardinalityType
  <1>8. page' = [items |-> D, hasMore |-> Cardinality(F) > n, hasPrev |-> c # NoCursor,
                 next |-> IF D # {} /\ Cardinality(F) > n THEN NextCursor(F, D) ELSE NoCursor,
                 prev |-> IF D # {} /\ c # NoCursor THEN PrevCursor(F, D) ELSE NoCursor]
    BY <1>3, <1>4 DEF NewBidirectionalCursorPage
  <1>9. ASSUME D # {}
        PROVE  /\ FirstId(D) \in D /\ \A y \in D : FirstId(D) <= y
               /\ LastId(D) \in D /\ \A y \in D : y <= LastId(D)
               /\ NextCursor(F, D) \in Cursors /\ PrevCursor(F, D) \in Cursors
    <2>1. /\ FirstId(D) \in D /\ \A y \in D : FirstId(D) <= y
          /\ LastId(D) \in D /\ \A y \in D : y <= LastId(D)
      BY <1>6, <1>9, EndsExist, ZenonT(30)
    <2>2. FirstId(D) \in RowIds /\ LastId(D) \in RowIds
      BY <1>2, <1>6, <2>1, ZenonT(30)
    <2> QED BY <2>1, <2>2 DEF NextCursor, PrevCursor, Cursors
  <1>10. NoCursor \notin Cursors
    BY PageInputs DEF Cursors
  <1>11. ASSUME Cardinality(F) > n
         PROVE  /\ D # {} /\ Cardinality(D) = n
                /\ \A y \in S : y <= LastId(D) => y \in D
    <2>1. D # F
      BY <1>1, <1>4, <1>7, <1>11 DEF Lowest
    <2>2. Cardinality(D) = n
      BY <1>4, <2>1 DEF Lowest
    <2>3. D # {}
      BY <1>1, <2>2, FS_EmptySet
    <2>4. ASSUME NEW y \in S, y <= LastId(D), y \notin D PROVE FALSE
      <3>1. LastId(D) \in D /\ LastId(D) \in Int /\ y \in Int
        BY <1>2, <1>6, <1>9, <2>3, ZenonT(30)
      <3>2. LastId(D) < y
        BY <1>5, <2>4, <3>1 DEF Lowest
      <3> QED BY <2>4, <3>1, <3>2
    <2> QED BY <2>2, <2>3, <2>4
  <1>12. ASSUME ~(Cardinality(F) > n) PROVE D = S
    <2>1. F = S
      BY <1>1, <1>4, <1>7, <1>12 DEF Lowest
    <2>2. ASSUME D # F PROVE FALSE
      <3>1. Cardinality(D) = n
        BY <1>4, <2>2 DEF Lowest
      <3>2. D \in SUBSET F
        BY <1>6
      <3>3. Cardinality(D) <= Cardinality(F) /\ (Cardinality(F) = Cardinality(D) => F = D)
        BY <1>6, <3>2, FS_Subset, ZenonT(30)
      <3> QED BY <1>1, <1>7, <1>12, <2>2, <3>1, <3>3
    <2> QED BY <2>1, <2>2
  <1>13. ASSUME D # {}, NEW y \in S PROVE FirstId(D) <= y
    <2>1. CASE y \in D
      BY <1>9, <1>13, <2>1
    <2>2. CASE y \notin D
      <3>1. FirstId(D) < y /\ FirstId(D) \in Int /\ y \in Int
        BY <1>2, <1>5, <1>6, <1>9, <1>13, <2>2, ZenonT(30) DEF Lowest
      <3> QED BY <3>1
    <2> QED BY <2>1, <2>2
  <1>14. page'.items = D /\ page'.hasMore = (Cardinality(F) > n) /\ D \subseteq S
    BY <1>6, <1>8
  <1>15. ASSUME Cardinality(F) > n
         PROVE  page'.next = NextCursor(F, D) /\ page'.next.id = LastId(D) /\ page'.next.dir = "next"
    BY <1>8, <1>11, <1>15 DEF NextCursor
  <1>16. ASSUME ~(Cardinality(F) > n) PROVE page'.next = NoCursor
    BY <1>8, <1>16
  <1>17. ASSUME page'.prev # NoCursor
         PROVE  /\ D # {} /\ c # NoCursor /\ page'.prev = PrevCursor(F, D)
                /\ page'.prev.id = FirstId(D) /\ page'.prev.dir = "prev"
    BY <1>8, <1>17 DEF PrevCursor
  <1> HIDE DEF List
  <1>18. ASSUME Cardinality(F) > n
         PROVE  /\ page'.next \in Cursors /\ page'.next.dir = "next"
                /\ page'.next.id \in page'.items
                /\ \A y \in page'.items : y <= page'.next.id
                /\ \A y \in S : y <= page'.next.id => y \in page'.items
                /\ Cardinality(page'.items) = n
    BY <1>9, <1>11, <1>14, <1>15, <1>18
  <1>19. ASSUME page'.prev # NoCursor
         PROVE  /\ c # NoCursor
                /\ page'.prev \in Cursors /\ page'.prev.dir = "prev"
                /\ page'.prev.id \in page'.items
                /\ \A y \in S : page'.prev.id <= y
    BY <1>9, <1>13, <1>14, <1>17, <1>19
  <1>20. CASE Cardinality(F) > n
    <2>1. page'.hasMore = TRUE /\ page'.items \subseteq S
      BY <1>14, <1>20, ZenonT(30)
    <2> QED BY <1>18, <1>19, <1>20, <2>1, ZenonT(30) DEF S, n
  <1>21. CASE ~(Cardinality(F) > n)
    <2>1. page'.items = S /\ page'.next = NoCursor /\ ~page'.hasMore
      BY <1>12, <1>14, <1>16, <1>21, ZenonT(30)
    <2>2. page'.hasMore \in BOOLEAN
      BY <1>8
    <2> QED BY <1>19, <2>1, <2>2 DEF S, n
  <1> QED BY <1>20, <1>21

(* A page fetched backward: the highest rows before the cursor.            *)
LEMMA BackwardPage ==
  ASSUME NEW c \in Cursors, List(c), c.dir = "prev", listed \subseteq RowIds, size \in Limits
  PROVE  /\ page'.items \in Highest(ListUsersPrev(c), NormalizeLimit(size))
         /\ page'.next # NoCursor =>
              /\ page'.next \in Cursors /\ page'.next.dir = "next"
              /\ page'.next.id \in page'.items
              /\ \A y \in page'.items : y <= page'.next.id
         /\ page'.prev # NoCursor => page'.prev \in Cursors /\ page'.prev.dir = "prev"
  <1> DEFINE S == ListUsersPrev(c)
             n == NormalizeLimit(size)
  <1>1. n \in Nat \ {0}
    BY LimitPositive
  <1>2. S \subseteq RowIds /\ S \subseteq Int /\ IsFiniteSet(S)
    BY PageInputs, FS_Subset, ZenonT(30) DEF ListUsersPrev
  <1>3. c # NoCursor /\ Backward(c)
    BY PageInputs DEF Backward, Cursors
  <1>4. PICK F, D : /\ F \in Highest(S, n + 1) /\ D \in Highest(F, n)
                    /\ page' = NewBidirectionalCursorPage(F, D, n, c)
    BY <1>3 DEF List, RepoList, Trim
  <1>5. D \in Highest(S, n)
    BY <1>1, <1>2, <1>4, LimitOfLimit
  <1> HIDE DEF S, n
  <1>6. D \subseteq RowIds /\ IsFiniteSet(D) /\ D \subseteq Int
    <2>1. D \subseteq S
      BY <1>5 DEF Highest
    <2> QED BY <1>2, <2>1, FS_Subset, ZenonT(30)
  <1>7. page' = [items |-> D, hasMore |-> TRUE, hasPrev |-> Cardinality(F) > n,
                 next |-> IF D # {} THEN NextCursor(F, D) ELSE NoCursor,
                 prev |-> IF D # {} /\ Cardinality(F) > n THEN PrevCursor(F, D) ELSE NoCursor]
    BY <1>3, <1>4 DEF NewBidirectionalCursorPage
  <1>8. ASSUME D # {}
        PROVE  /\ LastId(D) \in D /\ \A y \in D : y <= LastId(D)
               /\ NextCursor(F, D) \in Cursors /\ PrevCursor(F, D) \in Cursors
    <2>1. FirstId(D) \in D /\ LastId(D) \in D /\ \A y \in D : y <= LastId(D)
      BY <1>6, <1>8, EndsExist, ZenonT(30)
    <2>2. FirstId(D) \in RowIds /\ LastId(D) \in RowIds
      BY <1>6, <2>1, ZenonT(30)
    <2> QED BY <2>1, <2>2 DEF NextCursor, PrevCursor, Cursors
  <1>9. page'.items = D
    BY <1>7
  <1>10. ASSUME page'.next # NoCursor
         PROVE  /\ D # {} /\ page'.next = NextCursor(F, D)
                /\ page'.next.id = LastId(D) /\ page'.next.dir = "next"
    BY <1>7, <1>10 DEF NextCursor
  <1>11. ASSUME page'.prev # NoCursor
         PROVE  D # {} /\ page'.prev = PrevCursor(F, D) /\ page'.prev.dir = "prev"
    BY <1>7, <1>11 DEF PrevCursor
  <1> QED BY <1>5, <1>8, <1>9, <1>10, <1>11 DEF S, n

UpTo(x) == {i \in listed : i <= x}
Before(x) == {i \in listed : i < x}

(* The walk so far shows every row up to the cursor and none after it; a   *)
(* steady page is the last page up to its next cursor, and the page one     *)
(* step back is the last page before the previous cursor.                  *)
WalkedTo(x) == /\ \A i \in seen : i <= x
               /\ \A i \in stayed : i <= x => i \in seen
PageInv ==
  /\ listed \subseteq RowIds /\ size \in Limits /\ seen \subseteq RowIds
  /\ page.next # NoCursor => page.next \in Cursors /\ page.next.dir = "next"
  /\ page.prev # NoCursor => page.prev \in Cursors /\ page.prev.dir = "prev"
  /\ walking => /\ stayed \subseteq listed /\ ~repeated
                /\ ~page.hasMore => stayed \subseteq seen
                /\ page.next # NoCursor => WalkedTo(page.next.id)
  /\ steady /\ page.next # NoCursor =>
       page.items \in Highest(UpTo(page.next.id), NormalizeLimit(size))
  /\ from # {} /\ page.prev # NoCursor =>
       from \in Highest(Before(page.prev.id), NormalizeLimit(size))

(* The page a forward step leads to is the last one up to its cursor.      *)
LEMMA ForwardIsLast ==
  ASSUME NEW c, List(c), c = NoCursor \/ (c \in Cursors /\ c.dir = "next"),
         listed \subseteq RowIds, size \in Limits, page'.next # NoCursor
  PROVE  page'.items \in Highest(UpTo(page'.next.id), NormalizeLimit(size))
  <1> DEFINE P == page'.items
             x == page'.next.id
  <1>1. page'.hasMore
    BY ForwardPage
  <1>2. /\ x \in P /\ P \subseteq ListUsers(c) /\ \A y \in P : y <= x
        /\ \A y \in ListUsers(c) : y <= x => y \in P
        /\ Cardinality(P) = NormalizeLimit(size)
    BY <1>1, ForwardPage
  <1>3. NormalizeLimit(size) \in Nat
    BY LimitPositive
  <1>4. P \in SUBSET UpTo(x)
    BY <1>2 DEF UpTo, ListUsers
  <1>5. ASSUME NEW p \in P, NEW y \in UpTo(x) \ P PROVE p > y
    <2>1. p \in Int /\ y \in Int /\ y \notin ListUsers(c) /\ y \in listed
      BY <1>2, <1>5, PageInputs, ZenonT(30) DEF UpTo, ListUsers
    <2>2. c # NoCursor /\ c.id \in Int /\ ~(y > c.id) /\ p > c.id
      BY <1>2, <2>1, PageInputs, ZenonT(30) DEF ListUsers, Cursors
    <2> QED BY <2>1, <2>2
  <1> QED BY <1>2, <1>3, <1>4, <1>5 DEF Highest

(* So is the page a backward step leads to.                                *)
LEMMA BackwardIsLast ==
  ASSUME NEW c \in Cursors, List(c), c.dir = "prev", listed \subseteq RowIds, size \in Limits,
         page'.next # NoCursor
  PROVE  page'.items \in Highest(UpTo(page'.next.id), NormalizeLimit(size))
  <1> DEFINE P == page'.items
             x == page'.next.id
             S == ListUsersPrev(c)
  <1>1. /\ P \in Highest(S, NormalizeLimit(size))
        /\ x \in P /\ \A y \in P : y <= x
    BY BackwardPage
  <1>2. c # NoCursor /\ c.id \in Int
    BY PageInputs, ZenonT(30) DEF Cursors
  <1>3. P \subseteq S /\ S \subseteq listed /\ listed \subseteq Int /\ \A y \in S : y < c.id
    BY <1>1, <1>2, PageInputs DEF Highest, ListUsersPrev
  <1>4. P \in SUBSET UpTo(x)
    BY <1>1, <1>3 DEF UpTo
  <1>5. ASSUME NEW y \in UpTo(x) \ P PROVE y \in S \ P
    <2>1. y \in Int /\ y \in listed /\ y <= x /\ x < c.id /\ x \in Int
      BY <1>1, <1>3, ZenonT(30) DEF UpTo
    <2> QED BY <1>2, <2>1 DEF ListUsersPrev
  <1>6. \A p \in P, y \in UpTo(x) \ P : p > y
    BY <1>1, <1>5 DEF Highest
  <1>7. P # UpTo(x) => P # S
    BY <1>4, <1>5
  <1> QED BY <1>1, <1>4, <1>6, <1>7 DEF Highest

(* A walk starts: the first page shows every row up to its cursor.         *)
LEMMA FirstPageKeeps ==
  ASSUME PageInv, FirstPage
  PROVE  PageInv'
  <1> USE DEF PageInv
  <1>1. /\ List(NoCursor) /\ listed \subseteq RowIds /\ size \in Limits
        /\ UNCHANGED <<listed, size>> /\ walking' = TRUE /\ repeated' = FALSE
        /\ seen' = page'.items /\ stayed' = listed /\ steady' = TRUE /\ from' = {}
    BY DEF FirstPage
  <1> HIDE DEF PageInv
  <1>2. ListUsers(NoCursor) = listed
    BY DEF ListUsers
  <1>3. /\ page'.items \subseteq listed
        /\ ~page'.hasMore => page'.items = listed /\ page'.next = NoCursor
        /\ page'.next # NoCursor =>
             /\ page'.next \in Cursors /\ page'.next.dir = "next"
             /\ \A y \in page'.items : y <= page'.next.id
             /\ \A y \in listed : y <= page'.next.id => y \in page'.items
        /\ page'.prev = NoCursor
    BY <1>1, <1>2, ForwardPage
  <1>4. page'.next # NoCursor => page'.items \in Highest(UpTo(page'.next.id), NormalizeLimit(size))
    BY <1>1, ForwardIsLast
  <1> QED BY <1>1, <1>3, <1>4 DEF PageInv, WalkedTo, UpTo, Before

(* A page forward: its rows come after all that was shown, and the page it *)
(* came from is the last page before its previous cursor.                  *)
LEMMA NextPageKeeps ==
  ASSUME PageInv, NextPage
  PROVE  PageInv'
  <1> DEFINE c == page.next
  <1>1. /\ c \in Cursors /\ c.dir = "next" /\ c # NoCursor /\ List(c)
        /\ listed \subseteq RowIds /\ size \in Limits /\ seen \subseteq RowIds
        /\ UNCHANGED <<listed, size, walking, stayed>>
        /\ seen' = seen \cup page'.items
        /\ repeated' = (repeated \/ seen \cap page'.items # {})
        /\ steady' = TRUE /\ from' = IF steady THEN page.items ELSE {}
    BY DEF PageInv, NextPage
  <1>2. c.id \in Int /\ listed \subseteq Int /\ ListUsers(c) = {i \in listed : i > c.id}
    BY <1>1, PageInputs, ZenonT(30) DEF ListUsers, Cursors
  <1>3. /\ page'.items \subseteq ListUsers(c)
        /\ ~page'.hasMore => page'.items = ListUsers(c) /\ page'.next = NoCursor
        /\ page'.next # NoCursor =>
             /\ page'.next \in Cursors /\ page'.next.dir = "next" /\ page'.next.id \in page'.items
             /\ \A y \in page'.items : y <= page'.next.id
             /\ \A y \in ListUsers(c) : y <= page'.next.id => y \in page'.items
        /\ page'.prev # NoCursor =>
             /\ page'.prev \in Cursors /\ page'.prev.dir = "prev" /\ page'.prev.id \in page'.items
             /\ \A y \in ListUsers(c) : page'.prev.id <= y
    BY <1>1, ForwardPage
  <1>4. page'.next # NoCursor => page'.items \in Highest(UpTo(page'.next.id), NormalizeLimit(size))
    BY <1>1, ForwardIsLast
  <1>5. ASSUME from' # {}, page'.prev # NoCursor
        PROVE  from' \in Highest(Before(page'.prev.id), NormalizeLimit(size))
    <2>1. steady /\ from' = page.items /\ page.items \in Highest(UpTo(c.id), NormalizeLimit(size))
      BY <1>1, <1>5 DEF PageInv
    <2>2. ASSUME NEW i \in listed PROVE i <= c.id <=> i < page'.prev.id
      <3>1. page'.prev.id \in Int /\ page'.prev.id > c.id /\ i \in Int
        BY <1>2, <1>3, <1>5, ZenonT(30)
      <3>2. i > c.id => page'.prev.id <= i
        BY <1>2, <1>3, <1>5
      <3> QED BY <1>2, <3>1, <3>2
    <2>3. UpTo(c.id) = Before(page'.prev.id)
      BY <2>2 DEF UpTo, Before
    <2> QED BY <2>1, <2>3
  <1>6. ASSUME walking
        PROVE  /\ stayed \subseteq listed /\ ~repeated'
               /\ ~page'.hasMore => stayed \subseteq seen'
               /\ page'.next # NoCursor =>
                    /\ \A i \in seen' : i <= page'.next.id
                    /\ \A i \in stayed : i <= page'.next.id => i \in seen'
    <2>1. /\ stayed \subseteq listed /\ ~repeated
          /\ \A i \in seen : i <= c.id
          /\ \A i \in stayed : i <= c.id => i \in seen
      BY <1>1, <1>6 DEF PageInv, WalkedTo
    <2>2. seen \cap page'.items = {}
      <3> SUFFICES ASSUME NEW i \in seen, i \in page'.items PROVE FALSE
        OBVIOUS
      <3>1. i \in Int /\ i <= c.id /\ i > c.id
        BY <1>2, <1>3, <2>1, ZenonT(30)
      <3> QED BY <1>2, <3>1
    <2>3. ASSUME NEW i \in stayed PROVE i \in seen \/ i \in ListUsers(c)
      <3>1. i \in listed /\ i \in Int
        BY <1>2, <2>1, ZenonT(30)
      <3>2. i <= c.id \/ i > c.id
        BY <1>2, <3>1
      <3> QED BY <1>2, <2>1, <3>1, <3>2, ZenonT(30)
    <2>4. ~page'.hasMore => stayed \subseteq seen'
      BY <1>1, <1>3, <2>3
    <2>5. ASSUME page'.next # NoCursor, NEW i \in seen' PROVE i <= page'.next.id
      <3>1. page'.next.id \in Int /\ page'.next.id > c.id
        BY <1>2, <1>3, <2>5, ZenonT(30)
      <3>2. CASE i \in page'.items
        BY <1>3, <2>5, <3>2
      <3>3. CASE i \in seen
        <4>1. i \in Int /\ i <= c.id
          BY <1>1, <2>1, <3>3, PageInputs
        <4> QED BY <1>2, <3>1, <4>1
      <3> QED BY <1>1, <2>5, <3>2, <3>3
    <2>6. ASSUME page'.next # NoCursor, NEW i \in stayed, i <= page'.next.id PROVE i \in seen'
      BY <1>1, <1>3, <2>3, <2>6
    <2> QED BY <1>1, <2>1, <2>2, <2>4, <2>5, <2>6, ZenonT(30)
  <1>7. seen' \subseteq RowIds
    BY <1>1, <1>2, <1>3, ZenonT(30)
  <1> HIDE DEF c
  <1> QED BY <1>1, <1>3, <1>4, <1>5, <1>6, <1>7 DEF PageInv, WalkedTo, UpTo, Before

(* A page back: what it shows is the page from which the last step came,   *)
(* if the rows are the same.                                               *)
LEMMA PrevPageKeeps ==
  ASSUME PageInv, PrevPage
  PROVE  PageInv' /\ (from # {} => page'.items = from)
  <1> DEFINE c == page.prev
             n == NormalizeLimit(size)
  <1>1. /\ c \in Cursors /\ c.dir = "prev" /\ c # NoCursor /\ List(c)
        /\ listed \subseteq RowIds /\ size \in Limits
        /\ UNCHANGED <<listed, size>>
        /\ walking' = FALSE /\ seen' = {} /\ steady' = TRUE /\ from' = {}
    BY DEF PageInv, PrevPage
  <1>2. /\ page'.items \in Highest(ListUsersPrev(c), n)
        /\ page'.next # NoCursor => page'.next \in Cursors /\ page'.next.dir = "next"
        /\ page'.prev # NoCursor => page'.prev \in Cursors /\ page'.prev.dir = "prev"
    BY <1>1, BackwardPage
  <1>3. page'.next # NoCursor => page'.items \in Highest(UpTo(page'.next.id), n)
    BY <1>1, BackwardIsLast
  <1>4. ListUsersPrev(c) = Before(c.id)
    BY <1>1 DEF ListUsersPrev, Before
  <1>5. ASSUME from # {} PROVE page'.items = from
    <2>1. from \in Highest(Before(c.id), n)
      BY <1>1, <1>5 DEF PageInv
    <2>2. Before(c.id) \subseteq Int /\ IsFiniteSet(Before(c.id)) /\ n \in Nat
      BY <1>1, PageInputs, FS_Subset, LimitPositive, ZenonT(30) DEF Before
    <2> HIDE DEF c, n
    <2> QED BY <1>2, <1>4, <2>1, <2>2, HighestIsOne
  <1> HIDE DEF c
  <1> QED BY <1>1, <1>2, <1>3, <1>5 DEF PageInv, UpTo, Before

(* Every request of the client and every change of the rows keeps the      *)
(* invariant.                                                              *)
LEMMA PageStep ==
  ASSUME PageInv, [PageNext]_pageVars
  PROVE  PageInv' /\ (PrevPage /\ from # {} => page'.items = from)
  <1>1. ASSUME PrevPage PROVE from # {} => page'.items = from
    BY <1>1, PrevPageKeeps
  <1>2. ASSUME NEW i \in RowIds, RowEnters(i) PROVE PageInv'
    BY <1>2 DEF RowEnters, PageInv, WalkedTo
  <1>3. ASSUME NEW i \in RowIds, RowLeaves(i) PROVE PageInv'
    BY <1>3 DEF RowLeaves, PageInv, WalkedTo
  <1>4. ASSUME UNCHANGED pageVars PROVE PageInv'
    BY <1>4 DEF pageVars, PageInv, WalkedTo, UpTo, Before
  <1> QED BY <1>1, <1>2, <1>3, <1>4, FirstPageKeeps, NextPageKeeps, PrevPageKeeps DEF PageNext

(* The invariant of a walk through the pages holds for any rows, page      *)
(* sizes and changes between two requests.                                 *)
THEOREM PageInvariant == PageSpec => []PageInv
  <1>1. PageInit => PageInv
    BY DEF PageInit, PageInv
  <1> QED BY <1>1, PageStep, PTL DEF PageSpec

(* A page is one of the rows there are, with cursors that name rows of it. *)
LEMMA PageTyped ==
  ASSUME NEW c, List(c), listed \subseteq RowIds, size \in Limits
  PROVE  page' \in Page
  <1>0. PICK F \in RepoList(c, NormalizeLimit(size)) :
          \E D \in Trim(F, c, NormalizeLimit(size)) :
            page' = NewBidirectionalCursorPage(F, D, NormalizeLimit(size), c)
    BY DEF List
  <1>1. PICK D \in Trim(F, c, NormalizeLimit(size)) :
          page' = NewBidirectionalCursorPage(F, D, NormalizeLimit(size), c)
    BY <1>0
  <1>2. F \subseteq RowIds
    BY DEF RepoList, Highest, Lowest, ListUsers, ListUsersPrev
  <1>3. D \subseteq RowIds
    BY <1>2 DEF Trim, Highest, Lowest
  <1>4. IsFiniteSet(D) /\ D \subseteq Int
    BY <1>3, PageInputs, FS_Subset
  <1>5. D # {} => FirstId(D) \in RowIds /\ LastId(D) \in RowIds
    BY <1>3, <1>4, EndsExist
  <1> DEFINE extra == Cardinality(F) > NormalizeLimit(size)
             more == IF Backward(c) THEN TRUE ELSE extra
             back == IF Backward(c) THEN extra ELSE c # NoCursor
  <1>6. more \in BOOLEAN /\ back \in BOOLEAN
    <2>1. Cardinality(F) \in Nat /\ NormalizeLimit(size) \in Int
      <3>1. IsFiniteSet(F)
        BY <1>2, PageInputs, FS_Subset
      <3>2. Cardinality(F) \in Nat
        BY <3>1, FS_CardinalityType
      <3>3. NormalizeLimit(size) \in Int
        BY PageInputs DEF NormalizeLimit
      <3> QED BY <3>2, <3>3
    <2>2. extra \in BOOLEAN
      BY <2>1, SMTT(30)
    <2>3. (c # NoCursor) \in BOOLEAN
      BY ZenonT(30)
    <2> HIDE DEF extra
    <2> QED BY <2>2, <2>3
  <1>7. D # {} => NextCursor(F, D) \in Cursors /\ PrevCursor(F, D) \in Cursors
    BY <1>5 DEF NextCursor, PrevCursor, Cursors
  <1>8. page' = [items |-> D, hasMore |-> more, hasPrev |-> back,
                 next |-> IF D # {} /\ more THEN NextCursor(F, D) ELSE NoCursor,
                 prev |-> IF D # {} /\ back THEN PrevCursor(F, D) ELSE NoCursor]
    BY <1>1 DEF NewBidirectionalCursorPage
  <1> HIDE DEF more, back
  <1> QED BY <1>3, <1>6, <1>7, <1>8 DEF Page

(* A walk through the pages keeps to its types. *)
LEMMA PageTypesKept == PageSpec => []PageTypeOK
  <1>1. PageInit => PageTypeOK
    <2>1. [items |-> {}, hasMore |-> FALSE, hasPrev |-> FALSE, next |-> NoCursor, prev |-> NoCursor]
            \in Page
      BY SMTT(30) DEF Page
    <2> QED BY <2>1, ZenonT(30) DEF PageInit, PageTypeOK
  <1>2. PageTypeOK /\ [PageNext]_pageVars => PageTypeOK'
    <2> SUFFICES ASSUME PageTypeOK, [PageNext]_pageVars PROVE PageTypeOK'
      OBVIOUS
    <2>1. ASSUME NEW c, List(c) PROVE page' \in Page /\ page'.items \subseteq RowIds
      BY <2>1, PageTyped DEF PageTypeOK, Page
    <2>2. CASE FirstPage
      BY <2>1, <2>2 DEF FirstPage, PageTypeOK
    <2>3. CASE NextPage
      <3>1. page.items \subseteq RowIds /\ repeated' \in BOOLEAN
        BY <2>3 DEF NextPage, PageTypeOK, Page
      <3> QED BY <2>1, <2>3, <3>1 DEF NextPage, PageTypeOK
    <2>4. CASE PrevPage
      BY <2>1, <2>4 DEF PrevPage, PageTypeOK
    <2>5. ASSUME NEW i \in RowIds, RowEnters(i) \/ RowLeaves(i) PROVE PageTypeOK'
      BY <2>5 DEF RowEnters, RowLeaves, PageTypeOK
    <2>6. CASE UNCHANGED pageVars
      BY <2>6 DEF pageVars, PageTypeOK
    <2> QED BY <2>2, <2>3, <2>4, <2>5, <2>6 DEF PageNext
  <1> QED BY <1>1, <1>2, PTL DEF PageSpec

(* A walk from the first page to the page without has_more shows no row    *)
(* twice, and shows every row that was listed all the while.               *)
THEOREM WalkIsExact == PageSpec => []WalkExact
  <1>1. PageInv => WalkExact
    BY DEF PageInv, WalkExact
  <1> QED BY <1>1, PageInvariant, PTL

(* One page forward and one page back is the same page, for any rows and   *)
(* page size.                                                              *)
THEOREM ForwardAndBackIsTheSamePage == PageSpec => ThereAndBack
  <1>1. PageInv /\ [PageNext]_pageVars => [PrevPage /\ from # {} => page'.items = from]_pageVars
    BY PageStep
  <1> QED BY <1>1, PageInvariant, PTL DEF PageSpec, ThereAndBack

(***************************************************************************)
(* AuditCleanup: the rows past retention.                                  *)
(***************************************************************************)
(* Job j, at place s with the rows P picked, has none of its rows in L. *)
Clean(j, L) == OldRows(j) \cap L = {}

(* Other jobs deleted rows of j's batch, or ended j early that way. *)
LeftBehind(j, s, P, L) ==
  \/ s = "deleting" /\ ~(P \subseteq L)
  \/ s = "done" /\ ~Clean(j, L)

(* j is to look for rows, looked after the last row was deleted, or failed. *)
Looks(j, s, P, L) ==
  \/ s \in {"running", "failed"}
  \/ s = "deleting" /\ P \subseteq L
  \/ s = "done" /\ Clean(j, L)

BehindLooker ==
  \A j \in Jobs : LeftBehind(j, jobState[j], picked[j], logs) =>
    \E k \in Jobs : Looks(k, jobState[k], picked[k], logs)

CleanupInv ==
  /\ CleanupTypeOK
  /\ \A j \in Jobs : picked[j] \subseteq OldRows(j) /\ purged[j] \subseteq OldRows(j)
  /\ \A j \in Jobs : jobState[j] = "deleting" /\ picked[j] = {} => Clean(j, logs)
  /\ BehindLooker

(* A batch holds old rows of the table, and is empty only if there is none *)
(* (the subquery of the DELETE has a LIMIT of at least one).               *)
LEMMA BatchesAreOld ==
  ASSUME NEW j \in Jobs, NEW S \in Batches(j)
  PROVE  /\ S \subseteq OldRows(j) /\ S \subseteq logs
         /\ S = {} => Clean(j, logs)
  <1>1. S \subseteq OldRows(j) \cap logs
    BY DEF Batches
  <1>2. ASSUME S = {} PROVE S = OldRows(j) \cap logs
    <2>1. Cardinality(S) = 0
      BY <1>2, FS_EmptySet
    <2>2. BatchSize # 0
      BY CleanupInputs
    <2> QED BY <2>1, <2>2 DEF Batches
  <1> QED BY <1>1, <1>2 DEF Clean

(* The old rows of a job are those past its retention, the default when    *)
(* the payload names none; a longer retention has fewer of them.           *)
LEMMA OldRowsNested ==
  ASSUME NEW j \in Jobs, NEW k \in Jobs, RetentionDays(k) <= RetentionDays(j)
  PROVE  OldRows(j) \subseteq OldRows(k)
  <1>1. RetentionDays(j) \in Nat /\ RetentionDays(k) \in Nat
    BY CleanupInputs DEF RetentionDays
  <1> QED BY <1>1, CleanupInputs DEF OldRows

(* One step of the handler of one job (Handle), or its failure, keeps the  *)
(* invariant.                                                              *)
LEMMA CleanupKeeps ==
  ASSUME CleanupInv, NEW j \in Jobs, CleanupStep(j) \/ BatchFails(j)
  PROVE  CleanupInv'
  <1> USE DEF CleanupInv, CleanupTypeOK
  <1>1. \A k \in Jobs : OldRows(k) \subseteq LogRows
    BY DEF OldRows
  <1>2. CASE StartJob(j)
    <2>1. \A k \in Jobs : k # j => jobState'[k] = jobState[k]
      BY <1>2 DEF StartJob
    <2>2. jobState'[j] = "running"
      BY <1>2 DEF StartJob
    <2>3. BehindLooker'
      BY <1>2, <2>1, <2>2 DEF StartJob, BehindLooker, LeftBehind, Looks
    <2> QED BY <1>2, <2>1, <2>2, <2>3 DEF StartJob, Clean
  <1>3. CASE PickBatch(j)
    <2>1. PICK S \in Batches(j) : picked' = [picked EXCEPT ![j] = S]
      BY <1>3, ZenonT(30) DEF PickBatch
    <2>2. S \subseteq OldRows(j) /\ S \subseteq logs /\ (S = {} => Clean(j, logs))
      BY BatchesAreOld
    <2>3. \A k \in Jobs : k # j => jobState'[k] = jobState[k] /\ picked'[k] = picked[k]
      BY <1>3, <2>1 DEF PickBatch
    <2>4. jobState'[j] = "deleting" /\ picked'[j] = S /\ logs' = logs
      BY <1>3, <2>1 DEF PickBatch
    <2>5. Looks(j, jobState'[j], picked'[j], logs')
      BY <2>2, <2>4 DEF Looks
    <2>6. BehindLooker'
      BY <2>5 DEF BehindLooker
    <2> QED BY <1>1, <1>3, <2>1, <2>2, <2>3, <2>4, <2>6 DEF PickBatch, Clean
  <1>4. CASE DeleteBatch(j)
    <2>1. \A k \in Jobs : k # j => jobState'[k] = jobState[k] /\ picked'[k] = picked[k]
      BY <1>4 DEF DeleteBatch
    <2>2. jobState'[j] = (IF picked[j] \cap logs = {} THEN "done" ELSE "running")
      BY <1>4 DEF DeleteBatch
    <2>3. logs' = logs \ picked[j]
      BY <1>4 DEF DeleteBatch
    <2>4. ASSUME picked[j] \cap logs # {} PROVE BehindLooker'
      <3>1. Looks(j, jobState'[j], picked'[j], logs')
        BY <2>2, <2>4 DEF Looks
      <3> QED BY <3>1 DEF BehindLooker
    <2>5. ASSUME picked[j] \cap logs = {} /\ picked[j] \subseteq logs PROVE BehindLooker'
      <3>1. logs' = logs /\ picked[j] = {}
        BY <2>3, <2>5
      <3>2. jobState[j] = "deleting" /\ jobState'[j] = "done"
        BY <1>4, <2>2, <2>5 DEF DeleteBatch
      <3>3. Looks(j, jobState'[j], picked'[j], logs')
        BY <3>1, <3>2 DEF Looks
      <3> QED BY <3>3 DEF BehindLooker
    <2>6. ASSUME picked[j] \cap logs = {} /\ ~(picked[j] \subseteq logs) PROVE BehindLooker'
      <3>1. logs' = logs
        BY <2>3, <2>6
      <3>2. LeftBehind(j, jobState[j], picked[j], logs)
        BY <1>4, <2>6 DEF DeleteBatch, LeftBehind
      <3>3. PICK k \in Jobs : Looks(k, jobState[k], picked[k], logs)
        BY <3>2 DEF BehindLooker
      <3>4. k # j
        BY <1>4, <2>6, <3>3 DEF DeleteBatch, Looks
      <3>5. Looks(k, jobState'[k], picked'[k], logs')
        BY <2>1, <3>1, <3>3, <3>4 DEF Looks, Clean
      <3> QED BY <3>5 DEF BehindLooker
    <2>7. BehindLooker'
      BY <2>4, <2>5, <2>6
    <2>8. \A k \in Jobs : jobState'[k] = "deleting" /\ picked'[k] = {} => Clean(k, logs')
      BY <2>1, <2>2, <2>3 DEF Clean
    <2> QED BY <1>1, <1>4, <2>7, <2>8 DEF DeleteBatch, Clean
  <1>5. CASE BatchFails(j)
    <2>1. jobState'[j] = "failed"
      BY <1>5 DEF BatchFails
    <2>2. Looks(j, jobState'[j], picked'[j], logs')
      BY <2>1 DEF Looks
    <2>3. \A k \in Jobs : k # j => jobState'[k] = jobState[k] /\ picked'[k] = picked[k]
      BY <1>5 DEF BatchFails
    <2> QED BY <1>5, <2>1, <2>2, <2>3 DEF BatchFails, BehindLooker, Clean
  <1> QED BY <1>2, <1>3, <1>4, <1>5 DEF CleanupStep

(* The statements of the jobs keep the invariant, fair or not. *)
LEMMA CleanupSafe == CleanupInit /\ [][CleanupNext]_cleanupVars => []CleanupInv
  <1>1. CleanupInit => CleanupInv
    BY DEF CleanupInit, CleanupInv, CleanupTypeOK, BehindLooker, LeftBehind
  <1>2. CleanupInv /\ [CleanupNext]_cleanupVars => CleanupInv'
    <2>1. ASSUME CleanupInv, CleanupNext PROVE CleanupInv'
      BY <2>1, CleanupKeeps DEF CleanupNext
    <2>2. ASSUME CleanupInv, UNCHANGED cleanupVars PROVE CleanupInv'
      BY <2>2 DEF CleanupInv, CleanupTypeOK, BehindLooker, LeftBehind, Looks, Clean,
                  OldRows, RetentionDays, cleanupVars
    <2> QED BY <2>1, <2>2
  <1> QED BY <1>1, <1>2, PTL

(* The invariant holds in every state of every run of the jobs. *)
THEOREM CleanupInvariant == CleanupSpec => []CleanupInv
  BY CleanupSafe, PTL DEF CleanupSpec

(* What the invariant says of jobs that are done. *)
LEMMA CleanupEndsExact == CleanupInv => CleanupExact
  <1> SUFFICES ASSUME CleanupInv PROVE CleanupExact
    OBVIOUS
  <1>1. ASSUME \A j \in Jobs : jobState[j] = "done", NEW j \in Jobs
        PROVE  OldRows(j) \cap logs = {} \/ \E k \in Jobs : RetentionDays(k) > RetentionDays(j)
    <2>1. CASE Clean(j, logs)
      BY <2>1 DEF Clean
    <2>2. CASE ~Clean(j, logs)
      <3>1. PICK k \in Jobs : Looks(k, jobState[k], picked[k], logs)
        BY <1>1, <2>2 DEF CleanupInv, BehindLooker, LeftBehind
      <3>2. Clean(k, logs)
        BY <1>1, <3>1 DEF Looks
      <3>3. ~(RetentionDays(k) <= RetentionDays(j))
        BY <2>2, <3>2, OldRowsNested DEF Clean
      <3>4. RetentionDays(j) \in Nat /\ RetentionDays(k) \in Nat
        BY CleanupInputs DEF RetentionDays
      <3> QED BY <3>3, <3>4
    <2> QED BY <2>1, <2>2
  <1>2. ASSUME NEW j \in Jobs, NEW r \in purged[j]
        PROVE  AgeOf[r] > (IF RetentionOf[j] = 0 THEN DefaultDays ELSE RetentionOf[j])
    <2>1. r \in OldRows(j)
      BY DEF CleanupInv
    <2> QED BY <2>1, CleanupInputs DEF OldRows, RetentionDays
  <1> QED BY <1>1, <1>2 DEF CleanupExact

(* Whatever the number of jobs, their retentions, the batch size and the   *)
(* order of their statements: when all have succeeded, none of the rows    *)
(* the jobs of the longest retention were to delete is left; and no job    *)
(* deletes a row younger than its retention (AuditCleanupHandler.Handle).  *)
THEOREM CleanupIsExact == CleanupSpec => []CleanupExact
  BY CleanupInvariant, CleanupEndsExact, PTL

(***************************************************************************)
(* Seed: the users, roles and permissions of a new database.               *)
(***************************************************************************)
UserPlaces == {"find", "insert", "findRole", "insertRole"}
RulePlaces == {"findRule", "insertRule"}
Places == UserPlaces \cup RulePlaces \cup {"ended", "killed"}
Runs == [at : Places, entry : Nat, warned : BOOLEAN]

(* Of the sets U of users, R of users with a role and P of permissions:    *)
(* the users before the k-th, and the permissions, are complete.           *)
UsersUpTo(k, U, R) == \A n \in 1..SeedUsers : n < k => n \in U /\ n \in R
RulesUpTo(k, P) == \A n \in 1..SeedRules : n < k => n \in P

SeedType ==
  /\ haveUser \subseteq 1..SeedUsers /\ haveRole \subseteq 1..SeedUsers
  /\ haveRule \subseteq 1..SeedRules
  /\ seeder \in [Seeders -> Runs]

(* A run stands at an entry of the table it is working on, or was at. *)
InTable(r) ==
  /\ r.entry \in 1..(SeedUsers + SeedRules + 1)
  /\ r.at \in UserPlaces => r.entry \in 1..SeedUsers
  /\ r.at \in RulePlaces => r.entry \in 1..SeedRules

(* A run that has not warned left everything behind it complete. *)
QuietSoFar(r, U, R, P) ==
  ~r.warned =>
    /\ r.at \in UserPlaces => UsersUpTo(r.entry, U, R)
    /\ r.at \in {"findRole", "insertRole"} => r.entry \in U
    /\ r.at \in RulePlaces => UsersUpTo(SeedUsers + 1, U, R) /\ RulesUpTo(r.entry, P)
    /\ r.at = "ended" => UsersUpTo(SeedUsers + 1, U, R) /\ RulesUpTo(SeedRules + 1, P)

SeedInv ==
  /\ SeedType
  /\ \A s \in Seeders : InTable(seeder[s]) /\ QuietSoFar(seeder[s], haveUser, haveRole, haveRule)

-----------------------------------------------------------------------------
(* Nothing is ever deleted: what was complete stays complete. *)
LEMMA CompleteStays ==
  ASSUME NEW U, NEW R, NEW P, NEW U2, NEW R2, NEW P2,
         U \subseteq U2, R \subseteq R2, P \subseteq P2,
         NEW r \in Runs, QuietSoFar(r, U, R, P)
  PROVE  QuietSoFar(r, U2, R2, P2)
  BY DEF QuietSoFar, UsersUpTo, RulesUpTo

(* It is enough to look at the run that takes the step. *)
LEMMA OneRunMoves ==
  ASSUME SeedInv, NEW s \in Seeders, NEW r \in Runs,
         seeder' = [seeder EXCEPT ![s] = r],
         haveUser \subseteq haveUser', haveRole \subseteq haveRole', haveRule \subseteq haveRule',
         haveUser' \subseteq 1..SeedUsers, haveRole' \subseteq 1..SeedUsers,
         haveRule' \subseteq 1..SeedRules,
         InTable(r), QuietSoFar(r, haveUser', haveRole', haveRule')
  PROVE  SeedInv'
<1>1. seeder \in [Seeders -> Runs] BY DEF SeedInv, SeedType
<1>2. seeder' \in [Seeders -> Runs] BY <1>1
<1>3. SeedType' BY <1>2 DEF SeedType
<1>4. ASSUME NEW t \in Seeders
      PROVE  InTable(seeder'[t]) /\ QuietSoFar(seeder'[t], haveUser', haveRole', haveRule')
  <2>1. CASE t = s BY <1>1, <2>1
  <2>2. CASE t # s
    <3>1. seeder'[t] = seeder[t] /\ seeder[t] \in Runs BY <1>1, <2>2
    <3>2. InTable(seeder[t]) /\ QuietSoFar(seeder[t], haveUser, haveRole, haveRule)
      BY DEF SeedInv
    <3>3. QuietSoFar(seeder[t], haveUser', haveRole', haveRule') BY <3>1, <3>2, CompleteStays, ZenonT(30)
    <3> QED BY <3>1, <3>2, <3>3
  <2> QED BY <2>1, <2>2
<1> QED BY <1>3, <1>4 DEF SeedInv

(* The runs start at the first user. *)
LEMMA SeedInvInit == SeedInit => SeedInv
<1> SUFFICES ASSUME SeedInit PROVE SeedInv OBVIOUS
<1> DEFINE r == [at |-> "find", entry |-> 1, warned |-> FALSE]
<1>1. r \in Runs BY DEF Runs, Places, UserPlaces
<1>2. seeder = [s \in Seeders |-> r] BY DEF SeedInit
<1>3. SeedType BY <1>1, <1>2 DEF SeedInit, SeedType
<1>4. InTable(r) BY SeedInputs DEF InTable, UserPlaces, RulePlaces
<1>5. QuietSoFar(r, haveUser, haveRole, haveRule)
  BY SeedInputs DEF QuietSoFar, UsersUpTo, UserPlaces, RulePlaces
<1> HIDE DEF r
<1> QED BY <1>2, <1>3, <1>4, <1>5 DEF SeedInv

(* The query for an entry, or the process ending: the run goes to another  *)
(* place at the same entry.                                                *)
LEMMA PlaceKeeps ==
  ASSUME SeedInv, NEW s \in Seeders, NEW at \in Places, Place(s, at),
         UNCHANGED <<haveUser, haveRole, haveRule>>,
         \/ at = "killed"
         \/ at = "insert" /\ seeder[s].at = "find"
         \/ at = "findRole" /\ seeder[s].at = "find" /\ seeder[s].entry \in haveUser
         \/ at = "insertRole" /\ seeder[s].at = "findRole"
         \/ at = "insertRule" /\ seeder[s].at = "findRule"
  PROVE  SeedInv'
<1> DEFINE q == seeder[s]
           r == [at |-> at, entry |-> q.entry, warned |-> q.warned]
<1>1. seeder \in [Seeders -> Runs] /\ q \in Runs BY DEF SeedInv, SeedType
<1>2. InTable(q) /\ QuietSoFar(q, haveUser, haveRole, haveRule) BY DEF SeedInv
<1>3. r \in Runs BY <1>1 DEF Runs
<1>4. seeder' = [seeder EXCEPT ![s] = r]
  <2>1. seeder' = [seeder EXCEPT ![s] = [q EXCEPT !.at = at]] BY ZenonT(30) DEF Place
  <2>2. [q EXCEPT !.at = at] = r BY <1>1 DEF Runs
  <2> QED BY <2>1, <2>2, ZenonT(30)
<1>5. InTable(r) BY <1>2 DEF InTable, UserPlaces, RulePlaces
<1>6. QuietSoFar(r, haveUser, haveRole, haveRule)
  BY <1>2 DEF QuietSoFar, UserPlaces, RulePlaces
<1>7. SeedType BY DEF SeedInv
<1> HIDE DEF q, r
<1> QED BY <1>3, <1>4, <1>5, <1>6, <1>7, OneRunMoves, ZenonT(30) DEF SeedType

(* A run that goes on to the next user is right to be quiet if the user at *)
(* which it stands is complete by then.                                    *)
LEMMA NextUserKeeps ==
  ASSUME SeedInv, NEW s \in Seeders, NEW warns \in BOOLEAN, NextUser(s, warns),
         seeder[s].at \in UserPlaces,
         haveUser \subseteq haveUser', haveRole \subseteq haveRole', haveRule' = haveRule,
         haveUser' \subseteq 1..SeedUsers, haveRole' \subseteq 1..SeedUsers,
         warns \/ (seeder[s].entry \in haveUser' /\ seeder[s].entry \in haveRole')
  PROVE  SeedInv'
<1> DEFINE q == seeder[s]
           r == [at |-> IF q.entry < SeedUsers THEN "find" ELSE "findRule",
                 entry |-> IF q.entry < SeedUsers THEN q.entry + 1 ELSE 1,
                 warned |-> q.warned \/ warns]
<1>1. seeder \in [Seeders -> Runs] /\ q \in Runs BY DEF SeedInv, SeedType
<1>2. InTable(q) /\ QuietSoFar(q, haveUser, haveRole, haveRule) BY DEF SeedInv
<1>3. q.entry \in Nat /\ q.warned \in BOOLEAN /\ q.entry \in 1..SeedUsers
  BY <1>1, <1>2 DEF Runs, InTable
<1>4. r \in Runs
  <2>1. (q.warned \/ warns) \in BOOLEAN OBVIOUS
  <2> QED BY <1>3, <2>1 DEF Runs, Places, UserPlaces, RulePlaces
<1>5. seeder' = [seeder EXCEPT ![s] = r] BY DEF NextUser, NextEntry
<1>6. InTable(r) BY <1>3, SeedInputs DEF InTable, UserPlaces, RulePlaces
<1>7. QuietSoFar(r, haveUser', haveRole', haveRule')
  <2> SUFFICES ASSUME ~(q.warned \/ warns)
               PROVE  /\ r.at = "find" => UsersUpTo(r.entry, haveUser', haveRole')
                      /\ r.at = "findRule" => /\ UsersUpTo(SeedUsers + 1, haveUser', haveRole')
                                              /\ RulesUpTo(r.entry, haveRule')
    BY ZenonT(30) DEF QuietSoFar, UserPlaces, RulePlaces
  <2>1. UsersUpTo(q.entry, haveUser, haveRole) BY <1>2 DEF QuietSoFar
  <2>2. UsersUpTo(q.entry + 1, haveUser', haveRole')
    BY <1>3, <2>1 DEF UsersUpTo
  <2>3. RulesUpTo(1, haveRule') BY DEF RulesUpTo
  <2>4. CASE q.entry < SeedUsers BY <2>2, <2>4
  <2>5. CASE ~(q.entry < SeedUsers)
    <3>1. q.entry = SeedUsers BY <1>3, <2>5, SeedInputs
    <3> QED BY <2>2, <2>3, <2>5, <3>1
  <2> QED BY <2>4, <2>5
<1>8. SeedType BY DEF SeedInv
<1> HIDE DEF q, r
<1> QED BY <1>4, <1>5, <1>6, <1>7, <1>8, OneRunMoves, ZenonT(30) DEF SeedType

(* The same for the next permission. *)
LEMMA NextRuleKeeps ==
  ASSUME SeedInv, NEW s \in Seeders, NEW warns \in BOOLEAN, NextRule(s, warns),
         seeder[s].at \in RulePlaces,
         haveUser' = haveUser, haveRole' = haveRole, haveRule \subseteq haveRule',
         haveRule' \subseteq 1..SeedRules,
         warns \/ seeder[s].entry \in haveRule'
  PROVE  SeedInv'
<1> DEFINE q == seeder[s]
           r == [at |-> IF q.entry < SeedRules THEN "findRule" ELSE "ended",
                 entry |-> IF q.entry < SeedRules THEN q.entry + 1 ELSE 1,
                 warned |-> q.warned \/ warns]
<1>1. seeder \in [Seeders -> Runs] /\ q \in Runs BY DEF SeedInv, SeedType
<1>2. InTable(q) /\ QuietSoFar(q, haveUser, haveRole, haveRule) BY DEF SeedInv
<1>3. q.entry \in Nat /\ q.warned \in BOOLEAN /\ q.entry \in 1..SeedRules
  BY <1>1, <1>2 DEF Runs, InTable
<1>4. r \in Runs
  <2>1. (q.warned \/ warns) \in BOOLEAN OBVIOUS
  <2> QED BY <1>3, <2>1 DEF Runs, Places, UserPlaces, RulePlaces
<1>5. seeder' = [seeder EXCEPT ![s] = r] BY DEF NextRule, NextEntry
<1>6. InTable(r) BY <1>3, SeedInputs DEF InTable, UserPlaces, RulePlaces
<1>7. QuietSoFar(r, haveUser', haveRole', haveRule')
  <2> SUFFICES ASSUME ~(q.warned \/ warns)
               PROVE  /\ UsersUpTo(SeedUsers + 1, haveUser', haveRole')
                      /\ r.at = "findRule" => RulesUpTo(r.entry, haveRule')
                      /\ r.at = "ended" => RulesUpTo(SeedRules + 1, haveRule')
    BY ZenonT(30) DEF QuietSoFar, UserPlaces, RulePlaces
  <2>1. UsersUpTo(SeedUsers + 1, haveUser, haveRole) /\ RulesUpTo(q.entry, haveRule)
    BY <1>2 DEF QuietSoFar
  <2>2. RulesUpTo(q.entry + 1, haveRule') BY <1>3, <2>1 DEF RulesUpTo
  <2>3. CASE q.entry < SeedRules BY <2>1, <2>2, <2>3
  <2>4. CASE ~(q.entry < SeedRules)
    <3>1. q.entry = SeedRules BY <1>3, <2>4, SeedInputs
    <3> QED BY <2>1, <2>2, <2>4, <3>1
  <2> QED BY <2>3, <2>4
<1>8. SeedType BY DEF SeedInv
<1> HIDE DEF q, r
<1> QED BY <1>4, <1>5, <1>6, <1>7, <1>8, OneRunMoves, ZenonT(30) DEF SeedType
-----------------------------------------------------------------------------
(* Every step of a run keeps the invariant: the only way past an entry     *)
(* without a warning is to have found it or to have inserted it.           *)
LEMMA SeedStepKeeps ==
  ASSUME SeedInv, NEW s \in Seeders,
         FindUser(s) \/ InsertUser(s) \/ FindRole(s) \/ InsertRole(s) \/ FindRule(s)
           \/ InsertRule(s) \/ EntryFails(s) \/ KillSeeder(s)
  PROVE  SeedInv'
<1> DEFINE q == seeder[s]
<1> USE DEF UserPlaces, RulePlaces, Places
<1>1. SeedType /\ q \in Runs BY DEF SeedInv, SeedType
<1>2. InTable(q) /\ QuietSoFar(q, haveUser, haveRole, haveRule) BY DEF SeedInv
<1>3. CASE FindUser(s) BY <1>3, PlaceKeeps DEF FindUser
<1>4. CASE InsertUser(s)
  <2>1. q.at = "insert" /\ haveRole' = haveRole /\ haveRule' = haveRule BY <1>4 DEF InsertUser
  <2>2. q.entry \in 1..SeedUsers BY <1>2, <2>1 DEF InTable
  <2>3. CASE q.entry \in haveUser
    <3>1. NextUser(s, TRUE) /\ haveUser' = haveUser BY <1>4, <2>3, ZenonT(30) DEF InsertUser
    <3> QED BY <1>1, <2>1, <3>1, NextUserKeeps, ZenonT(30) DEF SeedType
  <2>4. CASE q.entry \notin haveUser
    <3> DEFINE r == [at |-> "findRole", entry |-> q.entry, warned |-> q.warned]
    <3>1. haveUser' = haveUser \cup {q.entry} /\ Place(s, "findRole") BY <1>4, <2>4 DEF InsertUser
    <3>2. seeder' = [seeder EXCEPT ![s] = r]
      <4>1. seeder' = [seeder EXCEPT ![s] = [q EXCEPT !.at = "findRole"]] BY <3>1, ZenonT(30) DEF Place
      <4>2. [q EXCEPT !.at = "findRole"] = r BY <1>1 DEF Runs
      <4> QED BY <4>1, <4>2, ZenonT(30)
    <3>3. r \in Runs BY <1>1 DEF Runs
    <3>4. InTable(r) BY <1>2, <2>2 DEF InTable, RulePlaces
    <3>5. QuietSoFar(r, haveUser', haveRole', haveRule')
      BY <1>2, <2>1, <3>1 DEF QuietSoFar, UsersUpTo
    <3>6. haveUser' \subseteq 1..SeedUsers BY <1>1, <2>2, <3>1, ZenonT(30) DEF SeedType
    <3> HIDE DEF q, r
    <3> QED BY <1>1, <2>1, <3>1, <3>2, <3>3, <3>4, <3>5, <3>6, OneRunMoves, ZenonT(30) DEF SeedType
  <2> QED BY <2>3, <2>4
<1>5. CASE FindRole(s)
  <2>1. q.at = "findRole" /\ UNCHANGED <<haveUser, haveRole, haveRule>> BY <1>5 DEF FindRole
  <2>2. CASE q.entry \in haveRole
    <3>1. NextUser(s, FALSE) BY <1>5, <2>2, ZenonT(30) DEF FindRole
    <3>2. CASE q.warned
      <4>1. q.warned = TRUE BY <3>2, <1>1 DEF Runs
      <4>2. NextUser(s, TRUE) BY <3>1, <4>1, ZenonT(30) DEF NextUser, NextEntry
      <4> QED BY <1>1, <2>1, <4>2, NextUserKeeps, ZenonT(30) DEF SeedType
    <3>3. CASE ~q.warned
      <4>1. q.entry \in haveUser BY <1>2, <2>1, <3>3 DEF QuietSoFar
      <4> QED BY <1>1, <2>1, <2>2, <3>1, <4>1, NextUserKeeps, ZenonT(30) DEF SeedType
    <3> QED BY <3>2, <3>3
  <2>3. CASE q.entry \notin haveRole
    BY <1>5, <2>1, <2>3, PlaceKeeps DEF FindRole
  <2> QED BY <2>2, <2>3
<1>6. CASE InsertRole(s)
  <2>1. /\ q.at = "insertRole" /\ haveUser' = haveUser /\ haveRule' = haveRule
        /\ haveRole' = haveRole \cup {q.entry} /\ NextUser(s, q.entry \in haveRole)
    BY <1>6 DEF InsertRole
  <2>2. q.entry \in 1..SeedUsers BY <1>2, <2>1 DEF InTable
  <2>3. haveRole' \subseteq 1..SeedUsers BY <1>1, <2>1, <2>2, ZenonT(30) DEF SeedType
  <2>4. CASE q.entry \in haveRole
    <3>1. (q.entry \in haveRole) = TRUE BY <2>4
    <3>2. NextUser(s, TRUE) BY <2>1, <3>1, ZenonT(30)
    <3> QED BY <1>1, <2>1, <2>3, <3>2, NextUserKeeps, ZenonT(30) DEF SeedType
  <2>5. CASE q.entry \notin haveRole
    <3>1. (q.entry \in haveRole) = FALSE BY <2>5
    <3>2. NextUser(s, FALSE) BY <2>1, <3>1, ZenonT(30)
    <3>3. CASE q.warned
      <4>1. q.warned = TRUE BY <3>3, <1>1 DEF Runs
      <4>2. NextUser(s, TRUE) BY <3>2, <4>1, ZenonT(30) DEF NextUser, NextEntry
      <4> QED BY <1>1, <2>1, <2>3, <4>2, NextUserKeeps, ZenonT(30) DEF SeedType
    <3>4. CASE ~q.warned
      <4>1. q.entry \in haveUser BY <1>2, <2>1, <3>4 DEF QuietSoFar
      <4> QED BY <1>1, <2>1, <2>3, <3>2, <4>1, NextUserKeeps, ZenonT(30) DEF SeedType
    <3> QED BY <3>3, <3>4
  <2> QED BY <2>4, <2>5
<1>7. CASE FindRule(s)
  <2>1. q.at = "findRule" /\ UNCHANGED <<haveUser, haveRole, haveRule>> BY <1>7 DEF FindRule
  <2>2. CASE q.entry \in haveRule
    BY <1>1, <1>7, <2>1, <2>2, NextRuleKeeps, ZenonT(30) DEF FindRule, SeedType
  <2>3. CASE q.entry \notin haveRule
    BY <1>7, <2>1, <2>3, PlaceKeeps DEF FindRule
  <2> QED BY <2>2, <2>3
<1>8. CASE InsertRule(s)
  <2>1. /\ q.at = "insertRule" /\ haveUser' = haveUser /\ haveRole' = haveRole
        /\ haveRule' = haveRule \cup {q.entry} /\ NextRule(s, q.entry \in haveRule)
    BY <1>8 DEF InsertRule
  <2>2. q.entry \in 1..SeedRules BY <1>2, <2>1 DEF InTable
  <2>3. haveRule' \subseteq 1..SeedRules BY <1>1, <2>1, <2>2, ZenonT(30) DEF SeedType
  <2>4. (q.entry \in haveRule) \in BOOLEAN OBVIOUS
  <2> QED BY <2>1, <2>3, <2>4, NextRuleKeeps, ZenonT(30)
<1>9. CASE EntryFails(s)
  <2>1. q.at \in UserPlaces \cup RulePlaces /\ UNCHANGED <<haveUser, haveRole, haveRule>>
    BY <1>1, <1>9 DEF EntryFails, Runs
  <2>2. CASE q.at \in RulePlaces
    BY <1>1, <1>9, <2>1, <2>2, NextRuleKeeps, ZenonT(30) DEF EntryFails, SeedType
  <2>3. CASE q.at \in UserPlaces
    BY <1>1, <1>9, <2>1, <2>3, NextUserKeeps, ZenonT(30) DEF EntryFails, SeedType
  <2> QED BY <2>1, <2>2, <2>3
<1>10. CASE KillSeeder(s) BY <1>10, PlaceKeeps DEF KillSeeder
<1> QED BY <1>3, <1>4, <1>5, <1>6, <1>7, <1>8, <1>9, <1>10

(* The inductive invariant of the seeder. *)
THEOREM SeedInvariant == SeedSpec => []SeedInv
<1>1. SeedInit => SeedInv BY SeedInvInit
<1>2. SeedInv /\ [SeedNext]_seedVars => SeedInv'
  <2> SUFFICES ASSUME SeedInv, [SeedNext]_seedVars PROVE SeedInv' OBVIOUS
  <2>1. CASE SeedNext BY <2>1, SeedStepKeeps DEF SeedNext
  <2>2. CASE UNCHANGED seedVars BY <2>2 DEF seedVars, SeedInv, SeedType
  <2> QED BY <2>1, <2>2
<1> QED BY <1>1, <1>2, PTL DEF SeedSpec

(* The seeder keeps to its types. *)
LEMMA SeedTypesKept == SeedSpec => []SeedTypeOK
<1>1. SeedInv => SeedTypeOK
  <2> SUFFICES ASSUME SeedInv PROVE SeedTypeOK OBVIOUS
  <2> DEFINE R == [at: {"find", "insert", "findRole", "insertRole", "findRule", "insertRule", "ended",
                        "killed"},
                   entry: 1..(SeedUsers + SeedRules + 1), warned: BOOLEAN]
  <2>1. seeder \in [Seeders -> Runs] /\ \A s \in Seeders : InTable(seeder[s])
    BY DEF SeedInv, SeedType
  <2>2. \A r \in Runs : InTable(r) => r \in R
    BY DEF Runs, Places, UserPlaces, RulePlaces, InTable
  <2> HIDE DEF R
  <2>3. seeder \in [Seeders -> R] BY <2>1, <2>2
  <2> QED BY <2>3 DEF R, SeedInv, SeedType, SeedTypeOK
<1> QED BY <1>1, SeedInvariant, PTL

(* A run of scripts/seed that ended without a warning leaves the tables    *)
(* complete, with any number of other runs beside it, killed or not, and   *)
(* whatever the migrations had put there.                                  *)
THEOREM QuietRunsComplete == SeedSpec => []QuietRunIsComplete
<1>1. SeedInv => QuietRunIsComplete
  <2> SUFFICES ASSUME SeedInv, NEW s \in Seeders, seeder[s].at = "ended", ~seeder[s].warned
               PROVE  /\ haveUser = 1..SeedUsers /\ haveRole = 1..SeedUsers
                      /\ haveRule = 1..SeedRules
    BY DEF QuietRunIsComplete
  <2>1. UsersUpTo(SeedUsers + 1, haveUser, haveRole) /\ RulesUpTo(SeedRules + 1, haveRule)
    BY DEF SeedInv, QuietSoFar
  <2>2. SeedType BY DEF SeedInv
  <2>3. \A n \in 1..SeedUsers : n \in haveUser /\ n \in haveRole
    BY <2>1, SeedInputs DEF UsersUpTo
  <2>4. \A n \in 1..SeedRules : n \in haveRule BY <2>1, SeedInputs DEF RulesUpTo
  <2>5. haveUser = 1..SeedUsers BY <2>2, <2>3, ZenonT(30) DEF SeedType
  <2>6. haveRole = 1..SeedUsers BY <2>2, <2>3, ZenonT(30) DEF SeedType
  <2>7. haveRule = 1..SeedRules BY <2>2, <2>4, ZenonT(30) DEF SeedType
  <2> QED BY <2>5, <2>6, <2>7
<1> QED BY <1>1, SeedInvariant, PTL

(***************************************************************************)
(* RateLimit: the window of a key.                                         *)
(***************************************************************************)
(* The admissions A keep the limit in every stretch of a window's length.  *)
Limited(A) == \A t \in 0..MaxTime :
  Cardinality({a \in A : t - Window < a[1] /\ a[1] <= t}) <= MaxHits

(* The slice w of the memory backend, at time c, holds every admission of  *)
(* A that still counts, and expires after the last of them.                *)
Remembers(w, A, c) ==
  /\ w.timestamps \subseteq A
  /\ \A a \in A : a[1] <= c /\ (a[1] > c - Window => a \in w.timestamps)
  /\ \A a \in w.timestamps : a[1] + Window <= w.expiresAt

(* The members Z of a Redis set that expires at e, at time c.              *)
ExpireInTime(Z, e, c) == \A m \in Z : m <= c /\ (e # NoCall => m + Window <= e)

(* The members Z are stamps of the admissions A, whose stamps differ.      *)
Stamped(Z, A) == /\ \A m \in Z : \E a \in A : a[1] = m
                 /\ \A a, b \in A : a[1] = b[1] => a = b

(* What a script of stamp t sees of the members Z.                         *)
Seen(Z, t) == {m \in Z : m > t - Window}

(* It sees every admission of A that counts.                               *)
SeesAll(Z, A, t) == \A a \in A : a[1] > t - Window => a[1] \in Z

(* A script of stamp t comes after a later one, or will be refused, or     *)
(* sees every admission that counts.                                       *)
Safe(Z, A, t) == \/ \E a \in A : a[1] >= t
                 \/ Cardinality(Seen(Z, t)) >= MaxHits
                 \/ SeesAll(Z, A, t)

MemoryInv == Backend = "memory" =>
  \A k \in LimitKeys : Limited(admitted[k]) /\ Remembers(windows[k], admitted[k], clock)

ScriptInv == \A r \in Hits : script[r] # NoCall =>
  Backend = "redis" /\ script[r][2] <= clock

KeyInv(k) ==
  /\ ExpireInTime(zset[k], zexpiry[k], clock)
  /\ k \notin irregular =>
       /\ Limited(admitted[k])
       /\ Stamped(zset[k], admitted[k])
       /\ SeesAll(zset[k], admitted[k], clock)
       /\ \A r \in Hits : script[r] # NoCall /\ script[r][1] = k =>
            Safe(zset[k], admitted[k], script[r][2])

RedisInv == Backend = "redis" => \A k \in LimitKeys : KeyInv(k)

(* The last answer was right. *)
AnswerRight ==
  /\ last # NoCall /\ last[1] = "429" /\ last[2] \notin irregular =>
       Cardinality(After(admitted[last[2]], last[3] - Window)) >= MaxHits
  /\ last # NoCall /\ last[1] = "next" /\ site.failClosed /\ Backend # "noop" =>
       \E a \in admitted[last[2]] : a[1] = last[3]

LimitInv == LimitTypeOK /\ MemoryInv /\ ScriptInv /\ RedisInv /\ AnswerRight

-----------------------------------------------------------------------------
(* A subset of a finite set is not larger.                                 *)
LEMMA SmallerSubset ==
  ASSUME NEW T, IsFiniteSet(T), NEW S, S \subseteq T
  PROVE  /\ IsFiniteSet(S) /\ Cardinality(S) \in Nat /\ Cardinality(T) \in Nat
         /\ Cardinality(S) <= Cardinality(T)
  <1>1. IsFiniteSet(S) /\ Cardinality(S) <= Cardinality(T)
    BY FS_Subset, ZenonT(30)
  <1> QED BY <1>1, FS_CardinalityType, ZenonT(30)

(* There are finitely many admissions, each with its stamp.                *)
LEMMA AdmissionsFinite ==
  ASSUME NEW A \in SUBSET Admissions
  PROVE  /\ IsFiniteSet(A) /\ Cardinality(A) \in Nat
         /\ \A a \in A : a[1] \in 0..MaxTime
  <1>1. IsFiniteSet(0..MaxTime) /\ IsFiniteSet(1..MaxAdmitted)
    BY FS_Interval, LimitInputs
  <1>2. IsFiniteSet(Admissions)
    BY <1>1, FS_Product, ZenonT(30) DEF Admissions
  <1>3. IsFiniteSet(A) /\ Cardinality(A) \in Nat
    BY <1>2, SmallerSubset, ZenonT(30)
  <1> QED BY <1>3 DEF Admissions

(* One more admission, when fewer than MaxHits count at its stamp, keeps   *)
(* the limit in every stretch.                                             *)
LEMMA AdmitLimited ==
  ASSUME NEW A \in SUBSET Admissions, NEW x \in Admissions, Limited(A),
         Cardinality(After(A, x[1] - Window)) < MaxHits
  PROVE  Limited(A \cup {x})
  <1> DEFINE In(B, t) == {a \in B : t - Window < a[1] /\ a[1] <= t}
  <1> SUFFICES ASSUME NEW t \in 0..MaxTime
               PROVE  Cardinality(In(A \cup {x}, t)) <= MaxHits
    BY DEF Limited
  <1>0. x[1] \in 0..MaxTime /\ t \in Int /\ Window \in Nat /\ MaxHits \in Nat /\ MaxTime \in Nat
    BY LimitInputs DEF Admissions
  <1>a. \A a \in A : a[1] \in Int
    BY AdmissionsFinite
  <1>1. CASE t < x[1]
    <2>1. In(A \cup {x}, t) = In(A, t)
      BY <1>0, <1>1
    <2> QED BY <2>1 DEF Limited
  <1>2. CASE x[1] <= t
    <2> DEFINE R == After(A, x[1] - Window)
    <2>1. In(A \cup {x}, t) \subseteq R \cup {x}
      BY <1>0, <1>a, <1>2 DEF After
    <2>2. R \in SUBSET Admissions
      BY DEF After
    <2>3. IsFiniteSet(R) /\ Cardinality(R) \in Nat
      BY <2>2, AdmissionsFinite
    <2> HIDE DEF R, In
    <2>4. /\ IsFiniteSet(R \cup {x})
          /\ Cardinality(R \cup {x}) = IF x \in R THEN Cardinality(R) ELSE Cardinality(R) + 1
      BY <2>3, FS_AddElement, ZenonT(30)
    <2>5. Cardinality(R \cup {x}) <= MaxHits
      BY <1>0, <2>3, <2>4 DEF R
    <2>6. /\ Cardinality(In(A \cup {x}, t)) \in Nat /\ Cardinality(R \cup {x}) \in Nat
          /\ Cardinality(In(A \cup {x}, t)) <= Cardinality(R \cup {x})
      BY <2>1, <2>4, SmallerSubset, ZenonT(30)
    <2> QED BY <1>0, <2>5, <2>6
  <1> QED BY <1>0, <1>1, <1>2

(* A script that sees every admission that counts, each under a stamp of   *)
(* its own, counts all of them.                                            *)
LEMMA SeenIsEnough ==
  ASSUME NEW A \in SUBSET Admissions, NEW Z \in SUBSET (0..MaxTime), NEW t \in 0..MaxTime,
         Stamped(Z, A), SeesAll(Z, A, t)
  PROVE  Cardinality(After(A, t - Window)) <= Cardinality(Seen(Z, t))
  <1> DEFINE R == After(A, t - Window)
             S == Seen(Z, t)
             f == [a \in R |-> a[1]]
  <1>1. IsFiniteSet(S)
    <2>1. IsFiniteSet(0..MaxTime)
      BY FS_Interval, LimitInputs
    <2>2. S \subseteq 0..MaxTime
      BY DEF Seen
    <2> HIDE DEF S
    <2> QED BY <2>1, <2>2, SmallerSubset, ZenonT(30)
  <1>2. f \in [R -> S]
    BY DEF After, Seen, SeesAll
  <1>3. \A a, b \in R : f[a] = f[b] => a = b
    BY DEF After, Stamped
  <1> HIDE DEF R, S, f
  <1>4. f \in Injection(R, S)
    BY <1>2, <1>3 DEF Injection, IsInjective
  <1>5. Cardinality(R) <= Cardinality(S)
    BY <1>1, <1>4, FS_Injection, ZenonT(30)
  <1> QED BY <1>5 DEF R, S

(* What a script counts was admitted.                                      *)
LEMMA SeenWasAdmitted ==
  ASSUME NEW A \in SUBSET Admissions, NEW Z \in SUBSET (0..MaxTime), NEW t \in 0..MaxTime,
         Stamped(Z, A)
  PROVE  /\ Cardinality(Seen(Z, t)) <= Cardinality(After(A, t - Window))
         /\ Cardinality(Seen(Z, t)) \in Nat
         /\ Cardinality(After(A, t - Window)) \in Nat
  <1> DEFINE S == Seen(Z, t)
             R == {a \in After(A, t - Window) : a[1] \in Z}
             f == [a \in R |-> a[1]]
  <1>1. /\ R \in SUBSET Admissions
        /\ R \subseteq After(A, t - Window)
        /\ After(A, t - Window) \in SUBSET Admissions
    BY DEF After
  <1>2. IsFiniteSet(R) /\ IsFiniteSet(After(A, t - Window))
    BY <1>1, AdmissionsFinite
  <1>3. f \in [R -> S]
    BY DEF After, Seen
  <1>4. \A m \in S : \E a \in R : f[a] = m
    BY DEF After, Seen, Stamped
  <1> HIDE DEF R, S, f
  <1>5. f \in Surjection(R, S)
    BY <1>3, <1>4 DEF Surjection
  <1>6. IsFiniteSet(S) /\ Cardinality(S) <= Cardinality(R)
    BY <1>2, <1>5, FS_Surjection, ZenonT(30)
  <1>7. /\ Cardinality(R) <= Cardinality(After(A, t - Window))
        /\ Cardinality(R) \in Nat /\ Cardinality(After(A, t - Window)) \in Nat
    BY <1>1, <1>2, SmallerSubset, ZenonT(30)
  <1>8. Cardinality(S) \in Nat
    BY <1>6, FS_CardinalityType, ZenonT(30)
  <1> QED BY <1>6, <1>7, <1>8 DEF S

(* A Redis set cannot hold more members than there are stamps. *)
LEMMA SeenFinite ==
  ASSUME NEW Z \in SUBSET (0..MaxTime), NEW t
  PROVE  IsFiniteSet(Seen(Z, t)) /\ Cardinality(Seen(Z, t)) \in Nat
  <1>1. IsFiniteSet(0..MaxTime)
    BY FS_Interval, LimitInputs
  <1>2. Seen(Z, t) \subseteq 0..MaxTime
    BY DEF Seen
  <1> QED BY <1>1, <1>2, SmallerSubset, ZenonT(30)

-----------------------------------------------------------------------------
(* memoryBackend.Allow counts every admission that is in the window, and   *)
(* leaves a slice that still holds all that count.                         *)
LEMMA AllowRemembers ==
  ASSUME NEW w, NEW A \in SUBSET Admissions, NEW c \in 0..MaxTime, Remembers(w, A, c),
         NEW x \in Admissions, x[1] = c
  PROVE  LET valid == After(w.timestamps, c - Window)
             kept(B) == [timestamps |-> B, expiresAt |-> c + Window]
         IN  /\ valid = After(A, c - Window)
             /\ Remembers(kept(valid), A, c)
             /\ Remembers(kept(valid \cup {x}), A \cup {x}, c)
  <1>1. \A a \in A : a[1] \in 0..MaxTime
    BY AdmissionsFinite
  <1>2. c \in Int /\ Window \in Nat \ {0} /\ MaxTime \in Nat
    BY LimitInputs
  <1> QED BY <1>1, <1>2 DEF Remembers, After

(* The janitor drops a slice when none of its admissions counts, and time  *)
(* makes none count again.                                                 *)
LEMMA TimeRemembers ==
  ASSUME NEW w, NEW A \in SUBSET Admissions, NEW c \in 0..MaxTime, Remembers(w, A, c),
         w.expiresAt \in Int
  PROVE  /\ c > w.expiresAt => Remembers(NewWindow, A, c)
         /\ Remembers(w, A, c + 1)
  <1>1. \A a \in A : a[1] \in 0..MaxTime
    BY AdmissionsFinite
  <1>2. c \in Int /\ Window \in Nat \ {0} /\ MaxTime \in Nat
    BY LimitInputs
  <1> QED BY <1>1, <1>2 DEF Remembers, NewWindow

-----------------------------------------------------------------------------
(* A script that passes its request, after all others of its key by stamp, *)
(* was right to pass it; the members it leaves serve all scripts to come.  *)
LEMMA ScriptPasses ==
  ASSUME NEW A \in SUBSET Admissions, NEW Z \in SUBSET (0..MaxTime), NEW c \in 0..MaxTime,
         NEW x \in Admissions, x[1] <= c,
         Limited(A), Stamped(Z, A), SeesAll(Z, A, c), Safe(Z, A, x[1]),
         ~(Cardinality(Seen(Z, x[1])) >= MaxHits), \A a \in A : a[1] < x[1]
  PROVE  LET Zn == Seen(Z, x[1]) \cup {x[1]}
             An == A \cup {x}
         IN  /\ Limited(An) /\ Stamped(Zn, An) /\ SeesAll(Zn, An, c)
             /\ \A u \in 0..MaxTime : Safe(Z, A, u) => Safe(Zn, An, u)
  <1> DEFINE t == x[1]
             Zn == Seen(Z, t) \cup {t}
             An == A \cup {x}
  <1>1. \A a \in A : a[1] \in 0..MaxTime
    BY AdmissionsFinite
  <1>2. /\ t \in 0..MaxTime /\ c \in Int /\ Window \in Nat \ {0} /\ MaxTime \in Nat
        /\ MaxHits \in Nat \ {0}
    BY LimitInputs DEF Admissions
  <1>3. SeesAll(Z, A, t)
    BY <1>1, <1>2 DEF Safe
  <1>4. Limited(An)
    <2>1. Cardinality(After(A, t - Window)) <= Cardinality(Seen(Z, t))
      BY <1>2, <1>3, SeenIsEnough
    <2>2. Cardinality(After(A, t - Window)) \in Nat /\ Cardinality(Seen(Z, t)) \in Nat
      BY <1>2, SeenWasAdmitted
    <2>3. Cardinality(After(A, t - Window)) < MaxHits
      BY <1>2, <2>1, <2>2
    <2> QED BY <2>3, AdmitLimited
  <1>5. Stamped(Zn, An)
    BY <1>1, <1>2 DEF Stamped, Seen
  <1>6. SeesAll(Zn, An, c)
    BY <1>1, <1>2 DEF SeesAll, Seen
  <1>7. ASSUME NEW u \in 0..MaxTime, Safe(Z, A, u)
        PROVE  Safe(Zn, An, u)
    <2>1. CASE u <= t
      <3>1. x \in An /\ x[1] >= u
        BY <1>2, <2>1
      <3> QED BY <3>1, ZenonT(30) DEF Safe
    <2>2. CASE u > t
      <3>0. \A m \in Z : m > u - Window => m > t - Window
        BY <1>2, <2>2
      <3>1. Seen(Z, u) \subseteq Seen(Z, t)
        BY <3>0, ZenonT(30) DEF Seen
      <3>2. /\ Cardinality(Seen(Z, u)) <= Cardinality(Seen(Z, t))
            /\ Cardinality(Seen(Z, u)) \in Nat /\ Cardinality(Seen(Z, t)) \in Nat
        BY <3>1, SeenFinite, SmallerSubset, ZenonT(30)
      <3>3. SeesAll(Z, A, u)
        BY <1>1, <1>2, <1>7, <2>2, <3>2 DEF Safe
      <3>4. SeesAll(Zn, An, u)
        BY <1>1, <1>2, <2>2, <3>3 DEF SeesAll, Seen
      <3> QED BY <3>4 DEF Safe
    <2> QED BY <1>2, <2>1, <2>2
  <1> QED BY <1>4, <1>5, <1>6, <1>7

(* A script that refuses its request drops only what no later script       *)
(* counts; an earlier one finds as many members and is refused too.        *)
LEMMA ScriptRefuses ==
  ASSUME NEW A \in SUBSET Admissions, NEW Z \in SUBSET (0..MaxTime), NEW c \in 0..MaxTime,
         NEW t \in 0..MaxTime, t <= c, Stamped(Z, A), SeesAll(Z, A, c),
         Cardinality(Seen(Z, t)) >= MaxHits
  PROVE  /\ Stamped(Seen(Z, t), A) /\ SeesAll(Seen(Z, t), A, c)
         /\ \A u \in 0..MaxTime : Safe(Z, A, u) => Safe(Seen(Z, t), A, u)
  <1>1. \A a \in A : a[1] \in 0..MaxTime
    BY AdmissionsFinite
  <1>2. c \in Int /\ Window \in Nat \ {0} /\ MaxTime \in Nat /\ MaxHits \in Nat
    BY LimitInputs
  <1>3. Stamped(Seen(Z, t), A) /\ SeesAll(Seen(Z, t), A, c)
    BY <1>1, <1>2 DEF Stamped, SeesAll, Seen
  <1>4. ASSUME NEW u \in 0..MaxTime, Safe(Z, A, u)
        PROVE  Safe(Seen(Z, t), A, u)
    <2>1. CASE u <= t
      <3>0. \A m \in Z : m > t - Window => m > u - Window
        BY <1>2, <2>1
      <3>1. Seen(Seen(Z, t), u) = Seen(Z, t)
        BY <3>0, ZenonT(30) DEF Seen
      <3> QED BY <3>1, ZenonT(30) DEF Safe
    <2>2. CASE u > t
      <3>0. \A m \in Z : m > u - Window => m > t - Window
        BY <1>2, <2>2
      <3>1. Seen(Seen(Z, t), u) = Seen(Z, u)
        BY <3>0, ZenonT(30) DEF Seen
      <3>2. SeesAll(Z, A, u) => SeesAll(Seen(Z, t), A, u)
        BY <1>1, <1>2, <2>2 DEF SeesAll, Seen
      <3> QED BY <1>4, <3>1, <3>2, ZenonT(30) DEF Safe
    <2> QED BY <1>2, <2>1, <2>2
  <1> QED BY <1>3, <1>4

(* The expiry of a key, of whose members no script on its way counts any,  *)
(* is without effect.                                                      *)
LEMMA ExpiryForgets ==
  ASSUME NEW A \in SUBSET Admissions, NEW Z \in SUBSET (0..MaxTime), NEW c \in 0..MaxTime,
         NEW e \in Int, e # NoCall, c >= e, ExpireInTime(Z, e, c), SeesAll(Z, A, c)
  PROVE  /\ SeesAll({}, A, c)
         /\ \A u \in 0..MaxTime : Safe(Z, A, u) /\ Seen(Z, u) = {} => Safe({}, A, u)
  <1>1. \A a \in A : a[1] \in 0..MaxTime
    BY AdmissionsFinite
  <1>2. c \in Int /\ Window \in Nat \ {0} /\ MaxTime \in Nat /\ MaxHits \in Nat \ {0}
    BY LimitInputs
  <1>3. SeesAll({}, A, c)
    BY <1>1, <1>2 DEF SeesAll, ExpireInTime
  <1>4. ASSUME NEW u \in 0..MaxTime, Safe(Z, A, u), Seen(Z, u) = {}
        PROVE  Safe({}, A, u)
    <2>1. ~(Cardinality(Seen(Z, u)) >= MaxHits)
      <3>1. Cardinality({}) = 0
        BY FS_EmptySet, ZenonT(30)
      <3> QED BY <1>2, <1>4, <3>1
    <2>2. SeesAll(Z, A, u) => SeesAll({}, A, u)
      BY <1>1, <1>2, <1>4 DEF SeesAll, Seen
    <2> QED BY <1>4, <2>1, <2>2 DEF Safe
  <1> QED BY <1>3, <1>4

-----------------------------------------------------------------------------
(* The next admission has a serial number within the bound.                *)
LEMMA NextAdmission ==
  ASSUME LimitTypeOK, Total < MaxAdmitted, NEW t \in 0..MaxTime
  PROVE  <<t, Total + 1>> \in Admissions /\ <<t, Total + 1>>[1] = t
  <1>1. UNION {admitted[k] : k \in LimitKeys} \in SUBSET Admissions
    <2>1. \A k \in LimitKeys : admitted[k] \in SUBSET Admissions
      BY ZenonT(30) DEF LimitTypeOK
    <2> QED BY <2>1
  <1>2. Total \in Nat
    BY <1>1, AdmissionsFinite DEF Total
  <1>3. Total + 1 \in 1..MaxAdmitted
    BY <1>2, LimitInputs
  <1> QED BY <1>3 DEF Admissions

(* No step of the limiter takes a variable out of its type.                *)
LEMMA LimitTypeStep ==
  ASSUME LimitTypeOK, [LimitNext]_limitVars
  PROVE  LimitTypeOK'
  <1>0. /\ MaxTime \in Nat /\ Window \in Nat \ {0} /\ clock \in Nat
        /\ clock + Window \in 0..(MaxTime + Window)
    BY LimitInputs DEF LimitTypeOK
  <1>1. ASSUME NEW k \in LimitKeys, MemoryAllow(k) PROVE LimitTypeOK'
    <2> DEFINE x == <<clock, Total + 1>>
    <2>1. x \in Admissions
      BY <1>1, NextAdmission DEF MemoryAllow, LimitTypeOK
    <2>2. After(windows[k].timestamps, clock - Window) \in SUBSET Admissions
      BY DEF After, LimitTypeOK
    <2> DEFINE valid == After(windows[k].timestamps, clock - Window)
    <2>3. windows' \in [LimitKeys -> [timestamps : SUBSET Admissions, expiresAt : 0..(MaxTime + Window)]]
      <3>1. PICK B \in {valid, valid \cup {x}} :
              windows' = [windows EXCEPT ![k] = [timestamps |-> B, expiresAt |-> clock + Window]]
        BY <1>1, ZenonT(30) DEF MemoryAllow
      <3>2. B \in SUBSET Admissions
        BY <2>1, <2>2
      <3> QED BY <1>0, <3>1, <3>2 DEF LimitTypeOK
    <2>4. admitted' \in [LimitKeys -> SUBSET Admissions]
      <3>1. admitted' = admitted \/ admitted' = [admitted EXCEPT ![k] = @ \cup {x}]
        BY <1>1, ZenonT(30) DEF MemoryAllow, Count
      <3> HIDE DEF x
      <3> QED BY <2>1, <3>1 DEF LimitTypeOK
    <2>5. last' \in ({"next", "429", "503"} \X LimitKeys \X (0..MaxTime)) \cup {NoCall}
      BY <1>1 DEF MemoryAllow, Answer, LimitTypeOK
    <2> QED BY <1>1, <2>3, <2>4, <2>5 DEF MemoryAllow, LimitTypeOK
  <1>2. ASSUME NEW k \in LimitKeys, NoOpAllow(k) PROVE LimitTypeOK'
    BY <1>2 DEF NoOpAllow, Answer, LimitTypeOK
  <1>3. ASSUME NEW k \in LimitKeys, RedisExpire(k) PROVE LimitTypeOK'
    BY <1>3 DEF RedisExpire, LimitTypeOK
  <1>4. ASSUME NEW r \in Hits, NEW k \in LimitKeys, RedisCall(r, k) PROVE LimitTypeOK'
    BY <1>4 DEF RedisCall, LimitTypeOK
  <1>5. ASSUME NEW r \in Hits, Script(r) PROVE LimitTypeOK'
    <2> DEFINE k == script[r][1]
               t == script[r][2]
    <2>1. k \in LimitKeys /\ t \in 0..MaxTime
      BY <1>5 DEF Script, LimitTypeOK
    <2>2. <<t, Total + 1>> \in Admissions
      BY <1>5, <2>1, NextAdmission DEF Script
    <2>3. Live(k, t) \in SUBSET (0..MaxTime)
      BY <2>1 DEF Live, LimitTypeOK
    <2> HIDE DEF k, t
    <2>4. /\ zset' \in [LimitKeys -> SUBSET (0..MaxTime)]
          /\ zexpiry' \in [LimitKeys -> (0..(MaxTime + Window)) \cup {NoCall}]
      <3> DEFINE L == Live(k, t)
      <3>1. /\ \/ zset' = [zset EXCEPT ![k] = L] \/ zset' = [zset EXCEPT ![k] = L \cup {t}]
            /\ zexpiry' = zexpiry \/ zexpiry' = [zexpiry EXCEPT ![k] = clock + Window]
        BY <1>5, ZenonT(30) DEF Script, Zadd, k, t
      <3>2. L \in SUBSET (0..MaxTime) /\ L \cup {t} \in SUBSET (0..MaxTime)
        BY <2>1, <2>3
      <3> HIDE DEF L
      <3>3. zset' \in [LimitKeys -> SUBSET (0..MaxTime)]
        BY <2>1, <3>1, <3>2 DEF LimitTypeOK
      <3>4. clock + Window \in 0..(MaxTime + Window)
        BY <1>0, LimitInputs DEF LimitTypeOK
      <3>5. zexpiry' \in [LimitKeys -> (0..(MaxTime + Window)) \cup {NoCall}]
        BY <2>1, <3>1, <3>4 DEF LimitTypeOK
      <3> QED BY <3>3, <3>5
    <2>5. /\ admitted' \in [LimitKeys -> SUBSET Admissions]
          /\ irregular' \in SUBSET LimitKeys
      <3> DEFINE x == <<t, Total + 1>>
      <3>1. admitted' = admitted \/ admitted' = [admitted EXCEPT ![k] = @ \cup {x}]
        BY <1>5, ZenonT(30) DEF Script, Count, k, t
      <3>2. irregular' = irregular \/ irregular' = irregular \cup {k}
        BY <1>5, ZenonT(30) DEF Script, k, t
      <3>3. irregular' \in SUBSET LimitKeys
        BY <2>1, <3>2 DEF LimitTypeOK
      <3>4. x \in Admissions
        BY <2>2
      <3> HIDE DEF x
      <3>5. admitted' \in [LimitKeys -> SUBSET Admissions]
        BY <2>1, <3>1, <3>4 DEF LimitTypeOK
      <3> QED BY <3>3, <3>5
    <2>6. last' \in ({"next", "429", "503"} \X LimitKeys \X (0..MaxTime)) \cup {NoCall}
      <3>1. last' = <<"429", k, t>> \/ last' = <<"next", k, t>>
        BY <1>5, ZenonT(30) DEF Script, Answer, k, t
      <3> QED BY <2>1, <3>1
    <2> QED BY <1>5, <2>4, <2>5, <2>6 DEF Script, LimitTypeOK
  <1>6. ASSUME NEW r \in Hits, ScriptError(r) PROVE LimitTypeOK'
    <2> DEFINE k == script[r][1]
               t == script[r][2]
    <2>1. k \in LimitKeys /\ t \in 0..MaxTime
      BY <1>6 DEF ScriptError, LimitTypeOK
    <2>2. Live(k, t) \in SUBSET (0..MaxTime)
      BY <2>1 DEF Live, LimitTypeOK
    <2>3. OnError \in {"next", "429", "503"}
      BY DEF OnError
    <2> HIDE DEF k, t
    <2>4. /\ zset' \in [LimitKeys -> SUBSET (0..MaxTime)]
          /\ zexpiry' \in [LimitKeys -> (0..(MaxTime + Window)) \cup {NoCall}]
          /\ irregular' \in SUBSET LimitKeys
      <3>1. \/ UNCHANGED <<zset, zexpiry, irregular>>
            \/ Zadd(k, t) /\ irregular' = irregular \cup {k}
        BY <1>6, ZenonT(30) DEF ScriptError, k, t
      <3>2. CASE UNCHANGED <<zset, zexpiry, irregular>>
        BY <3>2 DEF LimitTypeOK
      <3>3. CASE Zadd(k, t) /\ irregular' = irregular \cup {k}
        BY <1>0, <2>1, <2>2, <3>3 DEF Zadd, LimitTypeOK
      <3> QED BY <3>1, <3>2, <3>3, ZenonT(30)
    <2>5. last' \in ({"next", "429", "503"} \X LimitKeys \X (0..MaxTime)) \cup {NoCall}
      BY <1>6, <2>1, <2>3 DEF ScriptError, Answer, LimitTypeOK, k, t
    <2> QED BY <1>6, <2>4, <2>5 DEF ScriptError, LimitTypeOK
  <1>7. CASE Cleanup
    BY <1>0, <1>7 DEF Cleanup, NewWindow, LimitTypeOK
  <1>8. CASE LimitTick
    BY <1>0, <1>8 DEF LimitTick, LimitTypeOK
  <1>9. CASE UNCHANGED limitVars
    BY <1>9 DEF limitVars, LimitTypeOK
  <1> QED BY <1>1, <1>2, <1>3, <1>4, <1>5, <1>6, <1>7, <1>8, <1>9 DEF LimitNext

-----------------------------------------------------------------------------
(* What the invariant says beyond the types, and an answer of its own.     *)
LimitCore == MemoryInv /\ ScriptInv /\ RedisInv

(* memoryBackend.Allow. *)
LEMMA MemoryAllowStep ==
  ASSUME LimitInv, NEW k \in LimitKeys, MemoryAllow(k)
  PROVE  LimitCore' /\ AnswerRight'
  <1> DEFINE A == admitted[k]
             w == windows[k]
             x == <<clock, Total + 1>>
             valid == After(w.timestamps, clock - Window)
             kept(B) == [timestamps |-> B, expiresAt |-> clock + Window]
  <1>1. /\ A \in SUBSET Admissions /\ clock \in 0..MaxTime
        /\ admitted \in [LimitKeys -> SUBSET Admissions] /\ DOMAIN windows = LimitKeys
    BY DEF LimitInv, LimitTypeOK
  <1>2. /\ Backend = "memory" /\ Backend' = "memory" /\ UNCHANGED <<clock, site, script>>
        /\ x \in Admissions /\ x[1] = clock
    BY <1>1, NextAdmission DEF MemoryAllow, Backend, LimitInv
  <1>3. /\ \A j \in LimitKeys : Limited(admitted[j]) /\ Remembers(windows[j], admitted[j], clock)
    BY <1>2, ZenonT(30) DEF LimitInv, MemoryInv
  <1> HIDE DEF x
  <1>4. /\ valid = After(A, clock - Window)
        /\ Remembers(kept(valid), A, clock)
        /\ Remembers(kept(valid \cup {x}), A \cup {x}, clock)
    BY <1>1, <1>2, <1>3, AllowRemembers
  <1>5. ScriptInv' /\ RedisInv'
    BY <1>2 DEF LimitInv, ScriptInv, RedisInv
  <1> HIDE DEF valid, kept, A
  <1>6. CASE /\ Cardinality(valid) >= MaxHits
             /\ windows' = [windows EXCEPT ![k] = kept(valid)]
             /\ last' = <<"429", k, clock>> /\ admitted' = admitted
    <2>1. MemoryInv'
      BY <1>1, <1>2, <1>3, <1>4, <1>6 DEF MemoryInv, A
    <2>2. AnswerRight'
      BY <1>2, <1>4, <1>6 DEF AnswerRight, A
    <2> QED BY <1>5, <2>1, <2>2 DEF LimitCore
  <1>7. CASE /\ ~(Cardinality(valid) >= MaxHits)
             /\ windows' = [windows EXCEPT ![k] = kept(valid \cup {x})]
             /\ last' = <<"next", k, clock>>
             /\ admitted' = [admitted EXCEPT ![k] = A \cup {x}]
    <2>1. Cardinality(valid) \in Nat
      <3>1. valid \in SUBSET Admissions
        BY <1>1, <1>4 DEF After
      <3> QED BY <3>1, AdmissionsFinite
    <2>2. Limited(A \cup {x})
      <3>1. Cardinality(After(A, x[1] - Window)) < MaxHits
        BY <1>2, <1>4, <1>7, <2>1, LimitInputs
      <3> QED BY <1>1, <1>2, <1>3, <3>1, AdmitLimited DEF A
    <2>3. MemoryInv'
      BY <1>1, <1>2, <1>3, <1>4, <1>7, <2>2 DEF MemoryInv
    <2>4. AnswerRight'
      <3>1. x \in admitted'[k]
        BY <1>1, <1>7
      <3> QED BY <1>2, <1>7, <3>1 DEF AnswerRight
    <2> QED BY <1>5, <2>3, <2>4 DEF LimitCore
  <1> QED BY <1>6, <1>7, ZenonT(30) DEF MemoryAllow, Full, Count, Answer, valid, kept, x, A

(* What a step leaves alone of a key stays right.                          *)
LEMMA KeyKept ==
  ASSUME NEW j, KeyInv(j), UNCHANGED <<clock, zset[j], zexpiry[j], admitted[j]>>,
         irregular \subseteq irregular',
         \A q \in Hits : script'[q] # NoCall /\ script'[q][1] = j => script[q] = script'[q]
  PROVE  KeyInv(j)'
  BY ZenonT(30) DEF KeyInv

(* The script that runs in Redis. *)
LEMMA ScriptStep ==
  ASSUME LimitInv, NEW r \in Hits, Script(r)
  PROVE  LimitCore' /\ AnswerRight'
  <1>0. PICK k \in LimitKeys, t \in 0..MaxTime : script[r] = <<k, t>> /\ script[r] # NoCall
    BY DEF LimitInv, LimitTypeOK, Script
  <1> DEFINE Z == zset[k]
             A == admitted[k]
             x == <<t, Total + 1>>
  <1>1. /\ clock \in 0..MaxTime
        /\ Z \in SUBSET (0..MaxTime) /\ A \in SUBSET Admissions
        /\ DOMAIN zset = LimitKeys /\ DOMAIN zexpiry = LimitKeys
        /\ DOMAIN admitted = LimitKeys /\ DOMAIN script = Hits
    BY DEF LimitInv, LimitTypeOK, Script
  <1>2. /\ Backend = "redis" /\ Backend' = "redis" /\ UNCHANGED <<clock, site>>
        /\ t <= clock /\ script' = [script EXCEPT ![r] = NoCall]
    <2>1. script[r] # NoCall /\ script[r][2] = t
      BY <1>0
    <2>2. Backend = "redis" /\ t <= clock
      BY <2>1 DEF LimitInv, ScriptInv
    <2>3. UNCHANGED <<clock, site>> /\ script' = [script EXCEPT ![r] = NoCall]
      BY ZenonT(30) DEF Script
    <2> QED BY <2>2, <2>3 DEF Backend
  <1>3. x \in Admissions /\ x[1] = t
    BY <1>1, NextAdmission DEF Script, LimitInv
  <1>4. \A j \in LimitKeys : KeyInv(j)
    BY <1>2, ZenonT(30) DEF LimitInv, RedisInv
  <1>5. MemoryInv' /\ ScriptInv'
    BY <1>1, <1>2 DEF LimitInv, MemoryInv, ScriptInv
  <1>6. \A q \in Hits : script'[q] # NoCall => script[q] = script'[q]
    BY <1>1, <1>2
  <1>7. Live(k, t) = Seen(Z, t)
    BY DEF Live, Seen
  <1>8. /\ script[r] # NoCall
        /\ ExpireInTime(Z, zexpiry[k], clock)
        /\ k \notin irregular =>
             /\ Limited(A) /\ Stamped(Z, A) /\ SeesAll(Z, A, clock) /\ Safe(Z, A, t)
             /\ \A q \in Hits : script[q] # NoCall /\ script[q][1] = k => Safe(Z, A, script[q][2])
    <2>1. script[r][1] = k /\ script[r][2] = t
      BY <1>0
    <2> QED BY <1>0, <1>4, <2>1, ZenonT(30) DEF KeyInv
  <1>9. \A q \in Hits : script'[q] # NoCall => script'[q][2] \in 0..MaxTime
    BY <1>6 DEF LimitInv, LimitTypeOK
  <1> HIDE DEF x, Z, A
  <1>10. CASE /\ Cardinality(Seen(Z, t)) >= MaxHits
              /\ zset' = [zset EXCEPT ![k] = Seen(Z, t)]
              /\ last' = <<"429", k, t>> /\ UNCHANGED <<zexpiry, admitted, irregular>>
    <2>1. \A j \in LimitKeys \ {k} : KeyInv(j)'
      BY <1>1, <1>2, <1>4, <1>6, <1>10, KeyKept
    <2>2. zset'[k] = Seen(Z, t) /\ admitted'[k] = A /\ zexpiry'[k] = zexpiry[k]
      BY <1>1, <1>10 DEF A
    <2>3. ExpireInTime(Seen(Z, t), zexpiry[k], clock)
      BY <1>8 DEF ExpireInTime, Seen
    <2>4. k \notin irregular =>
            /\ Stamped(Seen(Z, t), A) /\ SeesAll(Seen(Z, t), A, clock)
            /\ \A u \in 0..MaxTime : Safe(Z, A, u) => Safe(Seen(Z, t), A, u)
      BY <1>1, <1>2, <1>8, <1>10, ScriptRefuses
    <2>5. KeyInv(k)'
      <3>1. k \notin irregular' => \A q \in Hits : script'[q] # NoCall /\ script'[q][1] = k =>
              Safe(Seen(Z, t), A, script'[q][2])
        BY <1>6, <1>8, <1>9, <1>10, <2>4
      <3> QED BY <1>2, <1>8, <1>10, <2>2, <2>3, <2>4, <3>1 DEF KeyInv
    <2>6. AnswerRight'
      <3>1. k \notin irregular => Cardinality(After(A, t - Window)) >= MaxHits
        <4> DEFINE n == Cardinality(Seen(Z, t))
                   m == Cardinality(After(A, t - Window))
        <4>1. k \notin irregular => n <= m /\ n \in Nat /\ m \in Nat
          BY <1>1, <1>8, SeenWasAdmitted DEF Z, A
        <4>2. n >= MaxHits
          BY <1>10
        <4> HIDE DEF n, m
        <4>3. k \notin irregular => m >= MaxHits
          BY <4>1, <4>2, LimitInputs
        <4> QED BY <4>3 DEF m
      <3> QED BY <1>10, <2>2, <3>1 DEF AnswerRight
    <2> QED BY <1>5, <2>1, <2>5, <2>6 DEF LimitCore, RedisInv
  <1>11. CASE /\ ~(Cardinality(Seen(Z, t)) >= MaxHits)
              /\ zset' = [zset EXCEPT ![k] = Seen(Z, t) \cup {t}]
              /\ zexpiry' = [zexpiry EXCEPT ![k] = clock + Window]
              /\ admitted' = [admitted EXCEPT ![k] = A \cup {x}]
              /\ last' = <<"next", k, t>>
              /\ irregular' = IF \A a \in A : a[1] < t THEN irregular ELSE irregular \cup {k}
    <2>1. \A j \in LimitKeys \ {k} : KeyInv(j)'
      BY <1>1, <1>2, <1>4, <1>6, <1>11, KeyKept
    <2>2. /\ zset'[k] = Seen(Z, t) \cup {t} /\ admitted'[k] = A \cup {x}
          /\ zexpiry'[k] = clock + Window
      BY <1>1, <1>11
    <2>3. ExpireInTime(Seen(Z, t) \cup {t}, clock + Window, clock)
      <3>1. Window \in Nat /\ clock \in Nat /\ t \in Nat /\ t <= clock
        BY <1>1, <1>2, LimitInputs
      <3>2. \A m \in Seen(Z, t) \cup {t} : m \in Nat /\ m <= clock
        BY <1>1, <1>8, <3>1 DEF ExpireInTime, Seen
      <3>3. \A m \in Nat : m <= clock => m + Window <= clock + Window
        BY <3>1
      <3> QED BY <3>2, <3>3 DEF ExpireInTime
    <2>4. k \notin irregular' =>
            /\ k \notin irregular /\ \A a \in A : a[1] < t
      BY <1>11
    <2>5. k \notin irregular' =>
            /\ Limited(A \cup {x}) /\ Stamped(Seen(Z, t) \cup {t}, A \cup {x})
            /\ SeesAll(Seen(Z, t) \cup {t}, A \cup {x}, clock)
            /\ \A u \in 0..MaxTime : Safe(Z, A, u) => Safe(Seen(Z, t) \cup {t}, A \cup {x}, u)
      BY <1>1, <1>2, <1>3, <1>8, <1>11, <2>4, ScriptPasses
    <2>6. KeyInv(k)'
      <3>1. k \notin irregular' => \A q \in Hits : script'[q] # NoCall /\ script'[q][1] = k =>
              Safe(Seen(Z, t) \cup {t}, A \cup {x}, script'[q][2])
        BY <1>6, <1>8, <1>9, <2>4, <2>5
      <3> QED BY <1>2, <1>8, <2>2, <2>3, <2>4, <2>5, <3>1 DEF KeyInv
    <2>7. AnswerRight'
      BY <1>3, <1>11, <2>2 DEF AnswerRight
    <2> QED BY <1>5, <2>1, <2>6, <2>7 DEF LimitCore, RedisInv
  <1> QED BY <1>0, <1>7, <1>10, <1>11 DEF Script, Full, Zadd, Count, Answer, x, A, Z

(* The script fails, or takes effect without an answer. *)
LEMMA ScriptErrorStep ==
  ASSUME LimitInv, NEW r \in Hits, ScriptError(r)
  PROVE  LimitCore' /\ AnswerRight'
  <1>0. PICK k \in LimitKeys, t \in 0..MaxTime : script[r] = <<k, t>> /\ script[r] # NoCall
    BY DEF LimitInv, LimitTypeOK, ScriptError
  <1>1. /\ clock \in 0..MaxTime /\ zset[k] \in SUBSET (0..MaxTime)
        /\ DOMAIN zset = LimitKeys /\ DOMAIN zexpiry = LimitKeys
        /\ DOMAIN admitted = LimitKeys /\ DOMAIN script = Hits
    BY DEF LimitInv, LimitTypeOK
  <1>2. /\ Backend = "redis" /\ Backend' = "redis" /\ UNCHANGED <<clock, site, admitted>>
        /\ t <= clock /\ script' = [script EXCEPT ![r] = NoCall]
        /\ last' = <<OnError, k, t>>
    <2>1. script[r] # NoCall /\ script[r][1] = k /\ script[r][2] = t
      BY <1>0
    <2>2. Backend = "redis" /\ t <= clock
      BY <2>1 DEF LimitInv, ScriptInv
    <2>3. /\ UNCHANGED <<clock, site, admitted>> /\ script' = [script EXCEPT ![r] = NoCall]
          /\ last' = <<OnError, script[r][1], script[r][2]>>
      BY ZenonT(30) DEF ScriptError, Answer
    <2> QED BY <2>1, <2>2, <2>3 DEF Backend
  <1>4. \A j \in LimitKeys : KeyInv(j)
    BY <1>2, ZenonT(30) DEF LimitInv, RedisInv
  <1>5. MemoryInv' /\ ScriptInv'
    BY <1>1, <1>2 DEF LimitInv, MemoryInv, ScriptInv
  <1>6. \A q \in Hits : script'[q] # NoCall => script[q] = script'[q]
    BY <1>1, <1>2
  <1>7. AnswerRight'
    BY <1>2 DEF AnswerRight, OnError
  <1>8. CASE UNCHANGED <<zset, zexpiry, irregular>>
    <2>1. \A j \in LimitKeys : KeyInv(j)'
      BY <1>2, <1>4, <1>6, <1>8, KeyKept
    <2> QED BY <1>5, <1>7, <2>1 DEF LimitCore, RedisInv
  <1>9. CASE Zadd(k, t) /\ irregular' = irregular \cup {k}
    <2>1. \A j \in LimitKeys \ {k} : KeyInv(j)'
      BY <1>1, <1>2, <1>4, <1>6, <1>9, KeyKept DEF Zadd
    <2>2. KeyInv(k)'
      <3>1. zset'[k] = Live(k, t) \cup {t} /\ zexpiry'[k] = clock + Window /\ k \in irregular'
        BY <1>1, <1>9 DEF Zadd
      <3>2. \A m \in zset[k] : m \in Int /\ m <= clock
        BY <1>1, <1>4 DEF KeyInv, ExpireInTime
      <3>3. ExpireInTime(Live(k, t) \cup {t}, clock + Window, clock)
        BY <1>1, <1>2, <3>2, LimitInputs DEF ExpireInTime, Live
      <3> QED BY <1>2, <3>1, <3>3 DEF KeyInv
    <2> QED BY <1>5, <1>7, <2>1, <2>2 DEF LimitCore, RedisInv
  <1>10. script[r][1] = k /\ script[r][2] = t
    BY <1>0
  <1>11. \/ UNCHANGED <<zset, zexpiry, irregular>>
         \/ Zadd(k, t) /\ irregular' = irregular \cup {k}
    BY <1>10 DEF ScriptError
  <1> QED BY <1>8, <1>9, <1>11

(* Redis drops a key. *)
LEMMA RedisExpireStep ==
  ASSUME LimitInv, NEW k \in LimitKeys, RedisExpire(k)
  PROVE  LimitCore' /\ AnswerRight'
  <1> DEFINE Z == zset[k]
             A == admitted[k]
  <1>1. /\ clock \in 0..MaxTime /\ Z \in SUBSET (0..MaxTime) /\ A \in SUBSET Admissions
        /\ DOMAIN zset = LimitKeys /\ DOMAIN zexpiry = LimitKeys
        /\ MaxTime \in Nat /\ Window \in Nat
    BY LimitInputs DEF LimitInv, LimitTypeOK
  <1>2. /\ UNCHANGED <<clock, site, windows, script, last, admitted>> /\ Backend' = Backend
        /\ zset' = [zset EXCEPT ![k] = {}] /\ zexpiry' = [zexpiry EXCEPT ![k] = NoCall]
        /\ irregular \subseteq irregular'
        /\ zexpiry[k] # NoCall /\ clock >= zexpiry[k]
    BY DEF RedisExpire, Backend
  <1>3. zexpiry[k] \in Int
    BY <1>1, <1>2 DEF LimitInv, LimitTypeOK
  <1>4. MemoryInv' /\ ScriptInv' /\ AnswerRight'
    BY <1>2 DEF LimitInv, MemoryInv, ScriptInv, AnswerRight
  <1>5. RedisInv'
    <2> SUFFICES ASSUME Backend = "redis", NEW j \in LimitKeys PROVE KeyInv(j)'
      BY <1>2 DEF RedisInv
    <2>1. \A i \in LimitKeys : KeyInv(i)
      BY ZenonT(30) DEF LimitInv, RedisInv
    <2>2. CASE j # k
      BY <1>1, <1>2, <2>1, <2>2, KeyKept
    <2>3. CASE j = k
      <3>1. zset'[k] = {} /\ zexpiry'[k] = NoCall
        BY <1>1, <1>2
      <3>2. ExpireInTime({}, NoCall, clock)
        BY DEF ExpireInTime
      <3>3. CASE k \in irregular'
        BY <1>2, <2>3, <3>1, <3>2, <3>3 DEF KeyInv
      <3>4. CASE k \notin irregular'
        <4>1. k \notin irregular /\ ~Overtaken(k)
          BY <1>2, <3>4 DEF RedisExpire
        <4>2. /\ Limited(A) /\ Stamped(Z, A) /\ SeesAll(Z, A, clock)
              /\ ExpireInTime(Z, zexpiry[k], clock)
              /\ \A q \in Hits : script[q] # NoCall /\ script[q][1] = k => Safe(Z, A, script[q][2])
          BY <2>1, <4>1, ZenonT(30) DEF KeyInv
        <4>3. \A q \in Hits : script[q] # NoCall /\ script[q][1] = k =>
                Seen(Z, script[q][2]) = {} /\ script[q][2] \in 0..MaxTime
          <5>1. \A q \in Hits : script[q] # NoCall => script[q][2] \in 0..MaxTime
            BY DEF LimitInv, LimitTypeOK
          <5>2. \A q \in Hits : Live(k, script[q][2]) = Seen(Z, script[q][2])
            BY DEF Live, Seen
          <5> QED BY <4>1, <5>1, <5>2, ZenonT(30) DEF Overtaken
        <4> HIDE DEF Z, A
        <4>4. /\ SeesAll({}, A, clock)
              /\ \A u \in 0..MaxTime : Safe(Z, A, u) /\ Seen(Z, u) = {} => Safe({}, A, u)
          BY <1>1, <1>2, <1>3, <4>2, ExpiryForgets
        <4>5. \A q \in Hits : script[q] # NoCall /\ script[q][1] = k => Safe({}, A, script[q][2])
          BY <4>2, <4>3, <4>4, ZenonT(30)
        <4>6. Stamped({}, A)
          BY <4>2 DEF Stamped
        <4>7. admitted'[k] = A /\ script' = script /\ clock' = clock
          BY <1>2 DEF A
        <4> QED BY <2>3, <3>1, <3>2, <4>2, <4>4, <4>5, <4>6, <4>7 DEF KeyInv
      <3> QED BY <3>3, <3>4
    <2> QED BY <2>2, <2>3
  <1> QED BY <1>4, <1>5 DEF LimitCore

(* A script is sent with the time of its call. *)
LEMMA RedisCallStep ==
  ASSUME LimitInv, NEW r \in Hits, NEW k \in LimitKeys, RedisCall(r, k)
  PROVE  LimitCore' /\ AnswerRight'
  <1>1. clock \in 0..MaxTime /\ DOMAIN script = Hits
    BY DEF LimitInv, LimitTypeOK
  <1>2. /\ UNCHANGED <<clock, site, windows, zset, zexpiry, last, admitted, irregular>>
        /\ Backend' = Backend /\ Backend = "redis"
        /\ script' = [script EXCEPT ![r] = <<k, clock>>]
    BY DEF RedisCall, Backend
  <1>3. MemoryInv' /\ AnswerRight'
    BY <1>2 DEF LimitInv, MemoryInv, AnswerRight
  <1>4. ScriptInv'
    BY <1>1, <1>2, LimitInputs DEF LimitInv, ScriptInv
  <1>5. RedisInv'
    <2> SUFFICES ASSUME NEW j \in LimitKeys PROVE KeyInv(j)'
      BY DEF RedisInv
    <2>1. KeyInv(j)
      BY <1>2, ZenonT(30) DEF LimitInv, RedisInv
    <2>2. ASSUME j \notin irregular, NEW q \in Hits, script'[q] # NoCall, script'[q][1] = j
          PROVE  Safe(zset[j], admitted[j], script'[q][2])
      <3>1. CASE q = r
        <4>1. script'[q][2] = clock
          BY <1>1, <1>2, <3>1
        <4> QED BY <2>1, <2>2, <4>1 DEF KeyInv, Safe
      <3>2. CASE q # r
        <4>1. script'[q] = script[q]
          BY <1>1, <1>2, <3>2
        <4> QED BY <2>1, <2>2, <4>1 DEF KeyInv
      <3> QED BY <3>1, <3>2
    <2> QED BY <1>2, <2>1, <2>2 DEF KeyInv
  <1> QED BY <1>3, <1>4, <1>5 DEF LimitCore

(* NoOpCache.SlidingWindowAllow, which promises nothing. *)
LEMMA NoOpAllowStep ==
  ASSUME LimitInv, NEW k \in LimitKeys, NoOpAllow(k)
  PROVE  LimitCore' /\ AnswerRight'
  <1>1. /\ UNCHANGED <<clock, site, script>> /\ Backend = "noop" /\ Backend' = "noop"
        /\ last' = <<"next", k, clock>>
    BY DEF NoOpAllow, Backend, Answer
  <1>2. LimitCore'
    BY <1>1 DEF LimitInv, LimitCore, MemoryInv, ScriptInv, RedisInv
  <1> QED BY <1>1, <1>2 DEF AnswerRight

(* The janitor. *)
LEMMA JanitorStep ==
  ASSUME LimitInv, Cleanup
  PROVE  LimitCore' /\ AnswerRight'
  <1>1. /\ UNCHANGED <<clock, site, zset, zexpiry, script, last, admitted, irregular>>
        /\ Backend = "memory" /\ Backend' = "memory"
        /\ windows' = [k \in LimitKeys |->
                         IF clock > windows[k].expiresAt THEN NewWindow ELSE windows[k]]
    BY DEF Cleanup, Backend
  <1>2. ScriptInv' /\ RedisInv' /\ AnswerRight'
    BY <1>1 DEF LimitInv, ScriptInv, RedisInv, AnswerRight
  <1>3. MemoryInv'
    <2> SUFFICES ASSUME NEW k \in LimitKeys
                 PROVE  Limited(admitted[k]) /\ Remembers(windows'[k], admitted[k], clock)
      BY <1>1 DEF MemoryInv
    <2>1. Limited(admitted[k]) /\ Remembers(windows[k], admitted[k], clock)
      BY <1>1, ZenonT(30) DEF LimitInv, MemoryInv
    <2>2. admitted[k] \in SUBSET Admissions /\ clock \in 0..MaxTime /\ windows[k].expiresAt \in Int
      BY LimitInputs DEF LimitInv, LimitTypeOK
    <2> QED BY <1>1, <2>1, <2>2, TimeRemembers
  <1> QED BY <1>2, <1>3 DEF LimitCore

(* Time passes. *)
LEMMA LimitTickStep ==
  ASSUME LimitInv, LimitTick
  PROVE  LimitCore' /\ AnswerRight'
  <1>1. /\ UNCHANGED <<site, windows, zset, zexpiry, script, last, admitted, irregular>>
        /\ Backend' = Backend /\ clock' = clock + 1 /\ clock \in 0..MaxTime /\ clock \in Int
        /\ Window \in Nat /\ MaxTime \in Nat
    BY LimitInputs DEF LimitTick, Backend, LimitInv, LimitTypeOK
  <1>2. AnswerRight'
    BY <1>1 DEF LimitInv, AnswerRight
  <1>3. ScriptInv'
    <2>1. \A r \in Hits : script[r] # NoCall => script[r][2] \in 0..MaxTime
      BY DEF LimitInv, LimitTypeOK
    <2> QED BY <1>1, <2>1 DEF LimitInv, ScriptInv
  <1>4. MemoryInv'
    <2> SUFFICES ASSUME Backend = "memory", NEW k \in LimitKeys
                 PROVE  Limited(admitted[k]) /\ Remembers(windows[k], admitted[k], clock + 1)
      BY <1>1 DEF MemoryInv
    <2>1. Limited(admitted[k]) /\ Remembers(windows[k], admitted[k], clock)
      BY ZenonT(30) DEF LimitInv, MemoryInv
    <2>2. admitted[k] \in SUBSET Admissions /\ windows[k].expiresAt \in Int
      BY LimitInputs DEF LimitInv, LimitTypeOK
    <2> QED BY <1>1, <2>1, <2>2, TimeRemembers
  <1>5. RedisInv'
    <2> SUFFICES ASSUME Backend = "redis", NEW k \in LimitKeys PROVE KeyInv(k)'
      BY <1>1 DEF RedisInv
    <2>1. KeyInv(k)
      BY ZenonT(30) DEF LimitInv, RedisInv
    <2>2. /\ \A m \in zset[k] : m \in Int
          /\ \A a \in admitted[k] : a[1] \in Int
      <3>1. zset[k] \in SUBSET (0..MaxTime) /\ admitted[k] \in SUBSET Admissions
        BY DEF LimitInv, LimitTypeOK
      <3>2. \A a \in admitted[k] : a[1] \in 0..MaxTime
        BY <3>1, AdmissionsFinite
      <3> QED BY <3>1, <3>2
    <2>3. ExpireInTime(zset[k], zexpiry[k], clock) => ExpireInTime(zset[k], zexpiry[k], clock + 1)
      BY <1>1, <2>2 DEF ExpireInTime
    <2>4. SeesAll(zset[k], admitted[k], clock) => SeesAll(zset[k], admitted[k], clock + 1)
      BY <1>1, <2>2 DEF SeesAll
    <2> QED BY <1>1, <2>1, <2>3, <2>4, ZenonT(30) DEF KeyInv
  <1> QED BY <1>2, <1>3, <1>4, <1>5 DEF LimitCore

-----------------------------------------------------------------------------
(* LimitInv holds in every state of the limiter.                           *)
THEOREM LimitInvariant == LimitSpec => []LimitInv
  <1>1. LimitInit => LimitInv
    <2> SUFFICES ASSUME LimitInit PROVE LimitInv
      OBVIOUS
    <2>0. /\ clock = 0 /\ 0 \in 0..MaxTime /\ 0 \in 0..(MaxTime + Window) /\ MaxHits \in Nat
      BY LimitInputs DEF LimitInit
    <2>1. LimitTypeOK
      BY <2>0 DEF LimitInit, LimitTypeOK, NewWindow
    <2>2. Limited({})
      <3>1. Cardinality({}) = 0
        BY FS_EmptySet, ZenonT(30)
      <3>2. \A t : {a \in {} : t - Window < a[1] /\ a[1] <= t} = {}
        OBVIOUS
      <3> HIDE DEF LimitInit
      <3> QED BY <2>0, <3>1, <3>2 DEF Limited
    <2>3. Remembers(NewWindow, {}, 0) /\ ExpireInTime({}, NoCall, 0) /\ Stamped({}, {})
          /\ SeesAll({}, {}, 0)
      BY DEF Remembers, NewWindow, ExpireInTime, Stamped, SeesAll
    <2>4. MemoryInv
      BY <2>2, <2>3 DEF LimitInit, MemoryInv
    <2>5. ScriptInv /\ AnswerRight
      BY DEF LimitInit, ScriptInv, AnswerRight
    <2>6. RedisInv
      BY <2>2, <2>3 DEF LimitInit, RedisInv, KeyInv
    <2> QED BY <2>1, <2>4, <2>5, <2>6 DEF LimitInv
  <1>2. LimitInv /\ [LimitNext]_limitVars => LimitInv'
    <2> SUFFICES ASSUME LimitInv, [LimitNext]_limitVars PROVE LimitInv'
      OBVIOUS
    <2>1. LimitTypeOK'
      BY LimitTypeStep DEF LimitInv
    <2>2. LimitCore' /\ AnswerRight'
      <3>1. CASE LimitNext
        BY <3>1, MemoryAllowStep, NoOpAllowStep, RedisExpireStep, RedisCallStep, ScriptStep,
           ScriptErrorStep, JanitorStep, LimitTickStep, ZenonT(30) DEF LimitNext
      <3>2. CASE UNCHANGED limitVars
        BY <3>2 DEF limitVars, LimitInv, LimitCore, MemoryInv, ScriptInv, RedisInv, KeyInv,
           AnswerRight, Backend
      <3> QED BY <3>1, <3>2
    <2> QED BY <2>1, <2>2 DEF LimitInv, LimitCore
  <1> QED BY <1>1, <1>2, PTL DEF LimitSpec

(* The limiter's contract, for any limit, window, keys and requests: in    *)
(* memory never more than MaxHits requests of a key in any stretch of the  *)
(* window's length; in Redis the same for every key whose scripts ran in   *)
(* the order of their stamps; a refusal only when MaxHits others were      *)
(* passed; and nothing uncounted by a limiter that fails closed and has a  *)
(* backend that counts.                                                    *)
THEOREM LimiterIsExact == LimitSpec => []LimitExact
  <1>1. LimitInv => LimitExact
    <2> SUFFICES ASSUME LimitInv PROVE LimitExact
      OBVIOUS
    <2>1. Backend = "memory" => \A k \in LimitKeys : WithinLimit(k)
      BY ZenonT(30) DEF LimitInv, MemoryInv, Limited, WithinLimit, InWindow
    <2>2. Backend = "redis" => \A k \in LimitKeys \ irregular : WithinLimit(k)
      BY ZenonT(30) DEF LimitInv, RedisInv, KeyInv, Limited, WithinLimit, InWindow
    <2> QED BY <2>1, <2>2, ZenonT(30) DEF LimitInv, AnswerRight, LimitExact, After
  <1> QED BY <1>1, LimitInvariant, PTL

=============================================================================

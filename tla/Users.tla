------------------------------- MODULE Users -------------------------------
(***************************************************************************)
(* The user module: the statements of the users table (repository/sqlc),   *)
(* the repository over them, the use case with the transaction of Create,  *)
(* and the decorator that writes the audit trail around every change.      *)
(*                                                                         *)
(* PostgreSQL runs at READ COMMITTED: a statement sees what is committed   *)
(* when it starts, and one that needs an e-mail another transaction has    *)
(* inserted but not committed waits for that transaction.  A call that     *)
(* creates a user gives its own name to the row, as the primary key is     *)
(* fresh (uuidv7).                                                         *)
(***************************************************************************)
EXTENDS Naturals, FiniteSets

CONSTANTS
  Accounts,   \* the rows of the table at the start
  Calls,      \* requests, each with one call of the use case
  Emails,     \* e-mail addresses
  NoRow,      \* there is no such row
  Unset       \* a field the request leaves empty

VARIABLES
  rows,       \* rows[i]: the committed row i, or NoRow
  pending,    \* pending[c]: the row the open transaction of c has inserted, or NoRow
  call,       \* call[c]: the operation, its arguments, where it is, and its result
  audit,      \* the calls with an entry in audit_logs
  wrote,      \* history: the calls that changed a committed row
  untrue      \* history: the calls whose entry was written and that had changed nothing

userVars == <<rows, pending, call, audit, wrote, untrue>>

UserIds == Accounts \cup Calls
Passwords == {"initial"} \cup Calls
Row == [email: Emails, active: BOOLEAN, pw: Passwords]

ASSUME UserInputs == NoRow \notin Row /\ Calls \cap Accounts = {}

UserOps == {"create", "update", "password", "delete", "activate", "deactivate"}
UserPcs == {"idle", "check", "insert", "commit", "rollback", "old", "read", "write", "revoke",
            "log", "done"}
UserResults == {"none", "ok", "conflict", "notfound", "denied", "error", "uncertain"}

UserTypeOK ==
  /\ rows \in [UserIds -> Row \cup {NoRow}]
  /\ pending \in [Calls -> Row \cup {NoRow}]
  /\ call \in [Calls -> [op: UserOps, pc: UserPcs, id: UserIds, email: Emails \cup {Unset},
                         pw: Passwords, old: Row \cup {NoRow}, res: UserResults]]
  /\ audit \subseteq Calls /\ wrote \subseteq Calls /\ untrue \subseteq Calls

(***************************************************************************)
(* The statements of user.sql.go.                                          *)
(***************************************************************************)
CreateUser(e, c) == [email |-> e, active |-> TRUE, pw |-> c]
UpdateUser(r, e) == [email |-> IF e = Unset THEN r.email ELSE e, active |-> r.active, pw |-> r.pw]
ActivateUser(r) == [email |-> r.email, active |-> TRUE, pw |-> r.pw]
DeactivateUser(r) == [email |-> r.email, active |-> FALSE, pw |-> r.pw]
DeleteUser(r) == [email |-> r.email, active |-> FALSE, pw |-> r.pw]
UpdatePasswordRow(r, c) == [email |-> r.email, active |-> r.active,
                            pw |-> IF r.active THEN c ELSE r.pw]
UserExistsByEmail(e) == \E i \in UserIds : rows[i] # NoRow /\ rows[i].email = e /\ rows[i].active

(* Faulty variant: the index leaves the soft-deleted rows out. *)
TakenActive(e, i) == \E j \in UserIds \ {i} : /\ rows[j] # NoRow
                                             /\ rows[j].email = e /\ rows[j].active

(* The UNIQUE index on email: all rows, the inactive ones too. *)
Taken(e, i) == \E j \in UserIds \ {i} : rows[j] # NoRow /\ rows[j].email = e

(* The index entry of a row that is not committed yet: the statement waits. *)
Waits(e, c) == \E d \in Calls \ {c} : pending[d] # NoRow /\ pending[d].email = e

(***************************************************************************)
(* A request arrives: the handler has bound and validated its body.        *)
(***************************************************************************)
UserInit ==
  /\ rows \in { [i \in UserIds |-> IF i \in Accounts THEN f[i] ELSE NoRow] :
                f \in { g \in [Accounts -> [email: Emails, active: BOOLEAN, pw: {"initial"}]] :
                        \A i, j \in Accounts : i # j => g[i].email # g[j].email } }
  /\ pending = [c \in Calls |-> NoRow]
  /\ call = [c \in Calls |-> [op |-> "create", pc |-> "idle", id |-> c, email |-> Unset,
                              pw |-> "initial", old |-> NoRow, res |-> "none"]]
  /\ audit = {} /\ wrote = {} /\ untrue = {}

Goto(c, pc) == call' = [call EXCEPT ![c].pc = pc]
Leave(c, pc, res) == call' = [call EXCEPT ![c].pc = pc, ![c].res = res]
Result(c, res) == Leave(c, "done", res)

Arrive(c, op, pc, i, e, pw) ==
  call' = [call EXCEPT ![c] = [op |-> op, pc |-> pc, id |-> i, email |-> e, pw |-> pw,
                               old |-> NoRow, res |-> "none"]]

CreateHandler(c) ==
  /\ call[c].pc = "idle"
  /\ \E e \in Emails : Arrive(c, "create", "check", c, e, "initial")
  /\ UNCHANGED <<rows, pending, audit, wrote, untrue>>

UpdateHandler(c) ==
  /\ call[c].pc = "idle"
  /\ \E i \in UserIds \ {c}, e \in Emails \cup {Unset} :
       Arrive(c, "update", "old", i, e, "initial")
  /\ UNCHANGED <<rows, pending, audit, wrote, untrue>>

DeleteHandler(c) ==
  /\ call[c].pc = "idle"
  /\ \E i \in UserIds \ {c} : Arrive(c, "delete", "old", i, Unset, "initial")
  /\ UNCHANGED <<rows, pending, audit, wrote, untrue>>

(* Activate and Deactivate. *)
StateHandler(c) ==
  /\ call[c].pc = "idle"
  /\ \E i \in UserIds \ {c}, op \in {"activate", "deactivate"} :
       Arrive(c, op, "old", i, Unset, "initial")
  /\ UNCHANGED <<rows, pending, audit, wrote, untrue>>

PasswordHandler(c) ==
  /\ call[c].pc = "idle"
  /\ \E i \in UserIds \ {c}, pw \in Passwords \ {c} :
       Arrive(c, "password", "read", i, Unset, pw)
  /\ UNCHANGED <<rows, pending, audit, wrote, untrue>>

(***************************************************************************)
(* Create: the check and the INSERT in one transaction.                    *)
(***************************************************************************)
ExistsByEmail(c) ==
  /\ call[c].pc = "check"
  /\ IF UserExistsByEmail(call[c].email)
     THEN Leave(c, "rollback", "conflict")
     ELSE Goto(c, "insert")
  /\ UNCHANGED <<rows, pending, audit, wrote, untrue>>

(* The error of the INSERT may hide a row that was inserted: its answer    *)
(* was lost or the context was cancelled meanwhile.                        *)
RepoCreate(c) ==
  /\ call[c].pc = "insert"
  /\ ~Waits(call[c].email, c)
  /\ IF Taken(call[c].email, c)
     THEN /\ Leave(c, "rollback", "conflict")
          /\ UNCHANGED pending
     ELSE /\ pending' = [pending EXCEPT ![c] = CreateUser(call[c].email, c)]
          /\ \/ Goto(c, "commit")
             \/ Leave(c, "rollback", "error")
  /\ UNCHANGED <<rows, audit, wrote, untrue>>

(* WithTx, the function returned nil.  When Commit fails the server may    *)
(* have committed nevertheless.                                            *)
Commit(c) ==
  /\ call[c].pc = "commit"
  /\ \E applied, answered \in BOOLEAN :
       /\ answered => applied
       /\ rows' = IF applied THEN [rows EXCEPT ![c] = pending[c]] ELSE rows
       /\ wrote' = IF applied THEN wrote \cup {c} ELSE wrote
       /\ IF answered THEN Goto(c, "log") ELSE Result(c, "uncertain")
  /\ pending' = [pending EXCEPT ![c] = NoRow]
  /\ UNCHANGED <<audit, untrue>>

(* Faulty variant: the rollback runs under the cancelled context of the    *)
(* request and never reaches the server.                                   *)
RollbackCancelled(c) ==
  /\ call[c].pc = "rollback"
  /\ Goto(c, "done")
  /\ UNCHANGED <<rows, pending, audit, wrote, untrue>>

(* WithTx, the function returned an error or panicked: the rollback has a  *)
(* context of its own.                                                     *)
Rollback(c) ==
  /\ call[c].pc = "rollback"
  /\ pending' = [pending EXCEPT ![c] = NoRow]
  /\ Goto(c, "done")
  /\ UNCHANGED <<rows, audit, wrote, untrue>>

(***************************************************************************)
(* The other calls: what the decorator reads first, what the use case      *)
(* reads, and the one statement that writes.                               *)
(***************************************************************************)
Target(c) == rows[call[c].id]

GetByID(c) ==
  /\ call[c].pc = "old"
  /\ IF Target(c) = NoRow
     THEN Result(c, "notfound")
     ELSE call' = [call EXCEPT ![c].old = Target(c),
                     ![c].pc = IF call[c].op \in {"update", "delete"} THEN "write" ELSE "read"]
  /\ UNCHANGED <<rows, pending, audit, wrote, untrue>>

(* The current password is verified against the row read here. *)
ChangePassword(c) ==
  /\ call[c].pc = "read" /\ call[c].op = "password"
  /\ CASE Target(c) = NoRow -> Result(c, "notfound")
       [] Target(c) # NoRow -> IF Target(c).pw = call[c].pw
                               THEN Goto(c, "write") ELSE Result(c, "denied")
  /\ UNCHANGED <<rows, pending, audit, wrote, untrue>>

(* Activate and Deactivate return early when there is nothing to do. *)
Activate(c) ==
  /\ call[c].pc = "read" /\ call[c].op = "activate"
  /\ Goto(c, IF Target(c).active THEN "log" ELSE "write")
  /\ UNCHANGED <<rows, pending, audit, wrote, untrue>>

Deactivate(c) ==
  /\ call[c].pc = "read" /\ call[c].op = "deactivate"
  /\ Goto(c, IF Target(c).active THEN "write" ELSE "log")
  /\ UNCHANGED <<rows, pending, audit, wrote, untrue>>

(* A statement of the repository that makes r of the row.  The error it    *)
(* returns may hide that it was applied.                                   *)
StoreRow(c, r, next) ==
  /\ rows' = [rows EXCEPT ![call[c].id] = r]
  /\ wrote' = IF r = Target(c) THEN wrote ELSE wrote \cup {c}
  /\ Goto(c, next) \/ Result(c, "uncertain")

RepoUpdate(c) ==
  LET r == UpdateUser(Target(c), call[c].email) IN
  /\ call[c].pc = "write" /\ call[c].op = "update"
  /\ ~Waits(r.email, c)
  /\ IF Taken(r.email, call[c].id)
     THEN Result(c, "conflict") /\ UNCHANGED <<rows, wrote>>
     ELSE StoreRow(c, r, "log")
  /\ UNCHANGED <<pending, audit, untrue>>

RepoUpdatePassword(c) ==
  /\ call[c].pc = "write" /\ call[c].op = "password"
  /\ StoreRow(c, UpdatePasswordRow(Target(c), c), "revoke")
  /\ UNCHANGED <<pending, audit, untrue>>

RepoDelete(c) ==
  /\ call[c].pc = "write" /\ call[c].op = "delete"
  /\ StoreRow(c, DeleteUser(Target(c)), "log")
  /\ UNCHANGED <<pending, audit, untrue>>

RepoActivate(c) ==
  /\ call[c].pc = "write" /\ call[c].op = "activate"
  /\ StoreRow(c, ActivateUser(Target(c)), "log")
  /\ UNCHANGED <<pending, audit, untrue>>

RepoDeactivate(c) ==
  /\ call[c].pc = "write" /\ call[c].op = "deactivate"
  /\ StoreRow(c, DeactivateUser(Target(c)), "log")
  /\ UNCHANGED <<pending, audit, untrue>>

(* RevokeAllForUser; the password stays changed when it fails. *)
RevokeSessions(c) ==
  /\ call[c].pc = "revoke"
  /\ Goto(c, "log") \/ Result(c, "error")
  /\ UNCHANGED <<rows, pending, audit, wrote, untrue>>

(* Any statement may fail and leave nothing; Create rolls back. *)
StatementFails(c) ==
  /\ call[c].pc \in {"check", "insert", "old", "read", "write"}
  /\ Leave(c, IF call[c].op = "create" THEN "rollback" ELSE "done", "error")
  /\ UNCHANGED <<rows, pending, audit, wrote, untrue>>

(***************************************************************************)
(* The decorator, after a call that succeeded.                             *)
(***************************************************************************)
(* PostgresAuditor.Log: one INSERT through the pool, outside any           *)
(* transaction; the decorator ignores its error.                           *)
Log(c) ==
  \/ /\ audit' = audit \cup {c}
     /\ untrue' = IF c \in wrote THEN untrue ELSE untrue \cup {c}
  \/ UNCHANGED <<audit, untrue>>

Answered(c, op) == call[c].pc = "log" /\ call[c].op = op /\ Result(c, "ok")

AuditCreate(c) == Answered(c, "create") /\ Log(c) /\ UNCHANGED <<rows, pending, wrote>>
AuditUpdate(c) == Answered(c, "update") /\ Log(c) /\ UNCHANGED <<rows, pending, wrote>>
AuditPassword(c) == Answered(c, "password") /\ Log(c) /\ UNCHANGED <<rows, pending, wrote>>
AuditDelete(c) == Answered(c, "delete") /\ Log(c) /\ UNCHANGED <<rows, pending, wrote>>

(* These two go by the state the decorator read before the call. *)
AuditActivate(c) ==
  /\ Answered(c, "activate")
  /\ IF call[c].old.active THEN UNCHANGED <<audit, untrue>> ELSE Log(c)
  /\ UNCHANGED <<rows, pending, wrote>>

AuditDeactivate(c) ==
  /\ Answered(c, "deactivate")
  /\ IF call[c].old.active THEN Log(c) ELSE UNCHANGED <<audit, untrue>>
  /\ UNCHANGED <<rows, pending, wrote>>

UserStep(c) ==
  \/ ExistsByEmail(c) \/ RepoCreate(c) \/ Commit(c) \/ Rollback(c) \/ GetByID(c)
  \/ ChangePassword(c) \/ Activate(c) \/ Deactivate(c) \/ RepoUpdate(c)
  \/ RepoUpdatePassword(c) \/ RepoDelete(c) \/ RepoActivate(c) \/ RepoDeactivate(c)
  \/ RevokeSessions(c) \/ AuditCreate(c) \/ AuditUpdate(c) \/ AuditPassword(c)
  \/ AuditDelete(c) \/ AuditActivate(c) \/ AuditDeactivate(c)

UserNext ==
  \E c \in Calls : \/ CreateHandler(c) \/ UpdateHandler(c) \/ DeleteHandler(c)
                   \/ StateHandler(c) \/ PasswordHandler(c) \/ UserStep(c) \/ StatementFails(c)

UserFairness == \A c \in Calls : WF_userVars(UserStep(c))
UserSpec == UserInit /\ [][UserNext]_userVars /\ UserFairness

(***************************************************************************)
(* Properties.                                                             *)
(***************************************************************************)
(* No two rows share an e-mail, whatever Create and Update calls run at    *)
(* the same time and whether or not the rows are active: the check of      *)
(* Create looks at active rows only, so it is the index that decides.      *)
EmailsUnique ==
  \A i, j \in UserIds : i # j /\ rows[i] # NoRow /\ rows[j] # NoRow
                          => rows[i].email # rows[j].email

(* A Create that reported a conflict or an error of the function left no   *)
(* row: WithTx rolled everything back.                                     *)
NothingOfAFailedCreate ==
  \A c \in Calls : call[c].op = "create" /\ call[c].res \in {"conflict", "error"}
                     => rows[c] = NoRow

(* The trail never speaks of a user that does not exist: a CREATE entry is *)
(* written after the transaction has committed.                            *)
AuditedCreateExists ==
  \A c \in audit : call[c].op = "create" => rows[c] # NoRow

(* Every call ends: no transaction is left open for the calls that wait    *)
(* for its e-mail.                                                         *)
CallsEnd ==
  \A c \in Calls : []<>(call[c].pc \in {"idle", "done"})

(* "Only audit when the state actually changed": an entry of Activate or   *)
(* Deactivate stands for a change of is_active by that very call.          *)
OnlyChangesAudited ==
  \A c \in untrue : call[c].op \notin {"activate", "deactivate"}
=============================================================================

----------------------------- MODULE Authorizer -----------------------------
(***************************************************************************)
(* internal/adapter/casbin/casbin.go and the role use case above it: the   *)
(* rules in the database, their copy in the enforcer's memory, and the     *)
(* decisions remembered in the cache (DecisionStore).  Enforce calls,      *)
(* policy mutations and the backstop reload run concurrently.              *)
(*                                                                         *)
(* The enforcer is casbin.NewEnforcer, which takes no lock.  A call that   *)
(* overlaps a change of the memory, or a reload that puts equal rules in   *)
(* its place, may therefore see any of the rules there ever were: overlap  *)
(* records that it did.                                                    *)
(***************************************************************************)
EXTENDS DecisionStore

CONSTANTS
  Roles,          \* PredefinedRoles
  Star,            \* the permission "*"
  DirectSubjects, \* what the {id} of /users/{id}/permissions may name
  Grantable,      \* permissions that mutations grant and revoke
  Seed,           \* rules of the migrations
  Reqs,           \* Enforce calls in progress at once
  Admins,         \* policy mutations in progress at once
  MaxChanges,     \* bound: mutations, those of other instances included
  MaxOutside      \* bound: mutations of other instances

RoleRules == Users \X Roles
GrantRules == (DirectSubjects \cup Roles) \X Grantable
Rules == RoleRules \cup GrantRules

ASSUME AuthorizerInputs ==
  /\ DirectSubjects \subseteq Users \cup Roles
  /\ Grantable \subseteq Perms \cup {Star}
  /\ Seed \subseteq Rules
  /\ Users \cap Roles = {} /\ Roles \cap Grantable = {} /\ Reqs \cap Admins = {}
  /\ {MaxChanges, MaxOutside} \subseteq Nat

VARIABLES
  db,          \* casbin_rules
  mem,         \* the enforcer's rules
  pc,          \* where each call stands
  key,         \* key[r]: what an Enforce call asks
  answer,      \* answer[r]: what it evaluated
  change,      \* change[a]: the mutation, <<"add" or "remove", rule, who>>
  base,        \* base[a]: the rules a mutation started from
  overlap,     \* history: the memory changed under this call
  tainted,     \* history: keys whose entry may be wrong for a known reason
  held,        \* history: rules that were in the database at some time
  reload,      \* where LoadPolicy stands
  snap,        \* the rules LoadPolicy has read
  closed,      \* Close was called
  changes, outside

vars == <<store, db, mem, pc, key, answer, change, base, overlap, tainted, held,
          reload, snap, closed, changes, outside>>

(* Whose method makes the change: it decides what is invalidated. *)
Ops == {"add", "remove"}
Mutations ==
  (Ops \X RoleRules \X {"user"})                            \* Add/RemoveRoleForUser
    \cup (Ops \X (Roles \X Grantable) \X {"role"})          \* Add/RemovePermissionForRole
    \cup (Ops \X (DirectSubjects \X Grantable) \X {"user"}) \* Add/RemovePermissionForUser

TypeOK ==
  /\ StoreType
  /\ db \in SUBSET Rules /\ mem \in SUBSET Rules /\ held \in SUBSET Rules
  /\ pc \in [Reqs \cup Admins -> {"idle", "eval", "put", "persist", "apply", "invalidate"}]
  /\ key \in [Reqs -> Keys \cup {None}] /\ answer \in [Reqs -> BOOLEAN \cup {None}]
  /\ change \in [Admins -> Mutations \cup {None}] /\ base \in [Admins -> SUBSET Rules]
  /\ overlap \in [Reqs \cup Admins -> BOOLEAN]
  /\ tainted \in SUBSET Keys
  /\ reload \in {"idle", "install", "flush"} /\ snap \in SUBSET Rules
  /\ closed \in BOOLEAN
  /\ changes \in 0..MaxChanges /\ outside \in 0..MaxOutside

(* The matcher of defaultModel. *)
Allowed(P, k) ==
  \E s \in {k[1]} \cup {r \in Roles : <<k[1], r>> \in P} :
    \/ <<s, k[2]>> \in P
    \/ <<s, Star>> \in P

(* Faulty variant: the rule's fields trade places. *)
ChangedSwapped(P, c) == IF c[1] = "add" THEN P \cup {<<c[2][2], c[2][1]>>} ELSE P \ {c[2]}

Changed(P, c) == IF c[1] = "add" THEN P \cup {c[2]} ELSE P \ {c[2]}

(* Faulty variant: a role's change is treated as a user's. *)
ScopeOfSubject(c) == {k \in Keys : k[1] = c[2][1]}

(* What a successful mutation forgets. *)
Scope(c) == IF c[3] = "role" THEN Keys ELSE OfSub(c[2][1])

(* The {id} of /users/{id}/permissions is not looked up.  When it names a   *)
(* role, the users' method forgets the entries of that name only, while    *)
(* the decisions for the users who hold the role change as well.           *)
Unreached(c) == {k \in Keys : c[3] = "user" /\ <<k[1], c[2][1]>> \in mem}

Init ==
  /\ StoreInit
  /\ db = Seed /\ mem = Seed /\ held = Seed
  /\ pc = [p \in Reqs \cup Admins |-> "idle"]
  /\ key = [r \in Reqs |-> None] /\ answer = [r \in Reqs |-> None]
  /\ change = [a \in Admins |-> None] /\ base = [a \in Admins |-> {}]
  /\ overlap = [p \in Reqs \cup Admins |-> FALSE]
  /\ tainted = {}
  /\ reload = "idle" /\ snap = {}
  /\ closed = FALSE
  /\ changes = 0 /\ outside = 0

Goto(p, where) == pc' = [pc EXCEPT ![p] = where]

(* The memory becomes P while the calls in C are under way. *)
MemBecomes(P, C) ==
  /\ mem' = P
  /\ overlap' = [p \in Reqs \cup Admins |->
                   overlap[p] \/ (p \in C /\ pc[p] \in {"eval", "put", "apply"})]

-----------------------------------------------------------------------------
(* Enforce: a hit is answered from the store.  A miss goes to the enforcer. *)
Miss(r, k) ==
  /\ pc[r] = "idle" /\ store[k] = None
  /\ Goto(r, "eval")
  /\ key' = [key EXCEPT ![r] = k]
  /\ UNCHANGED <<store, db, mem, answer, change, base, overlap, tainted, held, reload, snap,
                 closed, changes, outside>>

(* Another goroutine has been, or is, writing what this one reads. *)
Racing(r) ==
  \/ overlap[r]
  \/ reload = "install"
  \/ \E a \in Admins : pc[a] = "apply"

(* enforcer.Enforce *)
Evaluate(r) ==
  /\ pc[r] = "eval"
  /\ Goto(r, "put")
  /\ \E v \in BOOLEAN :
       /\ ~Racing(r) => v = Allowed(mem, key[r])
       /\ v => Allowed(held, key[r])
       /\ answer' = [answer EXCEPT ![r] = v]
  /\ overlap' = [overlap EXCEPT ![r] = Racing(r)]
  /\ UNCHANGED <<store, db, mem, key, change, base, tainted, held, reload, snap,
                 closed, changes, outside>>

EnforceDone(r) ==
  /\ Goto(r, "idle")
  /\ key' = [key EXCEPT ![r] = None]
  /\ answer' = [answer EXCEPT ![r] = None]
  /\ overlap' = [overlap EXCEPT ![r] = FALSE]
  /\ UNCHANGED <<db, mem, change, base, held, reload, snap, closed, changes, outside>>

(* err == nil: the decision is cached. *)
CachePut(r) ==
  /\ pc[r] = "put"
  /\ Put(key[r], answer[r])
  /\ tainted' = IF overlap[r] THEN tainted \cup {key[r]} ELSE tainted \ {key[r]}
  /\ EnforceDone(r)

(* Errors are never cached. *)
EnforceError(r) ==
  /\ pc[r] = "eval"
  /\ EnforceDone(r)
  /\ UNCHANGED <<store, tainted>>

-----------------------------------------------------------------------------
(* The role use case: roles are assigned to who lacks and removed from who *)
(* has them; permissions are not looked up first.                          *)
Begin(a, c) ==
  /\ pc[a] = "idle" /\ changes + outside < MaxChanges
  /\ c[2] \in RoleRules => (c[1] = "add" <=> c[2] \notin mem)
  /\ changes' = changes + 1
  /\ Goto(a, "persist")
  /\ change' = [change EXCEPT ![a] = c]
  /\ UNCHANGED <<store, db, mem, key, answer, base, overlap, tainted, held, reload, snap,
                 closed, outside>>

(* A rule that is in memory is not added again; the call still succeeds. *)
Present(a) ==
  /\ pc[a] = "persist" /\ change[a][1] = "add" /\ change[a][2] \in mem
  /\ Goto(a, "invalidate")
  /\ UNCHANGED <<store, db, mem, key, answer, change, base, overlap, tainted, held,
                 reload, snap, closed, changes, outside>>

(* The SQL adapter stores the rule before the memory changes.  The INSERT  *)
(* of a row that another instance has stored meets the unique index.       *)
Persist(a) ==
  /\ pc[a] = "persist" /\ ~closed
  /\ change[a][1] = "add" => change[a][2] \notin mem \cup db
  /\ db' = Changed(db, change[a])
  /\ held' = held \cup db'
  /\ Goto(a, "apply")
  /\ base' = [base EXCEPT ![a] = mem]
  /\ UNCHANGED <<store, mem, key, answer, change, overlap, tainted, reload, snap,
                 closed, changes, outside>>

MutationDone(a) ==
  /\ Goto(a, "idle")
  /\ change' = [change EXCEPT ![a] = None]
  /\ base' = [base EXCEPT ![a] = {}]
  /\ overlap' = [overlap EXCEPT ![a] = FALSE]
  /\ UNCHANGED <<key, answer, reload, snap, closed, changes, outside>>

(* Faulty variant: the memory changes although the database refused. *)
PersistErrorIgnored(a) ==
  /\ pc[a] = "persist" /\ db' = db /\ held' = held
  /\ mem' = Changed(mem, change[a])
  /\ MutationDone(a)
  /\ UNCHANGED <<store, tainted>>

(* The statement fails, or its answer is lost after it took effect: the     *)
(* mutation returns the error and invalidates nothing.                     *)
PersistError(a) ==
  /\ pc[a] = "persist"
  /\ change[a][1] = "add" => change[a][2] \notin mem
  /\ db' \in {db, IF closed THEN db ELSE Changed(db, change[a])}
  /\ held' = held \cup db'
  /\ MutationDone(a)
  /\ UNCHANGED <<store, mem, tainted>>

(* model.AddPolicy or model.RemovePolicy.  Two writers at once may lose     *)
(* either change, so that an entry outside either's scope may be wrong.     *)
Apply(a) ==
  /\ pc[a] = "apply"
  /\ \E P \in {Changed(mem, change[a])}
                \cup (IF overlap[a] THEN {mem, Changed(base[a], change[a])} ELSE {}) :
       MemBecomes(P, (Reqs \cup Admins) \ {a})
  /\ tainted' = IF overlap[a] THEN Keys ELSE tainted \cup Unreached(change[a])
  /\ Goto(a, "invalidate")
  /\ UNCHANGED <<store, db, key, answer, change, base, held, reload, snap,
                 closed, changes, outside>>

(* invalidateSub or flush *)
Invalidate(a) ==
  /\ pc[a] = "invalidate"
  /\ Forget(Scope(change[a]))
  /\ tainted' = tainted \ Scope(change[a])
  /\ MutationDone(a)
  /\ UNCHANGED <<db, mem, held>>

-----------------------------------------------------------------------------
(* LoadPolicy on the backstop tick: read, replace the model, flush.  An     *)
(* error while reading leaves everything as it is.                         *)
ReloadRead ==
  /\ reload = "idle" /\ ~closed
  /\ snap' = db
  /\ reload' = "install"
  /\ UNCHANGED <<store, db, mem, pc, key, answer, change, base, overlap, tainted, held,
                 closed, changes, outside>>

(* A mutation under way may still write to the model that was replaced, and *)
(* an evaluation may meet role links that are being built.                 *)
ReloadInstall ==
  /\ reload = "install"
  /\ MemBecomes(snap, Reqs \cup Admins)
  /\ reload' = "flush" /\ snap' = {}
  /\ UNCHANGED <<store, db, pc, key, answer, change, base, tainted, held,
                 closed, changes, outside>>

(* Faulty variant: the decisions survive the reload. *)
ReloadWithoutFlush ==
  /\ reload = "flush" /\ reload' = "idle"
  /\ UNCHANGED <<store, db, mem, pc, key, answer, change, base, overlap, tainted, held,
                 snap, closed, changes, outside>>

ReloadFlush ==
  /\ reload = "flush"
  /\ Forget(Keys)
  /\ tainted' = {}
  /\ reload' = "idle"
  /\ UNCHANGED <<db, mem, pc, key, answer, change, base, overlap, held, snap,
                 closed, changes, outside>>

-----------------------------------------------------------------------------
(* Another instance changes the database.  No watcher is configured. *)
Outside(c) ==
  /\ outside < MaxOutside /\ changes + outside < MaxChanges
  /\ outside' = outside + 1
  /\ db' = Changed(db, c) /\ db' # db
  /\ held' = held \cup db'
  /\ UNCHANGED <<store, mem, pc, key, answer, change, base, overlap, tainted,
                 reload, snap, closed, changes>>

(* Close ends the ticker and the database handle; Enforce goes on. *)
Close ==
  /\ ~closed
  /\ closed' = TRUE
  /\ UNCHANGED <<store, db, mem, pc, key, answer, change, base, overlap, tainted, held,
                 reload, snap, changes, outside>>

(* The process ends at any point; NewAdapter loads the policies. *)
Restart ==
  /\ mem' = db /\ store' = [k \in Keys |-> None]
  /\ pc' = [p \in Reqs \cup Admins |-> "idle"]
  /\ key' = [r \in Reqs |-> None] /\ answer' = [r \in Reqs |-> None]
  /\ change' = [a \in Admins |-> None] /\ base' = [a \in Admins |-> {}]
  /\ overlap' = [p \in Reqs \cup Admins |-> FALSE]
  /\ tainted' = {} /\ reload' = "idle" /\ snap' = {} /\ closed' = FALSE
  /\ UNCHANGED <<db, held, changes, outside>>

EnforceStep(r) == Evaluate(r) \/ CachePut(r) \/ EnforceError(r)
MutationStep(a) == Present(a) \/ Persist(a) \/ PersistError(a) \/ Apply(a) \/ Invalidate(a)
ReloadStep == ReloadRead \/ ReloadInstall \/ ReloadFlush

Next ==
  \/ \E r \in Reqs : (\E k \in Keys : Miss(r, k)) \/ EnforceStep(r)
  \/ \E a \in Admins : (\E c \in Mutations : Begin(a, c)) \/ MutationStep(a)
  \/ ReloadStep
  \/ \E c \in Mutations : Outside(c)
  \/ Close
  \/ Restart

Spec == Init /\ [][Next]_vars

(* Goroutines are scheduled, calls return, the ticker ticks and, while the  *)
(* handle is open, some read of the database succeeds.                     *)
Fairness ==
  /\ \A r \in Reqs : WF_vars(EnforceStep(r))
  /\ \A a \in Admins : WF_vars(MutationStep(a))
  /\ WF_vars(ReloadStep)

FairSpec == Spec /\ Fairness

-----------------------------------------------------------------------------
Fresh(k) == store[k] \in {None, Allowed(mem, k)}

Pending(k) ==
  \/ reload = "flush"
  \/ \E a \in Admins : pc[a] = "invalidate" /\ k \in Scope(change[a])

(* A remembered decision differs from what the rules in memory say in       *)
(* three cases only: the invalidation that covers it is still to come, the *)
(* calls involved overlapped, or the users' method was given a role's name *)
(* and the entry belongs to a user who holds that role.  In particular     *)
(* every other mutation forgets at least the subjects its rule affects.    *)
FreshUnlessRaced == \A k \in Keys : Fresh(k) \/ Pending(k) \/ k \in tainted

(* Memory never holds a rule that the database never held: mutations are   *)
(* stored first and a failed one leaves the memory alone.                  *)
MemoryFromDatabase == mem \subseteq held

(* Once nothing changes the rules any more, memory and database agree for   *)
(* good, whatever races, failed mutations and changes by other instances   *)
(* came before: the backstop reload repairs them.  A remembered decision   *)
(* that is wrong never stays: every later reload forgets it, though an     *)
(* Enforce that overlaps that reload may put another wrong one in its      *)
(* place.                                                                  *)
Converges ==
  /\ <>[](closed \/ mem = db)
  /\ \A k \in Keys : []<>(closed \/ Fresh(k))

(* Violated.  With no mutation and no reload under way every remembered    *)
(* decision is the current one.  An Enforce that evaluated before a        *)
(* mutation stores its decision after the mutation's invalidation.         *)
NoStaleWindow ==
  (reload = "idle" /\ \A a \in Admins : pc[a] = "idle") => \A k \in Keys : Fresh(k)
=============================================================================

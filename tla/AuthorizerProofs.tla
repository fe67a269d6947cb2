-------------------------- MODULE AuthorizerProofs --------------------------
(***************************************************************************)
(* Theorems about Authorizer, for any numbers of users, roles, permissions *)
(* and calls and any cache size.                                           *)
(***************************************************************************)
EXTENDS Authorizer, TLAPS

(* A leaf is left to Zenon first, which is fast where no arithmetic is needed; *)
(* the longer limits are for slow machines.                                    *)
USE ZenonT(2), SMT, ZenonT(20), SMTT(30)

Calls == Reqs \cup Admins

(* TypeOK, and a call past its first step has its arguments. *)
TypeInv ==
  /\ TypeOK
  /\ \A r \in Reqs : pc[r] \in {"idle", "eval", "put"}
  /\ \A r \in Reqs : pc[r] \in {"eval", "put"} => key[r] \in Keys
  /\ \A r \in Reqs : pc[r] = "put" => answer[r] \in BOOLEAN
  /\ \A a \in Admins : pc[a] \in {"idle", "persist", "apply", "invalidate"}
  /\ \A a \in Admins : pc[a] # "idle" => change[a] \in Mutations

(* A mutation names an operation, a rule and whose method it is (the       *)
(* argument triples of the Add and Remove methods).                        *)
LEMMA MutationShape ==
  ASSUME NEW c \in Mutations
  PROVE  /\ c[1] \in Ops /\ c[2] \in Rules /\ c[3] \in {"user", "role"}
         /\ c[2] = <<c[2][1], c[2][2]>>
         /\ c[3] = "user" => c[2][1] \in Users \cup DirectSubjects
  BY DEF Mutations, Ops, Rules, RoleRules, GrantRules

(* Adding or removing a rule leaves a set of rules (AddPolicy, RemovePolicy). *)
LEMMA ChangedType ==
  ASSUME NEW c \in Mutations, NEW P \in SUBSET Rules
  PROVE  Changed(P, c) \in SUBSET Rules
  BY MutationShape DEF Changed

(* put, invalidateSub and flush leave a store of decisions. *)
LEMMA StoreSteps ==
  ASSUME StoreType
  PROVE  /\ \A k \in Keys, v \in BOOLEAN : Put(k, v) => StoreType'
         /\ \A K : Forget(K) => StoreType'
<1>1. ASSUME NEW k \in Keys, NEW v \in BOOLEAN, Put(k, v) PROVE StoreType'
  <2>1. CASE store' = [store EXCEPT ![k] = v]
    BY <2>1 DEF StoreType
  <2>2. CASE \E e \in Stored : store' = [store EXCEPT ![e] = None, ![k] = v]
    BY <2>2 DEF StoreType, Stored
  <2> QED BY <1>1, <2>1, <2>2 DEF Put
<1>2. ASSUME NEW K, Forget(K) PROVE StoreType'
  BY <1>2 DEF Forget, StoreType
<1> QED BY <1>1, <1>2

(* The steps of an Enforce call keep the types. *)
LEMMA EnforceType ==
  ASSUME TypeInv, NEW r \in Reqs, (\E k \in Keys : Miss(r, k)) \/ EnforceStep(r)
  PROVE  TypeInv'
<1> USE DEF TypeInv, TypeOK
<1>1. CASE \E k \in Keys : Miss(r, k)
  BY <1>1, AuthorizerInputs DEF Miss, Goto, StoreType
<1>2. CASE Evaluate(r)
  BY <1>2, AuthorizerInputs DEF Evaluate, Goto, StoreType, Racing
<1>3. CASE CachePut(r)
  <2>1. StoreType' BY <1>3, StoreSteps DEF CachePut
  <2>2. tainted' \in SUBSET Keys BY <1>3 DEF CachePut
  <2> QED BY <1>3, <2>1, <2>2, AuthorizerInputs DEF CachePut, EnforceDone, Goto
<1>4. CASE EnforceError(r)
  BY <1>4, AuthorizerInputs DEF EnforceError, EnforceDone, Goto, StoreType
<1> QED BY <1>1, <1>2, <1>3, <1>4 DEF EnforceStep

(* The steps of a policy mutation keep the types. *)
LEMMA MutationType ==
  ASSUME TypeInv, NEW a \in Admins, (\E c \in Mutations : Begin(a, c)) \/ MutationStep(a)
  PROVE  TypeInv'
<1> USE DEF TypeInv, TypeOK
<1>1. CASE \E c \in Mutations : Begin(a, c)
  BY <1>1, AuthorizerInputs DEF Begin, Goto, StoreType
<1>2. CASE Present(a)
  BY <1>2, AuthorizerInputs DEF Present, Goto, StoreType
<1>3. CASE Persist(a)
  <2>1. db' \in SUBSET Rules /\ held' \in SUBSET Rules BY <1>3, ChangedType DEF Persist
  <2> QED BY <1>3, <2>1, AuthorizerInputs DEF Persist, Goto, StoreType
<1>4. CASE PersistError(a)
  <2>1. db' \in SUBSET Rules /\ held' \in SUBSET Rules BY <1>4, ChangedType DEF PersistError
  <2> QED BY <1>4, <2>1, AuthorizerInputs DEF PersistError, MutationDone, Goto, StoreType
<1>5. CASE Apply(a)
  <2>1. mem' \in SUBSET Rules BY <1>5, ChangedType DEF Apply, MemBecomes
  <2>2. overlap' \in [Reqs \cup Admins -> BOOLEAN]
    BY <1>5 DEF Apply, MemBecomes
  <2>3. tainted' \in SUBSET Keys BY <1>5 DEF Apply, Unreached
  <2> QED BY <1>5, <2>1, <2>2, <2>3, AuthorizerInputs DEF Apply, Goto, StoreType
<1>6. CASE Invalidate(a)
  <2>1. StoreType' BY <1>6, StoreSteps DEF Invalidate
  <2> QED BY <1>6, <2>1, AuthorizerInputs DEF Invalidate, MutationDone, Goto
<1> QED BY <1>1, <1>2, <1>3, <1>4, <1>5, <1>6 DEF MutationStep

(* Reloads, other instances, Close and restarts keep the types. *)
LEMMA OtherType ==
  ASSUME TypeInv, ReloadStep \/ (\E c \in Mutations : Outside(c)) \/ Close \/ Restart
  PROVE  TypeInv'
<1> USE DEF TypeInv, TypeOK
<1>1. CASE ReloadRead
  BY <1>1 DEF ReloadRead, StoreType
<1>2. CASE ReloadInstall
  <2>1. overlap' \in [Reqs \cup Admins -> BOOLEAN] BY <1>2 DEF ReloadInstall, MemBecomes
  <2> QED BY <1>2, <2>1 DEF ReloadInstall, MemBecomes, StoreType
<1>3. CASE ReloadFlush
  <2>1. StoreType' BY <1>3, StoreSteps DEF ReloadFlush
  <2> QED BY <1>3, <2>1 DEF ReloadFlush
<1>4. CASE \E c \in Mutations : Outside(c)
  <2>1. PICK c \in Mutations : Outside(c) BY <1>4
  <2>2. db' \in SUBSET Rules /\ held' \in SUBSET Rules BY <2>1, ChangedType DEF Outside
  <2> QED BY <2>1, <2>2, AuthorizerInputs DEF Outside, StoreType
<1>5. CASE Close
  BY <1>5 DEF Close, StoreType
<1>6. CASE Restart
  <2>1. StoreType' BY <1>6 DEF Restart, StoreType
  <2>2. /\ pc' \in [Calls -> {"idle", "eval", "put", "persist", "apply", "invalidate"}]
        /\ overlap' \in [Calls -> BOOLEAN]
    BY <1>6 DEF Restart, Calls
  <2>3. /\ key' \in [Reqs -> Keys \cup {None}] /\ answer' \in [Reqs -> BOOLEAN \cup {None}]
        /\ change' \in [Admins -> Mutations \cup {None}] /\ base' \in [Admins -> SUBSET Rules]
    BY <1>6 DEF Restart
  <2>4. \A p \in Calls : pc'[p] = "idle" BY <1>6 DEF Restart, Calls
  <2>5. changes' \in 0..MaxChanges /\ outside' \in 0..MaxOutside
    BY <1>6, AuthorizerInputs DEF Restart
  <2>6. /\ tainted' \in SUBSET Keys /\ reload' \in {"idle", "install", "flush"}
        /\ snap' \in SUBSET Rules /\ closed' \in BOOLEAN
        /\ db' \in SUBSET Rules /\ mem' \in SUBSET Rules /\ held' \in SUBSET Rules
    BY <1>6, ZenonT(30) DEF Restart
  <2> QED BY <2>1, <2>2, <2>3, <2>4, <2>5, <2>6 DEF Calls
<1> QED BY <1>1, <1>2, <1>3, <1>4, <1>5, <1>6 DEF ReloadStep

(* Every step keeps the types. *)
LEMMA TypeStep == TypeInv /\ [Next]_vars => TypeInv'
<1> SUFFICES ASSUME TypeInv, [Next]_vars PROVE TypeInv' OBVIOUS
<1>1. CASE Next BY <1>1, EnforceType, MutationType, OtherType DEF Next
<1>2. CASE UNCHANGED vars BY <1>2 DEF vars, TypeInv, TypeOK, StoreType
<1> QED BY <1>1, <1>2

(* The initial state has the types. *)
LEMMA TypeStart == Init => TypeInv
<1> SUFFICES ASSUME Init PROVE TypeInv OBVIOUS
<1>1. StoreType BY DEF Init, StoreInit, StoreType
<1>2. /\ pc \in [Calls -> {"idle", "eval", "put", "persist", "apply", "invalidate"}]
      /\ overlap \in [Calls -> BOOLEAN]
  BY DEF Init, Calls
<1>3. /\ key \in [Reqs -> Keys \cup {None}] /\ answer \in [Reqs -> BOOLEAN \cup {None}]
      /\ change \in [Admins -> Mutations \cup {None}] /\ base \in [Admins -> SUBSET Rules]
  BY DEF Init
<1>4. \A p \in Calls : pc[p] = "idle" BY DEF Init, Calls
<1>5. changes \in 0..MaxChanges /\ outside \in 0..MaxOutside
  BY AuthorizerInputs DEF Init
<1>6. /\ tainted \in SUBSET Keys /\ reload \in {"idle", "install", "flush"}
      /\ snap \in SUBSET Rules /\ closed \in BOOLEAN
      /\ db \in SUBSET Rules /\ mem \in SUBSET Rules /\ held \in SUBSET Rules
  BY AuthorizerInputs, ZenonT(30) DEF Init
<1> QED BY <1>1, <1>2, <1>3, <1>4, <1>5, <1>6 DEF TypeInv, TypeOK, Calls

(* Type correctness of the authorizer's state. *)
THEOREM TypeCorrect == Spec => []TypeOK
<1>1. TypeInv => TypeOK BY DEF TypeInv
<1> QED BY <1>1, TypeStart, TypeStep, PTL DEF Spec

-----------------------------------------------------------------------------
(* An evaluation that nothing overlapped is still right when it is stored. *)
AnswersRight ==
  \A r \in Reqs : pc[r] = "put" /\ ~overlap[r] => answer[r] = Allowed(mem, key[r])

FreshInv == TypeInv /\ FreshUnlessRaced /\ AnswersRight

(* A mutation changes no decision outside the scope it invalidates, unless  *)
(* the users' method names a role that the user of the decision holds (the  *)
(* invalidation matrix of the Add and Remove methods).                     *)
LEMMA ScopeCovers ==
  ASSUME NEW c \in Mutations, NEW k \in Keys, k \notin Scope(c), k \notin Unreached(c)
  PROVE  Allowed(Changed(mem, c), k) = Allowed(mem, k)
<1>1. c[3] = "user" /\ <<k[1], c[2][1]>> \notin mem
  BY MutationShape DEF Scope, Unreached
<1>2. c[2][1] # k[1]
  BY <1>1 DEF Scope, OfSub, Keys
<1>3. \A s, x : s # c[2][1] => (<<s, x>> \in Changed(mem, c) <=> <<s, x>> \in mem)
  <2> SUFFICES ASSUME NEW s, NEW x, s # c[2][1]
               PROVE  <<s, x>> \in Changed(mem, c) <=> <<s, x>> \in mem
    OBVIOUS
  <2>1. <<s, x>> # c[2] OBVIOUS
  <2> QED BY <2>1 DEF Changed
<1> DEFINE subjects(P) == {k[1]} \cup {r \in Roles : <<k[1], r>> \in P}
<1>4. subjects(Changed(mem, c)) = subjects(mem) BY <1>2, <1>3
<1>5. \A s \in subjects(mem) : s # c[2][1] BY <1>1, <1>2
<1>6. \A s \in subjects(mem) : \A x : <<s, x>> \in Changed(mem, c) <=> <<s, x>> \in mem
  BY <1>3, <1>5
<1>7. /\ Allowed(mem, k) <=> \E s \in subjects(mem) :
             <<s, k[2]>> \in mem \/ <<s, Star>> \in mem
      /\ Allowed(Changed(mem, c), k) <=> \E s \in subjects(Changed(mem, c)) :
             <<s, k[2]>> \in Changed(mem, c) \/ <<s, Star>> \in Changed(mem, c)
  BY DEF Allowed
<1>8. Allowed(mem, k) \in BOOLEAN /\ Allowed(Changed(mem, c), k) \in BOOLEAN BY DEF Allowed
<1> HIDE DEF subjects
<1> QED BY <1>4, <1>6, <1>7, <1>8

(* What put does to one entry: it is the new decision, the old one, or gone. *)
LEMMA PutEffect ==
  ASSUME StoreType, NEW q \in Keys, NEW v \in BOOLEAN, Put(q, v), NEW k \in Keys
  PROVE  store'[k] = None \/ (k = q /\ store'[k] = v) \/ (k # q /\ store'[k] = store[k])
<1>1. CASE store' = [store EXCEPT ![q] = v] BY <1>1 DEF StoreType
<1>2. CASE \E e \in Stored : store' = [store EXCEPT ![e] = None, ![q] = v]
  BY <1>2 DEF StoreType, Stored
<1> QED BY <1>1, <1>2 DEF Put

(* The steps of an Enforce call keep remembered decisions fresh or excused. *)
LEMMA EnforceFresh ==
  ASSUME FreshInv, NEW r \in Reqs, (\E k \in Keys : Miss(r, k)) \/ EnforceStep(r)
  PROVE  FreshUnlessRaced' /\ AnswersRight'
<1> USE AuthorizerInputs DEF FreshInv, TypeInv, TypeOK
<1>0. /\ mem' = mem /\ reload' = reload /\ change' = change
      /\ \A a \in Admins : pc'[a] = pc[a]
      /\ \A q \in Reqs \ {r} : pc'[q] = pc[q] /\ overlap'[q] = overlap[q]
                              /\ answer'[q] = answer[q] /\ key'[q] = key[q]
  BY DEF EnforceStep, Miss, Evaluate, CachePut, EnforceError, EnforceDone, Goto
<1>a. \A k \in Keys : Pending(k)' <=> Pending(k) BY <1>0 DEF Pending, Scope
<1>1. pc'[r] = "put" /\ ~overlap'[r] => answer'[r] = Allowed(mem, key'[r])
  BY DEF EnforceStep, Miss, Evaluate, CachePut, EnforceError, EnforceDone, Goto
<1>2. AnswersRight'
  <2> SUFFICES ASSUME NEW q \in Reqs, pc'[q] = "put", ~overlap'[q]
               PROVE  answer'[q] = Allowed(mem, key'[q])
    BY <1>0, ZenonT(30) DEF AnswersRight, Allowed
  <2>1. CASE q = r BY <1>1, <2>1
  <2>2. CASE q # r
    <3>1. answer[q] = Allowed(mem, key[q]) BY <1>0, <2>2 DEF AnswersRight
    <3> QED BY <1>0, <2>2, <3>1
  <2> QED BY <2>1, <2>2
<1>3. FreshUnlessRaced'
  <2> SUFFICES ASSUME NEW k \in Keys PROVE (Fresh(k) \/ Pending(k) \/ k \in tainted)'
    BY DEF FreshUnlessRaced
  <2>1. CASE store' = store /\ tainted' = tainted
    BY <1>0, <1>a, <2>1, ZenonT(30) DEF FreshUnlessRaced, Fresh, Allowed
  <2>2. CASE CachePut(r)
    <3>1. store'[k] = None \/ (k = key[r] /\ store'[k] = answer[r])
            \/ (k # key[r] /\ store'[k] = store[k])
      BY <2>2, PutEffect DEF CachePut
    <3>2. CASE store'[k] = None BY <3>2 DEF Fresh
    <3>3. CASE k = key[r] /\ store'[k] = answer[r]
      BY <1>0, <2>2, <3>3, ZenonT(30) DEF CachePut, AnswersRight, Fresh, Allowed
    <3>4. CASE k # key[r] /\ store'[k] = store[k]
      BY <1>0, <1>a, <2>2, <3>4, ZenonT(30) DEF CachePut, FreshUnlessRaced, Fresh, Allowed
    <3> QED BY <3>1, <3>2, <3>3, <3>4
  <2> QED BY <2>1, <2>2 DEF EnforceStep, Miss, Evaluate, EnforceError
<1> QED BY <1>2, <1>3

(* The steps of a mutation: the scope of the change is pending from the     *)
(* moment the memory changes until it has been invalidated.                *)
LEMMA MutationFresh ==
  ASSUME FreshInv, NEW a \in Admins,
         (\E c \in Mutations : Begin(a, c)) \/ MutationStep(a)
  PROVE  FreshUnlessRaced' /\ AnswersRight'
<1> USE AuthorizerInputs DEF FreshInv, TypeInv, TypeOK
<1>1. CASE (\E c \in Mutations : Begin(a, c)) \/ Present(a) \/ Persist(a) \/ PersistError(a)
  <2>1. /\ store' = store /\ mem' = mem /\ reload' = reload /\ tainted' = tainted
        /\ key' = key /\ answer' = answer /\ pc[a] # "invalidate"
        /\ \A q \in Reqs : pc'[q] = pc[q] /\ overlap'[q] = overlap[q]
        /\ \A b \in Admins \ {a} : pc'[b] = pc[b] /\ change'[b] = change[b]
    <3>1. CASE \E c \in Mutations : Begin(a, c) BY <3>1 DEF Begin, Goto
    <3>2. CASE Present(a) BY <3>2 DEF Present, Goto
    <3>3. CASE Persist(a) BY <3>3 DEF Persist, Goto
    <3>4. CASE PersistError(a) BY <3>4, ZenonT(30) DEF PersistError, MutationDone, Goto
    <3> QED BY <1>1, <3>1, <3>2, <3>3, <3>4, ZenonT(30)
  <2>2. ASSUME NEW k \in Keys, Pending(k) PROVE Pending(k)'
    <3>1. CASE reload = "flush" BY <2>1, <3>1 DEF Pending
    <3>2. CASE reload # "flush"
      <4>1. PICK b \in Admins : pc[b] = "invalidate" /\ k \in Scope(change[b])
        BY <2>2, <3>2 DEF Pending
      <4>2. pc'[b] = "invalidate" /\ change'[b] = change[b] BY <2>1, <4>1
      <4> QED BY <4>1, <4>2 DEF Pending, Scope
    <3> QED BY <3>1, <3>2
  <2> QED BY <2>1, <2>2, ZenonT(30) DEF FreshUnlessRaced, AnswersRight, Fresh, Allowed
<1>2. CASE Apply(a)
  <2>1. /\ store' = store /\ reload' = reload /\ change' = change /\ key' = key
        /\ answer' = answer /\ pc'[a] = "invalidate"
        /\ \A q \in Reqs : pc'[q] = pc[q] /\ (pc[q] = "put" => overlap'[q])
        /\ \A b \in Admins \ {a} : pc'[b] = pc[b]
    BY <1>2, ZenonT(30) DEF Apply, MemBecomes, Goto
  <2>2. AnswersRight' BY <2>1 DEF AnswersRight
  <2>3. \A k \in Keys : Pending(k) => Pending(k)' BY <2>1, <1>2, ZenonT(30) DEF Pending, Scope, Apply
  <2>4. CASE overlap[a] BY <1>2, <2>2, <2>4 DEF Apply, FreshUnlessRaced
  <2>5. CASE ~overlap[a]
    <3>1. mem' = Changed(mem, change[a]) /\ tainted' = tainted \cup Unreached(change[a])
      BY <1>2, <2>5 DEF Apply, MemBecomes
    <3>2. change[a] \in Mutations BY <1>2 DEF Apply
    <3>3. ASSUME NEW k \in Keys PROVE (Fresh(k) \/ Pending(k) \/ k \in tainted)'
      <4>1. CASE k \in Scope(change[a]) BY <2>1, <4>1 DEF Pending, Scope
      <4>2. CASE k \in Unreached(change[a]) BY <3>1, <4>2
      <4>3. CASE k \notin Scope(change[a]) /\ k \notin Unreached(change[a])
        <5>1. Allowed(mem', k) = Allowed(mem, k) BY <3>1, <3>2, <4>3, ScopeCovers
        <5>2. Fresh(k) => Fresh(k)' BY <2>1, <5>1, ZenonT(30) DEF Fresh, Allowed
        <5> QED BY <2>3, <3>1, <5>2 DEF FreshUnlessRaced
      <4> QED BY <4>1, <4>2, <4>3
    <3> QED BY <2>2, <3>3 DEF FreshUnlessRaced
  <2> QED BY <2>4, <2>5
<1>3. CASE Invalidate(a)
  <2>1. /\ mem' = mem /\ reload' = reload /\ key' = key /\ answer' = answer
        /\ \A q \in Reqs : pc'[q] = pc[q] /\ overlap'[q] = overlap[q]
        /\ \A b \in Admins \ {a} : pc'[b] = pc[b] /\ change'[b] = change[b]
    BY <1>3, ZenonT(30) DEF Invalidate, MutationDone, Goto
  <2>2. AnswersRight' BY <2>1, ZenonT(30) DEF AnswersRight, Allowed
  <2>3. ASSUME NEW k \in Keys PROVE (Fresh(k) \/ Pending(k) \/ k \in tainted)'
    <3>1. CASE k \in Scope(change[a]) BY <1>3, <3>1 DEF Invalidate, Forget, Fresh
    <3>2. CASE k \notin Scope(change[a])
      <4>1. store'[k] = store[k] /\ (k \in tainted => k \in tainted')
        BY <1>3, <3>2 DEF Invalidate, Forget
      <4>2. Pending(k) => Pending(k)' BY <2>1, <3>2, ZenonT(30) DEF Pending, Scope
      <4> QED BY <2>1, <4>1, <4>2, ZenonT(30) DEF FreshUnlessRaced, Fresh, Allowed
    <3> QED BY <3>1, <3>2
  <2> QED BY <2>2, <2>3 DEF FreshUnlessRaced
<1> QED BY <1>1, <1>2, <1>3 DEF MutationStep

(* Reloads, other instances, Close and restarts. *)
LEMMA OtherFresh ==
  ASSUME FreshInv, ReloadStep \/ (\E c \in Mutations : Outside(c)) \/ Close \/ Restart
  PROVE  FreshUnlessRaced' /\ AnswersRight'
<1> USE AuthorizerInputs DEF FreshInv, TypeInv, TypeOK
<1>1. CASE ReloadRead \/ (\E c \in Mutations : Outside(c)) \/ Close
  <2>1. /\ store' = store /\ mem' = mem /\ tainted' = tainted /\ key' = key
        /\ answer' = answer /\ pc' = pc /\ overlap' = overlap /\ change' = change
        /\ reload = "flush" => reload' = "flush"
    BY <1>1 DEF ReloadRead, Outside, Close
  <2>2. \A k \in Keys : Pending(k) => Pending(k)' BY <2>1 DEF Pending, Scope
  <2> QED BY <2>1, <2>2, ZenonT(30) DEF FreshUnlessRaced, AnswersRight, Fresh, Allowed
<1>2. CASE ReloadInstall
  <2>1. FreshUnlessRaced' BY <1>2 DEF ReloadInstall, FreshUnlessRaced, Pending
  <2>2. \A q \in Reqs : pc'[q] = "put" => overlap'[q]
    BY <1>2, ZenonT(30) DEF ReloadInstall, MemBecomes
  <2> QED BY <2>1, <2>2 DEF AnswersRight
<1>3. CASE ReloadFlush
  BY <1>3, ZenonT(30) DEF ReloadFlush, Forget, FreshUnlessRaced, AnswersRight, Fresh, Allowed
<1>4. CASE Restart
  BY <1>4 DEF Restart, FreshUnlessRaced, AnswersRight, Fresh
<1> QED BY <1>1, <1>2, <1>3, <1>4 DEF ReloadStep

(* Remembered decisions are right unless the calls that made them raced or  *)
(* the users' method was given a role's name: the invalidation matrix of    *)
(* the Add and Remove methods and LoadPolicy, whatever names they are given. *)
THEOREM CacheFresh == Spec => []FreshUnlessRaced
<1>1. Init => FreshInv
  BY TypeStart DEF Init, StoreInit, FreshInv, FreshUnlessRaced, AnswersRight, Fresh
<1>2. FreshInv /\ [Next]_vars => FreshInv'
  <2> SUFFICES ASSUME FreshInv, [Next]_vars PROVE FreshInv' OBVIOUS
  <2>1. TypeInv' BY TypeStep DEF FreshInv
  <2>2. CASE Next BY <2>1, <2>2, EnforceFresh, MutationFresh, OtherFresh DEF Next, FreshInv
  <2>3. CASE UNCHANGED vars
    <3>1. \A k \in Keys : Pending(k) => Pending(k)' BY <2>3, ZenonT(30) DEF Pending, Scope, vars
    <3> QED BY <2>1, <2>3, <3>1, ZenonT(30) DEF vars, FreshInv, FreshUnlessRaced, AnswersRight, Fresh, Allowed
  <2> QED BY <2>2, <2>3
<1>3. FreshInv => FreshUnlessRaced BY DEF FreshInv
<1> QED BY <1>1, <1>2, <1>3, PTL DEF Spec

-----------------------------------------------------------------------------
(* Wherever rules come to memory from, the database held them first. *)
RulesHeld ==
  /\ mem \subseteq held /\ db \subseteq held /\ snap \subseteq held
  /\ \A a \in Admins : base[a] \subseteq held
  /\ \A a \in Admins : pc[a] = "apply" /\ change[a][1] = "add" => change[a][2] \in held

HeldInv == TypeInv /\ RulesHeld

(* Every rule in memory was in the database at some time: AddPolicy stores  *)
(* before it changes the model, a failed mutation changes neither.          *)
THEOREM MemoryOnlyFromDatabase == Spec => []MemoryFromDatabase
<1>1. Init => HeldInv
  BY TypeStart DEF Init, HeldInv, RulesHeld
<1>2. HeldInv /\ [Next]_vars => HeldInv'
  <2> SUFFICES ASSUME HeldInv, [Next]_vars PROVE HeldInv' OBVIOUS
  <2>0. TypeInv' BY TypeStep DEF HeldInv
  <2>t. /\ pc \in [Reqs \cup Admins -> {"idle", "eval", "put", "persist", "apply", "invalidate"}]
        /\ change \in [Admins -> Mutations \cup {None}] /\ base \in [Admins -> SUBSET Rules]
        /\ Reqs \cap Admins = {} /\ RulesHeld
    BY AuthorizerInputs DEF HeldInv, TypeInv, TypeOK
  <2> USE <2>t DEF RulesHeld
  <2>1. ASSUME NEW r \in Reqs, (\E k \in Keys : Miss(r, k)) \/ EnforceStep(r) PROVE RulesHeld'
    BY <2>1 DEF EnforceStep, Miss, Evaluate, CachePut, EnforceError, EnforceDone, Goto
  <2>2. ASSUME NEW a \in Admins, \E c \in Mutations : Begin(a, c) PROVE RulesHeld'
    BY <2>2 DEF Begin, Goto
  <2>3. ASSUME NEW a \in Admins, Present(a) PROVE RulesHeld'
    BY <2>3 DEF Present, Goto
  <2>4. ASSUME NEW a \in Admins, Persist(a) PROVE RulesHeld'
    BY <2>4 DEF Persist, Goto, Changed
  <2>5. ASSUME NEW a \in Admins, PersistError(a) PROVE RulesHeld'
    BY <2>5 DEF PersistError, MutationDone, Goto
  <2>6. ASSUME NEW a \in Admins, Apply(a) PROVE RulesHeld'
    <3>1. mem' \subseteq held BY <2>6 DEF Apply, MemBecomes, Changed
    <3> QED BY <2>6, <3>1 DEF Apply, Goto
  <2>7. ASSUME NEW a \in Admins, Invalidate(a) PROVE RulesHeld'
    BY <2>7 DEF Invalidate, MutationDone, Goto
  <2>8. ASSUME ReloadStep PROVE RulesHeld'
    BY <2>8 DEF ReloadStep, ReloadRead, ReloadInstall, ReloadFlush, MemBecomes
  <2>9. ASSUME (\E c \in Mutations : Outside(c)) \/ Close PROVE RulesHeld'
    BY <2>9 DEF Outside, Close
  <2>10. ASSUME Restart PROVE RulesHeld'
    BY <2>10 DEF Restart
  <2>11. ASSUME UNCHANGED vars PROVE RulesHeld'
    BY <2>11 DEF vars
  <2> HIDE DEF RulesHeld
  <2> QED BY <2>0, <2>1, <2>2, <2>3, <2>4, <2>5, <2>6, <2>7, <2>8, <2>9, <2>10, <2>11
          DEF Next, MutationStep, HeldInv
<1>3. HeldInv => MemoryFromDatabase BY DEF HeldInv, RulesHeld, MemoryFromDatabase
<1> QED BY <1>1, <1>2, <1>3, PTL DEF Spec
=============================================================================

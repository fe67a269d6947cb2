--------------------------- MODULE DecisionCache ---------------------------
(***************************************************************************)
(* internal/adapter/casbin/cache.go: the LRU decision cache, a map of      *)
(* entries and a list of the same entries, most recently used first.  One  *)
(* mutex makes every operation a single step.                              *)
(***************************************************************************)
EXTENDS Naturals, FiniteSets, Sequences, Lists

CONSTANTS
  Users, Perms,
  MaxSize,     \* capacity; with 0 every operation is a no-op
  None

ASSUME CacheInputs == MaxSize \in Nat \ {0} /\ None \notin BOOLEAN

VARIABLES
  items,       \* keys of the map
  value,       \* value[k]: the value of k's entry, None without an entry
  order,       \* keys of the list's elements, front first
  used         \* history: keys in order of last use, invalidated ones left out

vars == <<items, value, order, used>>

Keys == Users \X Perms

TypeOK ==
  /\ items \in SUBSET Keys
  /\ value \in [Keys -> BOOLEAN \cup {None}]
  /\ order \in Seq(Keys)
  /\ used \in Seq(Keys)

(* Faulty variant: subject and object trade places. *)
CacheKeySwapped(u, p) == <<p, u>>

cacheKey(u, p) == <<u, p>>

Init ==
  /\ items = {} /\ value = [k \in Keys |-> None]
  /\ order = <<>> /\ used = <<>>

(* list.MoveToFront *)
MoveToFront(s, k) == <<k>> \o Without(s, {k})

Touch(k) == used' = <<k>> \o Without(used, {k})

(* get: a hit is promoted, a miss changes nothing. *)
Get(k) ==
  /\ k \in items
  /\ order' = MoveToFront(order, k)
  /\ Touch(k)
  /\ UNCHANGED <<items, value>>

(* put of a key that is there *)
PutHit(k, v) ==
  /\ k \in items
  /\ value' = [value EXCEPT ![k] = v]
  /\ order' = MoveToFront(order, k)
  /\ Touch(k)
  /\ UNCHANGED items

(* Faulty variant: the newest entry is evicted. *)
EvictNewest == Head(order)

(* evictLRU takes the back of the list. *)
EvictLRU == order[Len(order)]

(* put of a new key, after evictLRU when the list is full *)
PutMiss(k, v) ==
  /\ k \notin items
  /\ LET gone == IF Len(order) >= MaxSize THEN {EvictLRU} ELSE {}
     IN  /\ items' = (items \ gone) \cup {k}
         /\ value' = [q \in Keys |-> IF q = k THEN v ELSE IF q \in gone THEN None ELSE value[q]]
         /\ order' = <<k>> \o Without(order, gone)
  /\ Touch(k)

(* Faulty variant: only the map forgets the subject. *)
DropFromMap(K) ==
  /\ items' = items \ K
  /\ value' = [k \in Keys |-> IF k \in K THEN None ELSE value[k]]
  /\ used' = Without(used, K)
  /\ UNCHANGED order

Drop(K) ==
  /\ items' = items \ K
  /\ value' = [k \in Keys |-> IF k \in K THEN None ELSE value[k]]
  /\ order' = Without(order, K)
  /\ used' = Without(used, K)

(* Faulty variant: the loop over the map stops at the first match. *)
InvalidateOne(u) == \E p \in Perms : Drop({cacheKey(u, p)})

InvalidateSub(u) == Drop({cacheKey(u, p) : p \in Perms})

Flush == Drop(Keys)

Next ==
  \/ \E u \in Users, p \in Perms : Get(cacheKey(u, p))
  \/ \E u \in Users, p \in Perms, v \in BOOLEAN :
       PutHit(cacheKey(u, p), v) \/ PutMiss(cacheKey(u, p), v)
  \/ \E u \in Users : InvalidateSub(u)
  \/ Flush

Spec == Init /\ [][Next]_vars

-----------------------------------------------------------------------------
(* The map and the list hold the same entries, each once, and never more   *)
(* than the capacity, whatever mix of puts, evictions and invalidations    *)
(* (put, evictLRU, invalidateSub, flush).                                  *)
MapMatchesList ==
  /\ {order[i] : i \in 1..Len(order)} = items
  /\ Len(order) = Cardinality(items)
  /\ Len(order) <= MaxSize

(* Eviction is by recency: what is cached was used more recently than      *)
(* anything evicted, and in the order of the list (get and put promote).   *)
LeastRecentGoes ==
  /\ Len(order) <= Len(used)
  /\ \A i \in 1..Len(order) : order[i] = used[i]

(* The cache is a bounded map that forgets what it is told to forget.      *)
Store == INSTANCE DecisionStore WITH store <- value
ImplementsStore == Store!StoreSpec
=============================================================================

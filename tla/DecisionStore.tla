--------------------------- MODULE DecisionStore ---------------------------
(***************************************************************************)
(* What the authorizer needs of its decision cache: a bounded partial map  *)
(* from (subject, permission) to a decision that forgets whole subjects or *)
(* everything on demand.  Which entry makes room is left open; DecisionCache *)
(* is the LRU implementation.                                              *)
(***************************************************************************)
EXTENDS Naturals, FiniteSets

CONSTANTS
  Users,       \* subjects
  Perms,       \* (object, action) pairs that are asked for
  MaxSize,     \* capacity; a disabled cache (size 0) is never consulted
  None

ASSUME StoreInputs == MaxSize \in Nat \ {0} /\ None \notin BOOLEAN

VARIABLE store   \* store[k]: the decision remembered for k, or None

Keys == Users \X Perms

Stored == {k \in Keys : store[k] # None}

StoreType == store \in [Keys -> BOOLEAN \cup {None}]

StoreInit == store = [k \in Keys |-> None]

(* A new entry in a full store costs another one. *)
Put(k, v) ==
  \/ /\ store[k] # None
     /\ store' = [store EXCEPT ![k] = v]
  \/ /\ store[k] = None /\ Cardinality(Stored) < MaxSize
     /\ store' = [store EXCEPT ![k] = v]
  \/ /\ store[k] = None /\ Cardinality(Stored) >= MaxSize
     /\ \E e \in Stored : store' = [store EXCEPT ![e] = None, ![k] = v]

Forget(K) == store' = [k \in Keys |-> IF k \in K THEN None ELSE store[k]]

OfSub(u) == {u} \X Perms

StoreNext ==
  \/ \E k \in Keys, v \in BOOLEAN : Put(k, v)
  \/ \E u \in Users : Forget(OfSub(u))
  \/ Forget(Keys)

StoreSpec == StoreInit /\ [][StoreNext]_store
=============================================================================

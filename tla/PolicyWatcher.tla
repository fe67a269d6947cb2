--------------------------- MODULE PolicyWatcher ---------------------------
(***************************************************************************)
(* Several instances that share the casbin_rules table and tell each other *)
(* about changes through a watcher (watcher_redis.go, watcher_memory.go,   *)
(* Adapter.makeUpdateCallback), with the periodic reload as a backstop.    *)
(*                                                                         *)
(* Casbin's enforcer (external) writes the table, then its own model, then *)
(* notifies the watcher, and it does so too when the callback applies what *)
(* another instance announced.  A statement may fail, or take effect and   *)
(* lose its answer; a row that the table has fails on its unique index.    *)
(***************************************************************************)
EXTENDS Naturals, Sequences, FiniteSets

CONSTANTS
  Instances,     \* processes with an enforcer and a watcher each
  WatchRules,    \* the rules that get added
  Removable,     \* the rules that may get removed again
  WatchBuffer    \* messages a watcher holds; more are lost

ASSUME WatchInputs == WatchBuffer \in Nat

VARIABLES
  watcher,       \* "redis", "memory" or "none", at every instance
  table,         \* the rows of casbin_rules
  loaded,        \* loaded[i]: the rules in the model of instance i
  inbox,         \* inbox[i]: messages its watcher has received
  toAdd,         \* mutations still to come
  toRemove

watchVars == <<watcher, table, loaded, inbox, toAdd, toRemove>>

(* A rule of section "g" (a role of a user) arrives as one of section "p". *)
AllRules == WatchRules \cup { [sec |-> "p", name |-> r.name] : r \in WatchRules }
WatchMessages == [op: {"add_policy", "remove_policy"}, rule: WatchRules \cup AllRules]

WatchTypeOK ==
  /\ watcher \in {"redis", "memory", "none"}
  /\ table \subseteq AllRules
  /\ loaded \in [Instances -> SUBSET AllRules]
  /\ \A i \in Instances : Len(inbox[i]) <= WatchBuffer
  /\ \A i \in Instances, n \in 1..WatchBuffer :
       n <= Len(inbox[i]) => inbox[i][n] \in WatchMessages
  /\ toAdd \subseteq WatchRules /\ toRemove \subseteq Removable

WatchInit ==
  /\ watcher \in {"redis", "memory", "none"}
  /\ table = {} /\ loaded = [i \in Instances |-> {}]
  /\ inbox = [i \in Instances |-> <<>>]
  /\ toAdd = WatchRules /\ toRemove = Removable

(* The boxes when the instances of H get the message, those that have room. *)
Delivered(H, box, msg) ==
  [j \in Instances |-> IF j \in H /\ Len(box[j]) < WatchBuffer
                       THEN Append(box[j], msg) ELSE box[j]]

(* RedisWatcher.publish may fail; otherwise whoever is subscribed gets it, *)
(* the sender included.                                                    *)
Published(box, msg) == {Delivered(H, box, msg) : H \in SUBSET Instances}

(* MemoryWatcher.send: within the process, dropped when the buffer is full. *)
SentInMemory(i, box, msg) == {Delivered({i}, box, msg)}

Notified(i, box, msg) ==
  CASE watcher = "redis" -> Published(box, msg)
    [] watcher = "memory" -> SentInMemory(i, box, msg)
    [] watcher = "none" -> {box}

(* Enforcer.AddPolicy and AddGroupingPolicy: nothing happens for a rule    *)
(* the model has, nor when the statement fails.                            *)
EnforcerAdd(i, rule, box) ==
  \/ inbox' = box /\ UNCHANGED <<table, loaded>>
  \/ /\ rule \notin loaded[i] \cup table
     /\ table' = table \cup {rule}
     /\ \/ inbox' = box /\ UNCHANGED loaded
        \/ /\ loaded' = [loaded EXCEPT ![i] = @ \cup {rule}]
           /\ inbox' \in Notified(i, box, [op |-> "add_policy", rule |-> rule])

(* Enforcer.RemovePolicy: the row goes also if the model has no such rule. *)
EnforcerRemove(i, rule, box) ==
  \/ inbox' = box /\ UNCHANGED <<table, loaded>>
  \/ /\ table' = table \ {rule}
     /\ \/ inbox' = box /\ UNCHANGED loaded
        \/ /\ loaded' = [loaded EXCEPT ![i] = @ \ {rule}]
           /\ inbox' \in IF rule \in loaded[i]
                         THEN Notified(i, box, [op |-> "remove_policy", rule |-> rule])
                         ELSE {box}

(* A mutation; one that fails may be tried again. *)
AddRule(i, rule) ==
  /\ rule \in toAdd
  /\ EnforcerAdd(i, rule, inbox)
  /\ toAdd' = toAdd \ (table' \cap {rule})
  /\ UNCHANGED <<watcher, toRemove>>

RemoveRule(i, rule) ==
  /\ rule \in toRemove /\ rule \notin toAdd
  /\ toRemove' = toRemove \ {rule}
  /\ EnforcerRemove(i, rule, inbox)
  /\ UNCHANGED <<watcher, toAdd>>

(* The callback goes by the operation and not by the section, so a role    *)
(* assignment is added as a policy rule.  It drops the error, and the      *)
(* message is gone.                                                        *)
UpdateCallback(i) ==
  /\ inbox[i] # <<>>
  /\ LET msg == Head(inbox[i])
         rule == [sec |-> "p", name |-> msg.rule.name]
         box == [inbox EXCEPT ![i] = Tail(@)]
     IN IF msg.op = "add_policy" THEN EnforcerAdd(i, rule, box) ELSE EnforcerRemove(i, rule, box)
  /\ UNCHANGED <<watcher, toAdd, toRemove>>

(* Faulty variant: the reload keeps what the model had. *)
ReloadNothing(i) ==
  /\ UNCHANGED watchVars

(* The backstop tick; a reload that fails changes nothing. *)
Reload(i) ==
  /\ loaded' = [loaded EXCEPT ![i] = table]
  /\ UNCHANGED <<watcher, table, inbox, toAdd, toRemove>>

WatchNext ==
  \E i \in Instances :
    \/ \E rule \in WatchRules : AddRule(i, rule) \/ RemoveRule(i, rule)
    \/ UpdateCallback(i) \/ Reload(i)

(* Messages are taken, and every instance's reload succeeds now and then. *)
WatchFairness == \A i \in Instances : WF_watchVars(UpdateCallback(i)) /\ WF_watchVars(Reload(i))
WatchSpec == WatchInit /\ [][WatchNext]_watchVars /\ WatchFairness

(***************************************************************************)
(* Properties.                                                             *)
(***************************************************************************)
(* A rule that was added and is never removed is in the table, and in the  *)
(* end in every instance, whatever messages were lost, whatever callbacks  *)
(* failed, and with any watcher or none.                                   *)
AddsReachAll ==
  \A rule \in WatchRules \ Removable :
    <>[](rule \in toAdd \/ \A i \in Instances : rule \in loaded[i])
=============================================================================

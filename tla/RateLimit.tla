----------------------------- MODULE RateLimit -----------------------------
(***************************************************************************)
(* internal/platform/http/middleware/rate_limit.go and the sliding window  *)
(* of internal/adapter/cache: the limiter of a route with the memory       *)
(* backend, the Redis backend, and the Redis backend over the no-op cache. *)
(*                                                                         *)
(* An admission is a pair of its time stamp and a serial number, so that   *)
(* the entries of a slice with equal time stamps stay apart.  Members of   *)
(* the Redis set are the time stamps themselves.                           *)
(***************************************************************************)
EXTENDS Integers, FiniteSets

CONSTANTS
  LimitKeys,    \* what defaultKeyFunc derives: "user:..." or "ip:..."
  MaxHits, Window,  \* the configured limit
  Hits,        \* requests at the limiter at once
  UseSites,     \* [useRedis, cache, failClosed] of the limiters in the code
  MaxTime,      \* bound: clock
  MaxAdmitted,  \* bound: admissions
  NoCall        \* no request, no expiry

ASSUME LimitInputs ==
  /\ MaxHits \in Nat \ {0} /\ Window \in Nat \ {0}
  /\ MaxTime \in Nat /\ MaxAdmitted \in Nat
  /\ UseSites \subseteq [useRedis : BOOLEAN, cache : {"redis", "noop"}, failClosed : BOOLEAN]

Admissions == (0..MaxTime) \X (1..MaxAdmitted)

VARIABLES
  clock,
  site,         \* the limiter under consideration
  windows,      \* windows[k].timestamps, windows[k].expiresAt of the memory backend
  zset,         \* zset[k]: the members of the Redis set
  zexpiry,      \* zexpiry[k]: when Redis drops the key
  script,         \* script[r]: the key and time stamp of a script on its way to Redis
  last,         \* the last answer: its code, key and time stamp
  admitted,     \* history: admitted[k], the requests that were counted and passed on
  irregular     \* history: keys whose scripts shared a time stamp, ran out of order,
                \* were overtaken by the expiry or took effect without an answer

limitVars == <<clock, site, windows, zset, zexpiry, script, last, admitted, irregular>>

(* The choice of RateLimit; the cache is never nil. *)
Backend == IF site.useRedis THEN site.cache ELSE "memory"

LimitTypeOK ==
  /\ clock \in 0..MaxTime
  /\ site \in UseSites
  /\ windows \in [LimitKeys -> [timestamps : SUBSET Admissions,
                                expiresAt : 0..(MaxTime + Window)]]
  /\ zset \in [LimitKeys -> SUBSET (0..MaxTime)]
  /\ zexpiry \in [LimitKeys -> (0..(MaxTime + Window)) \cup {NoCall}]
  /\ script \in [Hits -> (LimitKeys \X (0..MaxTime)) \cup {NoCall}]
  /\ last \in ({"next", "429", "503"} \X LimitKeys \X (0..MaxTime)) \cup {NoCall}
  /\ admitted \in [LimitKeys -> SUBSET Admissions]
  /\ irregular \in SUBSET LimitKeys

NewWindow == [timestamps |-> {}, expiresAt |-> 0]

LimitInit ==
  /\ clock = 0
  /\ site \in UseSites
  /\ windows = [k \in LimitKeys |-> NewWindow]
  /\ zset = [k \in LimitKeys |-> {}]
  /\ zexpiry = [k \in LimitKeys |-> NoCall]
  /\ script = [r \in Hits |-> NoCall]
  /\ last = NoCall
  /\ admitted = [k \in LimitKeys |-> {}]
  /\ irregular = {}

(* Timestamps after the start of the window. *)
After(A, t) == {a \in A : a[1] > t}

Total == Cardinality(UNION {admitted[k] : k \in LimitKeys})
Answer(code, k, t) == last' = <<code, k, t>>
Count(k, t) == admitted' = [admitted EXCEPT ![k] = @ \cup {<<t, Total + 1>>}]

(* count >= maxReqs *)
Full(n) == n >= MaxHits

(* memoryBackend.Allow, under its mutex. *)
MemoryAllow(k) ==
  /\ Backend = "memory" /\ Total < MaxAdmitted
  /\ LET valid == After(windows[k].timestamps, clock - Window)
         keep(A) == windows' = [windows EXCEPT ![k] = [timestamps |-> A,
                                                       expiresAt |-> clock + Window]]
     IN  \/ /\ Full(Cardinality(valid))
            /\ keep(valid) /\ Answer("429", k, clock) /\ UNCHANGED admitted
         \/ /\ ~Full(Cardinality(valid))
            /\ keep(valid \cup {<<clock, Total + 1>>})
            /\ Count(k, clock) /\ Answer("next", k, clock)
  /\ UNCHANGED <<clock, site, zset, zexpiry, script, irregular>>

(* Faulty variant: drops the windows that have not expired. *)
CleanupEarly ==
  /\ Backend = "memory"
  /\ \E k \in LimitKeys : windows[k] # NewWindow /\ clock < windows[k].expiresAt
  /\ windows' = [k \in LimitKeys |->
                   IF clock < windows[k].expiresAt THEN NewWindow ELSE windows[k]]
  /\ UNCHANGED <<clock, site, zset, zexpiry, script, last, admitted, irregular>>

(* The janitor's tick. *)
Cleanup ==
  /\ Backend = "memory"
  /\ \E k \in LimitKeys : windows[k] # NewWindow /\ clock > windows[k].expiresAt
  /\ windows' = [k \in LimitKeys |->
                   IF clock > windows[k].expiresAt THEN NewWindow ELSE windows[k]]
  /\ UNCHANGED <<clock, site, zset, zexpiry, script, last, admitted, irregular>>

-----------------------------------------------------------------------------
(* RedisCache.SlidingWindowAllow reads the clock and sends the script. *)
RedisCall(r, k) ==
  /\ Backend = "redis" /\ script[r] = NoCall /\ Total < MaxAdmitted
  /\ script' = [script EXCEPT ![r] = <<k, clock>>]
  /\ UNCHANGED <<clock, site, windows, zset, zexpiry, last, admitted, irregular>>

(* slidingWindowScript.  ZADD of a present member adds nothing. *)
Live(k, t) == {m \in zset[k] : m > t - Window}

Zadd(k, t) ==
  /\ zset' = [zset EXCEPT ![k] = Live(k, t) \cup {t}]
  /\ zexpiry' = [zexpiry EXCEPT ![k] = clock + Window]

Script(r) ==
  /\ script[r] # NoCall /\ Total < MaxAdmitted
  /\ LET k == script[r][1]
         t == script[r][2]
     IN  \/ /\ Full(Cardinality(Live(k, t)))
            /\ zset' = [zset EXCEPT ![k] = Live(k, t)]
            /\ Answer("429", k, t)
            /\ UNCHANGED <<zexpiry, admitted, irregular>>
         \/ /\ ~Full(Cardinality(Live(k, t)))
            /\ Zadd(k, t)
            /\ Count(k, t) /\ Answer("next", k, t)
            /\ irregular' = IF \A a \in admitted[k] : a[1] < t
                              THEN irregular ELSE irregular \cup {k}
  /\ script' = [script EXCEPT ![r] = NoCall]
  /\ UNCHANGED <<clock, site, windows>>

(* err != nil: reject, or let the request pass uncounted. *)
OnError == IF site.failClosed THEN "503" ELSE "next"

(* The script fails, or takes effect and its answer is lost. *)
ScriptError(r) ==
  /\ script[r] # NoCall
  /\ LET k == script[r][1]
         t == script[r][2]
     IN  /\ Answer(OnError, k, t)
         /\ \/ UNCHANGED <<zset, zexpiry, irregular>>
            \/ /\ ~Full(Cardinality(Live(k, t)))
               /\ Zadd(k, t)
               /\ irregular' = irregular \cup {k}
  /\ script' = [script EXCEPT ![r] = NoCall]
  /\ UNCHANGED <<clock, site, windows, admitted>>

(* A script on its way whose window still holds members of the key. *)
Overtaken(k) == \E r \in Hits :
  script[r] # NoCall /\ script[r][1] = k /\ Live(k, script[r][2]) # {}

(* PEXPIRE counts from the run of the script, on Redis's side; the cutoff   *)
(* of a script counts from the time stamp its caller took.                  *)
RedisExpire(k) ==
  /\ zexpiry[k] # NoCall /\ clock >= zexpiry[k]
  /\ zset' = [zset EXCEPT ![k] = {}]
  /\ zexpiry' = [zexpiry EXCEPT ![k] = NoCall]
  /\ irregular' = IF Overtaken(k) THEN irregular \cup {k} ELSE irregular
  /\ UNCHANGED <<clock, site, windows, script, last, admitted>>

(* NoOpCache.SlidingWindowAllow counts nothing. *)
NoOpAllow(k) ==
  /\ Backend = "noop"
  /\ Answer("next", k, clock)
  /\ UNCHANGED <<clock, site, windows, zset, zexpiry, script, admitted, irregular>>

LimitTick ==
  /\ clock < MaxTime
  /\ clock' = clock + 1
  /\ UNCHANGED <<site, windows, zset, zexpiry, script, last, admitted, irregular>>

LimitNext ==
  \/ \E k \in LimitKeys : MemoryAllow(k) \/ NoOpAllow(k) \/ RedisExpire(k)
  \/ \E r \in Hits : (\E k \in LimitKeys : RedisCall(r, k)) \/ Script(r) \/ ScriptError(r)
  \/ Cleanup
  \/ LimitTick

LimitSpec == LimitInit /\ [][LimitNext]_limitVars

-----------------------------------------------------------------------------
InWindow(k, t) == {a \in admitted[k] : t - Window < a[1] /\ a[1] <= t}

WithinLimit(k) == \A t \in 0..MaxTime : Cardinality(InWindow(k, t)) <= MaxHits

(* The limiter's contract.  It passes at most MaxHits requests of a key in *)
(* any stretch of the window's length.  In memory that is so whatever the  *)
(* janitor drops in between.  In Redis it is so while the scripts of a key *)
(* run in the order of their time stamps, no two of which are equal, are   *)
(* answered, and reach Redis before the key expires under them: a script   *)
(* delayed past the expiry finds its window forgotten.  A request is       *)
(* refused only when MaxHits others were passed since the start of its     *)
(* window, so refusals use up nothing; and a limiter that fails closed     *)
(* lets no request pass that it did not count.  Over the no-op cache none  *)
(* of this holds, fail-closed or not: every request passes, uncounted.     *)
LimitExact ==
  /\ Backend = "memory" => \A k \in LimitKeys : WithinLimit(k)
  /\ Backend = "redis" => \A k \in LimitKeys \ irregular : WithinLimit(k)
  /\ last # NoCall /\ last[1] = "429" /\ last[2] \notin irregular =>
       Cardinality({a \in admitted[last[2]] : a[1] > last[3] - Window}) >= MaxHits
  /\ last # NoCall /\ last[1] = "next" /\ site.failClosed /\ Backend # "noop" =>
       \E a \in admitted[last[2]] : a[1] = last[3]
=============================================================================

------------------------------ MODULE RateLimit ------------------------------
(***************************************************************************)
(* The token-bucket limiter of core/ratelimit/ratelimit.go: one bucket per *)
(* client in an LRU map of at most MaxIPs clients, refilled lazily from    *)
(* the time since its last refill.                                         *)
(*                                                                         *)
(* Allow reads the clock BEFORE allowAt takes the mutex, so a caller first *)
(* stamps and, any time later, is decided on with that stamp: callers can  *)
(* reach the bucket in another order than they read the clock.             *)
(*                                                                         *)
(* The code counts in float64 tokens refilled at count/interval per        *)
(* second.  Here a token is Interval credits and a tick refills Count of   *)
(* them, which is the same rate in exact integers.                         *)
(***************************************************************************)
EXTENDS LRU, FiniteSets

CONSTANTS
  Callers,   \* the goroutines that call Allow
  Clients,   \* the bucket keys: client IPs, or API keys
  Count,     \* rate_limit.count
  Interval,  \* rate_limit.interval, in ticks
  MaxIPs,    \* the capacity of the LRU map
  MaxTime,   \* bound on the clock
  NoStamp    \* the stamp of a goroutine that is not in a call of Allow

ASSUME LimiterAssumption ==
  /\ Count \in Nat \ {0}
  /\ Interval \in Nat \ {0}
  /\ MaxIPs \in Nat \ {0}
  /\ MaxTime \in Nat
  /\ NoStamp \notin Nat

VARIABLES
  recent,  \* the LRU list of the tracked clients, least recently used first
  bucket,  \* the bucket of each tracked client
  stamp,   \* the time each goroutine in a call read
  now      \* the clock, time.Now()

limiterVars == <<recent, bucket, stamp>>
vars == <<recent, bucket, stamp, now>>

Full == Count * Interval
Bucket == [tokens : 0..Full, last : Nat]

TypeOK ==
  /\ recent \in RecencyLists(Clients, MaxIPs)
  /\ bucket \in [Range(recent) -> Bucket]
  /\ stamp \in [Callers -> Nat \cup {NoStamp}]
  /\ now \in Nat

Init ==
  /\ recent = <<>>
  /\ bucket = [c \in {} |-> 0]
  /\ stamp = [g \in Callers |-> NoStamp]
  /\ now = 0
-----------------------------------------------------------------------------
(* Mutants of Refill: without the cap; with b.last set also by a stamp that   *)
(* is late; with the refill rounded down to whole tokens.                    *)
RefillUncapped(b, t) ==
  IF t > b.last THEN [tokens |-> b.tokens + (t - b.last) * Count, last |-> t] ELSE b

RefillRewinds(b, t) ==
  LET filled == b.tokens + (IF t > b.last THEN (t - b.last) * Count ELSE 0)
  IN  [tokens |-> IF filled < Full THEN filled ELSE Full, last |-> t]

RefillRounds(b, t) ==
  IF t > b.last
  THEN LET filled == b.tokens + (((t - b.last) * Count) \div Interval) * Interval
       IN  [tokens |-> IF filled < Full THEN filled ELSE Full, last |-> t]
  ELSE b

(* The refill is capped, and a stamp that is not later than the last refill *)
(* (a goroutine overtaken between its clock read and the lock) adds nothing. *)
Refill(b, t) ==
  IF t > b.last
  THEN LET filled == b.tokens + (t - b.last) * Count
       IN  [tokens |-> IF filled < Full THEN filled ELSE Full, last |-> t]
  ELSE b

(* The bucket of c as a call stamped t finds it: a client that is not in the *)
(* map, because it is new or because it was evicted, gets a full bucket.     *)
BucketAt(c, t) ==
  Refill(IF c \in Range(recent) THEN bucket[c] ELSE [tokens |-> Full, last |-> t], t)

(* The map after a Get or Add of c that leaves b in its bucket. *)
PutBucket(c, b) ==
  /\ recent' = Insert(recent, c, MaxIPs)
  /\ bucket' = [x \in Range(recent') |-> IF x = c THEN b ELSE bucket[x]]

(* Allow(clientIP): time.Now(), with the lock not held yet. *)
ReadClock(g) ==
  /\ stamp[g] = NoStamp
  /\ stamp' = [stamp EXCEPT ![g] = now]
  /\ UNCHANGED <<recent, bucket>>

(* allowAt with a token to take: it is consumed and the request admitted. *)
Admit(g, c) ==
  /\ stamp[g] # NoStamp
  /\ LET b == BucketAt(c, stamp[g])
     IN  /\ b.tokens >= Interval
         /\ PutBucket(c, [b EXCEPT !.tokens = @ - Interval])
  /\ stamp' = [stamp EXCEPT ![g] = NoStamp]

(* allowAt without one: the refill is kept, nothing is consumed. *)
Deny(g, c) ==
  /\ stamp[g] # NoStamp
  /\ LET b == BucketAt(c, stamp[g])
     IN  /\ b.tokens < Interval
         /\ PutBucket(c, b)
  /\ stamp' = [stamp EXCEPT ![g] = NoStamp]

Tick ==
  /\ now < MaxTime
  /\ now' = now + 1
  /\ UNCHANGED limiterVars

Next ==
  \/ Tick
  \/ /\ \E g \in Callers :
          ReadClock(g) \/ \E c \in Clients : Admit(g, c) \/ Deny(g, c)
     /\ UNCHANGED now

Spec == Init /\ [][Next]_vars
=============================================================================

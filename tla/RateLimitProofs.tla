--------------------------- MODULE RateLimitProofs ---------------------------
(***************************************************************************)
(* What the token-bucket limiter guarantees for every rate, any number of  *)
(* goroutines and clients, and every order in which stamped goroutines     *)
(* reach the lock.                                                         *)
(***************************************************************************)
EXTENDS RateLimitHistory, LRUProofs

(* The units of a bucket are natural numbers, and it holds one token at least. *)
LEMMA FullIsNat == Full \in Nat /\ Interval <= Full /\ Interval \in Nat /\ Count \in Nat
<1>1. \A c, i \in Nat \ {0} : c * i \in Nat /\ i <= c * i
  OBVIOUS
<1>2. QED
  BY <1>1, LimiterAssumption DEF Full

(* The bucket that a call finds is well formed, not older than the stamp    *)
(* allows, and it never lost tokens to the refill.                          *)
LEMMA BucketAtType ==
  ASSUME TypeOK, NEW c \in Clients, NEW t \in Nat
  PROVE  /\ BucketAt(c, t) \in Bucket
         /\ c \in Range(recent) => /\ bucket[c] \in Bucket
                                   /\ BucketAt(c, t) = Refill(bucket[c], t)
<1> DEFINE b == IF c \in Range(recent) THEN bucket[c] ELSE [tokens |-> Full, last |-> t]
<1>1. b \in Bucket
  BY FullIsNat DEF TypeOK, Bucket
<1>2. BucketAt(c, t) = Refill(b, t)
  BY DEF BucketAt
<1> HIDE DEF b
<1>3. t > b.last => (t - b.last) * Count \in Nat
  <2>1. \A m \in Nat : m * Count \in Nat
    BY FullIsNat
  <2>2. t > b.last => t - b.last \in Nat
    BY <1>1 DEF Bucket
  <2>3. QED
    BY <2>1, <2>2
<1>4. Refill(b, t) \in Bucket
  BY <1>1, <1>3, FullIsNat DEF Refill, Bucket
<1>5. QED
  BY <1>1, <1>2, <1>4 DEF b

(* Putting a bucket back keeps the LRU list and the map in step. *)
LEMMA PutBucketType ==
  ASSUME TypeOK, NEW c \in Clients, NEW b \in Bucket, PutBucket(c, b)
  PROVE  /\ recent' \in RecencyLists(Clients, MaxIPs)
         /\ bucket' \in [Range(recent') -> Bucket]
         /\ c \in Range(recent') /\ bucket'[c] = b
         /\ \A x \in Range(recent') : x # c => x \in Range(recent) /\ bucket'[x] = bucket[x]
<1>1. /\ recent' \in RecencyLists(Clients, MaxIPs)
      /\ c \in Range(recent')
      /\ Range(recent') \subseteq Range(recent) \cup {c}
  BY InsertLemma, LimiterAssumption DEF TypeOK, PutBucket
<1>2. bucket' = [x \in Range(recent') |-> IF x = c THEN b ELSE bucket[x]]
  BY DEF PutBucket
<1>3. \A x \in Range(recent') : x # c => x \in Range(recent) /\ bucket[x] \in Bucket
  BY <1>1 DEF TypeOK
<1>4. QED
  BY <1>1, <1>2, <1>3

(* One decision of allowAt. *)
LEMMA DecisionTypeOK ==
  ASSUME TypeOK, NEW g \in Callers, NEW c \in Clients, Admit(g, c) \/ Deny(g, c), now' = now
  PROVE  TypeOK'
<1> DEFINE t == stamp[g]
           b == BucketAt(c, t)
<1>1. t \in Nat
  BY DEF TypeOK, Admit, Deny
<1>2. b \in Bucket
  BY <1>1, BucketAtType
<1>3. \E d \in Bucket : PutBucket(c, d)
  <2>1. CASE Admit(g, c)
    <3>1. b.tokens >= Interval /\ PutBucket(c, [b EXCEPT !.tokens = @ - Interval])
      BY <2>1 DEF Admit
    <3> HIDE DEF b
    <3>2. [b EXCEPT !.tokens = @ - Interval] \in Bucket
      BY <1>2, <3>1, FullIsNat DEF Bucket
    <3>3. QED
      BY <3>1, <3>2
  <2>2. CASE Deny(g, c)
    BY <1>2, <2>2 DEF Deny
  <2>3. QED
    BY <2>1, <2>2
<1>4. recent' \in RecencyLists(Clients, MaxIPs) /\ bucket' \in [Range(recent') -> Bucket]
  BY <1>3, PutBucketType
<1>5. stamp' \in [Callers -> Nat \cup {NoStamp}]
  BY DEF TypeOK, Admit, Deny
<1>6. QED
  BY <1>4, <1>5 DEF TypeOK

(* A limiter starts well formed: New leaves the map empty. *)
LEMMA InitTypeOK == Init => TypeOK
<1> SUFFICES ASSUME Init PROVE TypeOK
  OBVIOUS
<1>1. recent \in RecencyLists(Clients, MaxIPs) /\ Range(recent) = {}
  BY LimiterAssumption DEF Init, RecencyLists, IsInjective, Range
<1>2. QED
  BY <1>1 DEF Init, TypeOK

(* Every clock read, decision and tick keeps the types. *)
LEMMA StepTypeOK == TypeOK /\ [Next]_vars => TypeOK'
<1> SUFFICES ASSUME TypeOK, [Next]_vars PROVE TypeOK'
  OBVIOUS
<1>1. CASE Tick
  BY <1>1, LimiterAssumption DEF TypeOK, Tick, limiterVars
<1>2. ASSUME NEW g \in Callers, ReadClock(g), now' = now PROVE TypeOK'
  BY <1>2 DEF TypeOK, ReadClock
<1>3. CASE UNCHANGED vars
  BY <1>3 DEF TypeOK, vars
<1>4. QED
  BY <1>1, <1>2, <1>3, DecisionTypeOK DEF Next

(* The limiter is well formed in every reachable state; in particular no    *)
(* bucket ever holds more than its capacity or less than nothing.           *)
THEOREM TypeCorrect == Spec => []TypeOK
  BY InitTypeOK, StepTypeOK, PTL DEF Spec
(* What bucket b can have given out since time 0: a full bucket and every     *)
(* refill, short of what is in it.                                            *)
GivenOut(b) == Full + b.last * Count - b.tokens

(* A refill raises it, or leaves it: the cap only throws tokens away. *)
LEMMA RefillGives ==
  ASSUME NEW b \in Bucket, NEW t \in Nat
  PROVE  /\ GivenOut(b) \in Int /\ GivenOut(Refill(b, t)) >= GivenOut(b)
         /\ Refill(b, t).last \in {t, b.last}
<1>1. b.tokens \in Nat /\ b.last \in Nat /\ Count \in Nat /\ Interval \in Nat /\ Full \in Nat
  BY FullIsNat DEF Bucket
<1>2. b.last * Count \in Int /\ t * Count \in Int
  BY <1>1
<1>3. CASE ~(t > b.last)
  BY <1>1, <1>2, <1>3 DEF Refill, GivenOut
<1>4. CASE t > b.last
  <2> DEFINE gain == (t - b.last) * Count
             d == Refill(b, t)
  <2>1. gain \in Int /\ t * Count = b.last * Count + gain
    <3>1. \A x, y, n \in Int : x * n = y * n + (x - y) * n
      OBVIOUS
    <3>2. QED
      BY <1>1, <3>1
  <2>2. d.last = t /\ d.tokens <= b.tokens + gain /\ d.tokens \in Int
    BY <1>1, <1>4, <2>1 DEF Refill
  <2> HIDE DEF d, gain
  <2> DEFINE was == b.last * Count
             is == t * Count
  <2>3. GivenOut(b) = Full + was - b.tokens /\ GivenOut(d) = Full + is - d.tokens
    BY <2>2 DEF GivenOut
  <2>4. was \in Int /\ is \in Int /\ is = was + gain
    BY <1>2, <2>1
  <2> HIDE DEF was, is
  <2>5. GivenOut(b) \in Int /\ GivenOut(d) >= GivenOut(b)
    BY <1>1, <2>1, <2>2, <2>3, <2>4
  <2>6. QED
    BY <2>2, <2>5 DEF d
<1>5. QED
  BY <1>3, <1>4

(* One decision on c: an admission is one more token given out, a denial     *)
(* takes nothing back, and the other clients' buckets stay as they are.      *)
LEMMA DecisionGives ==
  ASSUME TypeOK, NEW g \in Callers, NEW c \in Clients, Admit(g, c) \/ Deny(g, c)
  PROVE  LET before == IF c \in Range(recent) THEN GivenOut(bucket[c]) ELSE 0
         IN  /\ c \in Range(recent') /\ bucket'[c] \in Bucket /\ before \in Int
             /\ Admit(g, c) => GivenOut(bucket'[c]) >= before + Interval
             /\ Deny(g, c) => GivenOut(bucket'[c]) >= before
             /\ \/ bucket'[c].last = stamp[g]
                \/ c \in Range(recent) /\ bucket'[c].last = bucket[c].last
             /\ \A x \in Range(recent') : x # c => x \in Range(recent) /\ bucket'[x] = bucket[x]
<1> DEFINE before == IF c \in Range(recent) THEN GivenOut(bucket[c]) ELSE 0
           t == stamp[g]
           b == BucketAt(c, t)
<1>1. t \in Nat /\ b \in Bucket
  BY BucketAtType DEF TypeOK, Admit, Deny
<1>2. before \in Int /\ GivenOut(b) >= before /\ GivenOut(b) \in Int
      /\ (b.last = t \/ (c \in Range(recent) /\ b.last = bucket[c].last))
  <2>0. GivenOut(b) \in Int
    BY <1>1, RefillGives
  <2>1. CASE c \in Range(recent)
    BY <1>1, <2>0, <2>1, BucketAtType, RefillGives
  <2>2. CASE c \notin Range(recent)
    <3> DEFINE f == [tokens |-> Full, last |-> t]
    <3>1. b = Refill(f, t) /\ f \in Bucket
      BY <1>1, <2>2, FullIsNat DEF BucketAt, Bucket
    <3>2. b = f
      BY <3>1, <1>1 DEF Refill
    <3>3. GivenOut(f) = Full + t * Count - Full /\ t * Count \in Nat
      <4>1. \A m, n \in Nat : m * n \in Nat
        OBVIOUS
      <4>2. QED
        BY <1>1, <4>1, FullIsNat DEF GivenOut
    <3>4. GivenOut(f) >= 0
      BY <3>3, FullIsNat
    <3>5. QED
      BY <2>0, <2>2, <3>2, <3>4
  <2>3. QED
    BY <2>1, <2>2
<1> HIDE DEF b
<1> DEFINE taken == [b EXCEPT !.tokens = @ - Interval]
<1>3. CASE Admit(g, c)
  <2>1. b.tokens >= Interval /\ PutBucket(c, taken)
    BY <1>3 DEF Admit, b
  <2>2. taken \in Bucket /\ taken.last = b.last /\ taken.tokens = b.tokens - Interval
    BY <1>1, <2>1, FullIsNat DEF Bucket
  <2>3. GivenOut(taken) = GivenOut(b) + Interval
    <3> DEFINE refilled == b.last * Count
    <3>1. refilled \in Int /\ b.tokens \in Int /\ Full \in Int /\ Interval \in Int
      BY <1>1, FullIsNat DEF Bucket
    <3>2. GivenOut(taken) = Full + refilled - taken.tokens /\ GivenOut(b) = Full + refilled - b.tokens
      BY <2>2 DEF GivenOut
    <3> HIDE DEF refilled
    <3>3. QED
      BY <2>2, <3>1, <3>2
  <2>4. GivenOut(taken) >= before + Interval
    BY <1>2, <2>3, FullIsNat
  <2> HIDE DEF taken
  <2>5. /\ c \in Range(recent') /\ bucket'[c] = taken
        /\ \A x \in Range(recent') : x # c => x \in Range(recent) /\ bucket'[x] = bucket[x]
    BY <2>1, <2>2, PutBucketType
  <2>6. GivenOut(bucket'[c]) >= before
    BY <1>2, <2>3, <2>5, FullIsNat
  <2> HIDE DEF before
  <2>7. QED
    BY <1>2, <2>2, <2>4, <2>5, <2>6 DEF before
<1>4. CASE Deny(g, c) /\ ~Admit(g, c)
  <2>1. PutBucket(c, b)
    BY <1>4 DEF Deny, b
  <2>2. /\ c \in Range(recent') /\ bucket'[c] = b
        /\ \A x \in Range(recent') : x # c => x \in Range(recent) /\ bucket'[x] = bucket[x]
    BY <1>1, <2>1, PutBucketType
  <2> HIDE DEF before
  <2>3. QED
    BY <1>1, <1>2, <1>4, <2>2 DEF before
<1>5. QED
  BY <1>3, <1>4

(* While every client has room in the map, a decision evicts nobody. *)
LEMMA DecisionKeepsAll ==
  ASSUME TypeOK, NEW g \in Callers, NEW c \in Clients, Admit(g, c) \/ Deny(g, c),
         NEW S, IsFiniteSet(S), Cardinality(S) <= MaxIPs, Range(recent) \cup {c} \subseteq S
  PROVE  Range(recent') = Range(recent) \cup {c}
<1>1. recent' = Insert(recent, c, MaxIPs)
  BY DEF Admit, Deny, PutBucket
<1>2. QED
  BY <1>1, RoomLemma, LimiterAssumption DEF TypeOK

-----------------------------------------------------------------------------
(* A history h of admissions is paid for by bucket b. *)
Paid(h, b) ==
  \A i \in 1..Len(h) : (Len(h) - i + 1) * Interval + b.tokens <= Full + (b.last - h[i]) * Count

(* Bucket b is full, or what it lacks was spent by h: from some admission on, *)
(* the admissions and what is left make up a full bucket and every refill.    *)
Spent(h, b) ==
  \/ b.tokens = Full
  \/ \E i \in 1..Len(h) : (Len(h) - i + 1) * Interval + b.tokens >= Full + (b.last - h[i]) * Count

Settled(h, b) == Paid(h, b) /\ Spent(h, b)

HistInv ==
  /\ TypeOK
  /\ granted \in [Clients -> Seq(Nat)]
  /\ \A c \in Range(recent) : Settled(granted[c], bucket[c])

(* A tracked client with a paid history is within its bound. *)
LEMMA HistInvIsBound == HistInv => WindowBound
<1> SUFFICES ASSUME HistInv, NEW c \in Range(recent) PROVE DOMAIN granted[c] = 1..Len(granted[c])
  BY DEF HistInv, WindowBound, Settled, Paid
<1>1. c \in Clients
  BY DEF HistInv, TypeOK, RecencyLists, Range
<1>2. QED
  BY <1>1 DEF HistInv

(* A tracked client without a token has spent them itself. *)
LEMMA HistInvIsEarned == HistInv => DenialIsEarned
<1> SUFFICES ASSUME HistInv, NEW c \in Range(recent), bucket[c].tokens < Interval
             PROVE  \E i \in DOMAIN granted[c] :
                      (Len(granted[c]) - i + 2) * Interval
                        > Full + (bucket[c].last - granted[c][i]) * Count
  BY DEF DenialIsEarned
<1> DEFINE h == granted[c]
           b == bucket[c]
<1>1. h \in Seq(Nat) /\ b \in Bucket /\ Spent(h, b)
  BY DEF HistInv, TypeOK, RecencyLists, Range, Settled
<1>2. b.tokens \in Nat /\ b.last \in Nat /\ Interval \in Nat /\ Full \in Nat /\ Count \in Nat
  BY <1>1, FullIsNat DEF Bucket
<1>3. b.tokens # Full
  BY <1>2, FullIsNat
<1>4. PICK i \in 1..Len(h) : (Len(h) - i + 1) * Interval + b.tokens >= Full + (b.last - h[i]) * Count
  BY <1>1, <1>3 DEF Spent
<1>5. h[i] \in Nat /\ Len(h) - i + 1 \in Int
  BY <1>1
<1> DEFINE spent == (Len(h) - i + 1) * Interval
           refilled == (b.last - h[i]) * Count
<1>6. spent \in Int /\ refilled \in Int
  BY <1>2, <1>5
<1>7. (Len(h) - i + 2) * Interval = spent + Interval
  <2>1. \A n, x \in Int : (n + 1) * x = n * x + x
    OBVIOUS
  <2>2. Len(h) - i + 2 = (Len(h) - i + 1) + 1
    BY <1>1
  <2>3. QED
    BY <1>2, <1>5, <2>1, <2>2
<1>8. spent + b.tokens >= Full + refilled
  BY <1>4
<1> HIDE DEF spent, refilled
<1>9. spent + Interval > Full + refilled
  BY <1>2, <1>6, <1>8
<1>10. QED
  BY <1>1, <1>7, <1>9 DEF refilled

(* A refill pays for the time it covers: the right side of the bound grows   *)
(* by as much as the bucket at most gains.                                   *)
LEMMA RefillStaysPaid ==
  ASSUME NEW h \in Seq(Nat), NEW b \in Bucket, NEW t \in Nat, Paid(h, b)
  PROVE  Paid(h, Refill(b, t))
<1>1. CASE ~(t > b.last)
  BY <1>1 DEF Refill
<1>2. CASE t > b.last
  <2> DEFINE gain == (t - b.last) * Count
             d == Refill(b, t)
  <2>1. b.tokens \in Nat /\ b.last \in Nat /\ Count \in Nat /\ Interval \in Nat /\ Full \in Nat
    BY FullIsNat DEF Bucket
  <2>2. gain \in Int
    BY <2>1
  <2>3. d.last = t /\ d.tokens <= b.tokens + gain /\ d.tokens \in Int
    BY <1>2, <2>1, <2>2 DEF Refill
  <2> HIDE DEF d
  <2> SUFFICES ASSUME NEW i \in 1..Len(h)
               PROVE  (Len(h) - i + 1) * Interval + d.tokens <= Full + (d.last - h[i]) * Count
    BY DEF Paid, d
  <2> DEFINE spent == (Len(h) - i + 1) * Interval
             old == (b.last - h[i]) * Count
  <2>4. h[i] \in Nat /\ spent \in Int /\ old \in Int
    BY <2>1
  <2>5. spent + b.tokens <= Full + old
    BY DEF Paid
  <2>6. (t - h[i]) * Count = old + gain
    <3>1. \A x, y, z, n \in Int : (x - z) * n = (y - z) * n + (x - y) * n
      OBVIOUS
    <3>2. QED
      BY <2>1, <2>4, <3>1
  <2> HIDE DEF spent, old, gain
  <2>7. spent + d.tokens <= Full + (old + gain)
    BY <2>1, <2>2, <2>3, <2>4, <2>5
  <2>8. QED
    BY <2>3, <2>6, <2>7 DEF spent
<1>3. QED
  BY <1>1, <1>2

(* An admission takes one token and is recorded at the bucket's time. *)
LEMMA AdmissionStaysPaid ==
  ASSUME NEW h \in Seq(Nat), NEW b \in Bucket, Paid(h, b), b.tokens >= Interval
  PROVE  Paid(Append(h, b.last), [b EXCEPT !.tokens = @ - Interval])
<1> DEFINE n == Len(h)
           h2 == Append(h, b.last)
           d == [b EXCEPT !.tokens = @ - Interval]
<1>1. b.tokens \in 0..Full /\ b.last \in Nat /\ Count \in Nat /\ Interval \in Nat /\ Full \in Nat
  BY FullIsNat DEF Bucket
<1>2. d.tokens = b.tokens - Interval /\ d.last = b.last
  BY DEF Bucket
<1>3. n \in Nat /\ Len(h2) = n + 1 /\ h2[n + 1] = b.last /\ \A i \in 1..n : h2[i] = h[i]
  BY <1>1
<1> HIDE DEF h2, d
<1> SUFFICES ASSUME NEW i \in 1..(n + 1)
             PROVE  ((n + 1) - i + 1) * Interval + d.tokens <= Full + (d.last - h2[i]) * Count
  BY <1>3 DEF Paid, h2, d
<1>4. CASE i = n + 1
  <2>1. ((n + 1) - i + 1) * Interval = Interval /\ (d.last - h2[i]) * Count = 0
    BY <1>1, <1>2, <1>3, <1>4
  <2>2. QED
    BY <1>1, <1>2, <2>1
<1>5. CASE i # n + 1
  <2> DEFINE spent == (n - i + 1) * Interval
             paid == (b.last - h[i]) * Count
  <2>1. i \in 1..n /\ h[i] \in Nat /\ spent \in Int /\ paid \in Int
    BY <1>1, <1>3, <1>5
  <2>2. spent + b.tokens <= Full + paid
    BY <2>1 DEF Paid
  <2>3. ((n + 1) - i + 1) * Interval = spent + Interval
    BY <1>1, <1>3
  <2>4. (d.last - h2[i]) * Count = paid
    BY <1>2, <1>3, <2>1
  <2> HIDE DEF spent, paid
  <2>5. QED
    BY <1>1, <1>2, <2>1, <2>2, <2>3, <2>4
<1>6. QED
  BY <1>4, <1>5

(* A refill that stays below the cap is on both sides of the balance. *)
LEMMA RefillStaysSpent ==
  ASSUME NEW h \in Seq(Nat), NEW b \in Bucket, NEW t \in Nat, Spent(h, b)
  PROVE  Spent(h, Refill(b, t))
<1>1. CASE ~(t > b.last)
  BY <1>1 DEF Refill
<1>2. CASE t > b.last
  <2> DEFINE gain == (t - b.last) * Count
             d == Refill(b, t)
  <2>1. b.tokens \in Nat /\ b.last \in Nat /\ Count \in Nat /\ Interval \in Nat /\ Full \in Nat
    BY FullIsNat DEF Bucket
  <2>2. gain \in Nat
    <3>1. \A m, n \in Nat : m * n \in Nat
      OBVIOUS
    <3>2. t - b.last \in Nat
      BY <1>2, <2>1
    <3>3. QED
      BY <2>1, <3>1, <3>2
  <2>3. d.last = t /\ (d.tokens = Full \/ (d.tokens = b.tokens + gain /\ d.tokens < Full))
    BY <1>2, <2>1, <2>2 DEF Refill
  <2> HIDE DEF d
  <2>4. CASE d.tokens = Full
    BY <2>4 DEF Spent, d
  <2>5. CASE d.tokens = b.tokens + gain /\ d.tokens < Full
    <3>0. b.tokens # Full
      BY <2>1, <2>2, <2>5
    <3>1. PICK i \in 1..Len(h) :
            (Len(h) - i + 1) * Interval + b.tokens >= Full + (b.last - h[i]) * Count
      BY <3>0 DEF Spent
    <3> DEFINE spent == (Len(h) - i + 1) * Interval
               old == (b.last - h[i]) * Count
    <3>2. h[i] \in Nat /\ spent \in Int /\ old \in Int
      BY <2>1
    <3>3. (t - h[i]) * Count = old + gain
      <4>1. \A x, y, z, n \in Int : (x - z) * n = (y - z) * n + (x - y) * n
        OBVIOUS
      <4>2. QED
        BY <2>1, <3>2, <4>1
    <3>4. spent + b.tokens >= Full + old
      BY <3>1
    <3> HIDE DEF spent, old, gain
    <3>5. spent + d.tokens >= Full + (old + gain)
      BY <2>1, <2>2, <2>5, <3>2, <3>4
    <3>6. spent + d.tokens >= Full + (d.last - h[i]) * Count
      BY <2>3, <3>3, <3>5
    <3>7. QED
      BY <3>6 DEF Spent, d, spent
  <2>6. QED
    BY <2>3, <2>4, <2>5
<1>3. QED
  BY <1>1, <1>2

(* An admission from a full bucket starts the balance anew, any other one   *)
(* takes from the tokens what it adds to the admissions.                    *)
LEMMA AdmissionStaysSpent ==
  ASSUME NEW h \in Seq(Nat), NEW b \in Bucket, Spent(h, b), b.tokens >= Interval
  PROVE  Spent(Append(h, b.last), [b EXCEPT !.tokens = @ - Interval])
<1> DEFINE n == Len(h)
           h2 == Append(h, b.last)
           d == [b EXCEPT !.tokens = @ - Interval]
<1>1. b.tokens \in 0..Full /\ b.last \in Nat /\ Count \in Nat /\ Interval \in Nat /\ Full \in Nat
  BY FullIsNat DEF Bucket
<1>2. d.tokens = b.tokens - Interval /\ d.last = b.last
  BY DEF Bucket
<1>3. n \in Nat /\ Len(h2) = n + 1 /\ h2[n + 1] = b.last /\ \A i \in 1..n : h2[i] = h[i]
  BY <1>1
<1> HIDE DEF h2, d
<1> SUFFICES \E i \in 1..(n + 1) :
               ((n + 1) - i + 1) * Interval + d.tokens >= Full + (d.last - h2[i]) * Count
  BY <1>3 DEF Spent, h2, d
<1>4. CASE b.tokens = Full
  <2>1. ((n + 1) - (n + 1) + 1) * Interval = Interval /\ (d.last - h2[n + 1]) * Count = 0
    BY <1>1, <1>2, <1>3
  <2>2. n + 1 \in 1..(n + 1)
    BY <1>3
  <2>3. QED
    BY <1>1, <1>2, <1>4, <2>1, <2>2
<1>5. CASE b.tokens # Full
  <2>1. PICK i \in 1..n : (n - i + 1) * Interval + b.tokens >= Full + (b.last - h[i]) * Count
    BY <1>5 DEF Spent
  <2> DEFINE spent == (n - i + 1) * Interval
             refilled == (b.last - h[i]) * Count
  <2>2. i \in 1..(n + 1) /\ h[i] \in Nat /\ spent \in Int /\ refilled \in Int
    BY <1>1, <1>3
  <2>3. spent + b.tokens >= Full + refilled
    BY <2>1
  <2>4. ((n + 1) - i + 1) * Interval = spent + Interval
    BY <1>1, <1>3
  <2>5. (d.last - h2[i]) * Count = refilled
    BY <1>2, <1>3
  <2> HIDE DEF spent, refilled
  <2>6. ((n + 1) - i + 1) * Interval + d.tokens >= Full + (d.last - h2[i]) * Count
    BY <1>1, <1>2, <2>2, <2>3, <2>4, <2>5
  <2>7. QED
    BY <2>2, <2>6
<1>6. QED
  BY <1>4, <1>5

(* One decision of allowAt keeps every bucket's history settled. *)
LEMMA DecisionStaysSettled ==
  ASSUME HistInv, NEW g \in Callers, NEW c \in Clients, HistAdmit(g, c) \/ HistDeny(g, c)
  PROVE  HistInv'
<1> DEFINE t == stamp[g]
           b == BucketAt(c, t)
           h == Granted(c)
<1>1. TypeOK /\ t \in Nat /\ now' = now /\ (Admit(g, c) \/ Deny(g, c))
  BY DEF HistInv, TypeOK, HistAdmit, HistDeny, Admit, Deny
<1>2. b \in Bucket /\ h \in Seq(Nat)
  BY <1>1, BucketAtType DEF HistInv, Granted
<1>3. Settled(h, b)
  <2>1. CASE c \in Range(recent)
    <3>1. h = granted[c] /\ bucket[c] \in Bucket /\ b = Refill(bucket[c], t)
      BY <1>1, <2>1, BucketAtType DEF Granted
    <3>2. QED
      BY <1>1, <1>2, <2>1, <3>1, RefillStaysPaid, RefillStaysSpent DEF HistInv, Settled
  <2>2. CASE c \notin Range(recent)
    <3>1. h = <<>> /\ b = Refill([tokens |-> Full, last |-> t], t)
      BY <2>2 DEF Granted, BucketAt
    <3>2. b.tokens = Full
      BY <1>1, <3>1 DEF Refill
    <3>3. QED
      BY <3>1, <3>2 DEF Settled, Paid, Spent
  <2>3. QED
    BY <2>1, <2>2
<1>4. \E d \in Bucket : \E h2 \in Seq(Nat) :
         PutBucket(c, d) /\ granted' = [granted EXCEPT ![c] = h2] /\ Settled(h2, d)
  <2>1. CASE HistAdmit(g, c)
    <3> DEFINE d == [b EXCEPT !.tokens = @ - Interval]
    <3>1. b.tokens >= Interval /\ PutBucket(c, d)
      BY <2>1 DEF HistAdmit, Admit
    <3>2. d \in Bucket /\ d.last = b.last
      <4> HIDE DEF b
      <4>1. QED
        BY <1>2, <3>1, FullIsNat DEF Bucket
    <3>3. c \in Range(recent') /\ bucket'[c] = d
      BY <1>1, <3>1, <3>2, PutBucketType
    <3>4. granted' = [granted EXCEPT ![c] = Append(h, b.last)]
      BY <2>1, <3>2, <3>3 DEF HistAdmit
    <3> HIDE DEF b, h
    <3>5. Append(h, b.last) \in Seq(Nat) /\ Settled(Append(h, b.last), d)
      BY <1>2, <1>3, <3>1, AdmissionStaysPaid, AdmissionStaysSpent DEF Bucket, Settled
    <3>6. QED
      BY <3>1, <3>2, <3>4, <3>5
  <2>2. CASE HistDeny(g, c)
    <3>1. PutBucket(c, b) /\ granted' = [granted EXCEPT ![c] = h]
      BY <2>2 DEF HistDeny, Deny
    <3>2. QED
      BY <1>2, <1>3, <3>1
  <2>3. QED
    BY <2>1, <2>2
<1>5. PICK d \in Bucket, h2 \in Seq(Nat) :
         PutBucket(c, d) /\ granted' = [granted EXCEPT ![c] = h2] /\ Settled(h2, d)
  BY <1>4
<1>6. /\ c \in Range(recent') /\ bucket'[c] = d
      /\ \A x \in Range(recent') : x # c => x \in Range(recent) /\ bucket'[x] = bucket[x]
  BY <1>1, <1>5, PutBucketType
<1>7. TypeOK'
  BY <1>1, DecisionTypeOK
<1>8. granted' \in [Clients -> Seq(Nat)]
  BY <1>5 DEF HistInv
<1>9. ASSUME NEW x \in Range(recent') PROVE Settled(granted'[x], bucket'[x])
  <2>1. x \in Clients
    BY <1>7 DEF TypeOK, RecencyLists, Range
  <2>2. CASE x = c
    BY <1>5, <1>6, <2>1, <2>2 DEF HistInv
  <2>3. CASE x # c
    BY <1>5, <1>6, <2>1, <2>3 DEF HistInv
  <2>4. QED
    BY <2>2, <2>3
<1>10. QED
  BY <1>7, <1>8, <1>9 DEF HistInv, Settled, Paid, Spent

(* Every bucket is settled at the start and after every step. *)
LEMMA HistInvIsInductive ==
  /\ HistInit => HistInv
  /\ HistInv /\ [HistNext]_histVars => HistInv'
<1>1. HistInit => HistInv
  <2> SUFFICES ASSUME HistInit PROVE HistInv
    OBVIOUS
  <2>1. Range(recent) = {}
    BY DEF HistInit, Init, Range
  <2>2. QED
    BY <2>1, InitTypeOK DEF HistInit, HistInv
<1>2. HistInv /\ [HistNext]_histVars => HistInv'
  <2> SUFFICES ASSUME HistInv, [HistNext]_histVars PROVE HistInv'
    OBVIOUS
  <2>1. CASE UNCHANGED histVars
    BY <2>1 DEF HistInv, TypeOK, histVars, Settled, Paid, Spent
  <2>2. CASE HistTick
    BY <2>2, StepTypeOK DEF HistInv, HistTick, Next, Tick, limiterVars, Settled, Paid, Spent
  <2>3. ASSUME NEW g \in Callers, HistReadClock(g) PROVE HistInv'
    BY <2>3, StepTypeOK DEF HistInv, HistReadClock, Next, ReadClock, Settled, Paid, Spent
  <2>4. QED
    BY <2>1, <2>2, <2>3, DecisionStaysSettled DEF HistNext
<1>3. QED
  BY <1>1, <1>2

(* However goroutines are delayed between reading the clock and taking the   *)
(* lock, what a bucket admits from any of its admissions on is one full      *)
(* bucket and the refills since.                                             *)
THEOREM NoTokensMinted == HistSpec => []WindowBound
  BY HistInvIsBound, HistInvIsInductive, PTL DEF HistSpec

(* No client is denied that has not spent a full bucket and all its refills, *)
(* short of one token, on admissions of its own.                             *)
THEOREM DenialsAreEarned == HistSpec => []DenialIsEarned
  BY HistInvIsEarned, HistInvIsInductive, PTL DEF HistSpec
=============================================================================

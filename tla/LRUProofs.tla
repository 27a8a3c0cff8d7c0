----------------------------- MODULE LRUProofs -----------------------------
(***************************************************************************)
(* What the recency-list operators of LRU return, for every set of keys    *)
(* and every capacity.                                                     *)
(***************************************************************************)
EXTENDS LRU, SequenceTheorems, FiniteSetTheorems, TLAPS

(* Removing a place keeps the order of the others. *)
LEMMA RemoveLemma ==
  ASSUME NEW K, NEW s \in Seq(K), NEW i \in 1..Len(s)
  PROVE  /\ RemoveAt(s, i) \in Seq(K)
         /\ Len(RemoveAt(s, i)) = Len(s) - 1
         /\ \A j \in 1..(Len(s) - 1) : RemoveAt(s, i)[j] = IF j < i THEN s[j] ELSE s[j+1]
<1> DEFINE t == RemoveAt(s, i)
           lo == SubSeq(s, 1, i-1)
           hi == SubSeq(s, i+1, Len(s))
<1>2. /\ lo \in Seq(K) /\ Len(lo) = i - 1
      /\ \A j \in 1..(i-1) : lo[j] = s[j]
      /\ hi \in Seq(K) /\ Len(hi) = Len(s) - i
      /\ \A j \in 1..(Len(s) - i) : hi[j] = s[i + j]
  <2>1. /\ lo \in Seq(K) /\ Len(lo) = i - 1
        /\ \A j \in 1..(i-1) : lo[j] = s[j]
    OBVIOUS
  <2>2. /\ hi \in Seq(K) /\ Len(hi) = Len(s) - i
        /\ \A j \in 1..(Len(s) - i) : hi[j] = s[i + j]
    OBVIOUS
  <2>3. QED
    BY <2>1, <2>2
<1>3. t = lo \o hi
  BY DEF RemoveAt
<1> HIDE DEF lo, hi, t
<1>4. /\ t \in Seq(K)
      /\ Len(t) = Len(lo) + Len(hi)
      /\ \A j \in 1..(Len(lo) + Len(hi)) : t[j] = IF j <= Len(lo) THEN lo[j] ELSE hi[j - Len(lo)]
  BY <1>2, <1>3, ConcatProperties, Zenon
<1>5. Len(t) = Len(s) - 1
  BY <1>2, <1>4
<1>6. ASSUME NEW j \in 1..(Len(s) - 1)
      PROVE  t[j] = IF j < i THEN s[j] ELSE s[j+1]
  <2>0. j \in 1..(Len(lo) + Len(hi))
    BY <1>2
  <2>1. CASE j < i
    <3>1. t[j] = lo[j] /\ j \in 1..(i-1)
      BY <1>2, <1>4, <2>0, <2>1
    <3>2. QED
      BY <1>2, <2>1, <3>1
  <2>2. CASE ~(j < i)
    <3>1. /\ t[j] = hi[j - (i - 1)] /\ j - (i - 1) \in 1..(Len(s) - i)
          /\ i + (j - (i - 1)) = j + 1
      BY <1>2, <1>4, <2>0, <2>2
    <3>2. QED
      BY <1>2, <2>2, <3>1
  <2>3. QED
    BY <2>1, <2>2
<1>7. QED
  BY <1>4, <1>5, <1>6 DEF t

(* Removing a key leaves a recency list of the other keys, one shorter when *)
(* the key was there: what lru.Remove does to the eviction list.            *)
LEMMA WithoutLemma ==
  ASSUME NEW K, NEW s \in Seq(K), IsInjective(s), NEW k
  PROVE  /\ Without(s, k) \in Seq(K)
         /\ IsInjective(Without(s, k))
         /\ Range(Without(s, k)) = Range(s) \ {k}
         /\ Len(Without(s, k)) = IF k \in Range(s) THEN Len(s) - 1 ELSE Len(s)
<1>1. CASE k \notin Range(s)
  BY <1>1 DEF Without, Range
<1>2. CASE k \in Range(s)
  <2> DEFINE i == CHOOSE j \in DOMAIN s : s[j] = k
             t == RemoveAt(s, i)
  <2>1. i \in 1..Len(s) /\ s[i] = k
    BY <1>2 DEF Range
  <2> HIDE DEF i
  <2>3. /\ t \in Seq(K)
        /\ Len(t) = Len(s) - 1
        /\ \A j \in 1..(Len(s) - 1) : t[j] = IF j < i THEN s[j] ELSE s[j+1]
    BY <2>1, RemoveLemma
  <2> HIDE DEF t
  <2>4. IsInjective(t)
    <3> SUFFICES ASSUME NEW j \in 1..(Len(s) - 1), NEW l \in 1..(Len(s) - 1),
                        t[j] = t[l]
                 PROVE  j = l
      BY <2>3 DEF IsInjective
    <3> DEFINE u == IF j < i THEN j ELSE j + 1
               v == IF l < i THEN l ELSE l + 1
    <3>1. t[j] = s[u] /\ t[l] = s[v] /\ u \in 1..Len(s) /\ v \in 1..Len(s)
      BY <2>1, <2>3
    <3> HIDE DEF u, v
    <3>2. \A x, y \in 1..Len(s) : s[x] = s[y] => x = y
      BY DEF IsInjective
    <3>3. u = v
      BY <3>1, <3>2, Zenon
    <3>4. QED
      BY <2>1, <3>3 DEF u, v
  <2>5. ASSUME NEW x PROVE x \in Range(t) <=> x \in Range(s) \ {k}
    <3>1. ASSUME x \in Range(t) PROVE x \in Range(s) \ {k}
      <4>1. PICK j \in 1..(Len(s) - 1) : x = t[j]
        BY <3>1, <2>3 DEF Range
      <4>2. CASE j < i
        BY <4>1, <4>2, <2>1, <2>3 DEF Range, IsInjective
      <4>3. CASE ~(j < i)
        <5>1. j + 1 \in 1..Len(s) /\ x = s[j+1] /\ j + 1 # i
          BY <4>1, <4>3, <2>1, <2>3
        <5>2. QED
          BY <5>1, <2>1 DEF Range, IsInjective
      <4>4. QED
        BY <4>2, <4>3
    <3>2. ASSUME x \in Range(s) \ {k} PROVE x \in Range(t)
      <4>1. PICK j \in 1..Len(s) : x = s[j]
        BY <3>2 DEF Range
      <4>2. j # i
        BY <4>1, <2>1, <3>2
      <4>3. CASE j < i
        <5>1. j \in 1..Len(t) /\ t[j] = x
          BY <4>1, <4>3, <2>1, <2>3
        <5>2. QED
          BY <5>1, <2>3 DEF Range
      <4>4. CASE j > i
        <5>1. j - 1 \in 1..Len(t) /\ t[j - 1] = x
          BY <4>1, <4>4, <2>1, <2>3
        <5>2. QED
          BY <5>1, <2>3 DEF Range
      <4>5. QED
        BY <4>1, <4>2, <4>3, <4>4, <2>1
    <3>3. QED
      BY <3>1, <3>2
  <2>6. Without(s, k) = t
    BY <1>2 DEF Without, t, i
  <2>7. QED
    BY <1>2, <2>3, <2>4, <2>5, <2>6
<1>3. QED
  BY <1>1, <1>2

(* A key just looked up becomes the most recently used one and nothing is  *)
(* lost: lru.Get never evicts.                                             *)
LEMMA TouchLemma ==
  ASSUME NEW K, NEW cap, NEW s \in RecencyLists(K, cap), NEW k, cap \in Nat
  PROVE  /\ Touch(s, k) \in RecencyLists(K, cap)
         /\ Range(Touch(s, k)) = Range(s)
<1> DEFINE w == Without(s, k)
<1>1. s \in Seq(K) /\ IsInjective(s) /\ Len(s) <= cap
  BY DEF RecencyLists
<1>2. CASE k \notin Range(s)
  BY <1>2 DEF Touch
<1>3. CASE k \in Range(s)
  <2>1. /\ w \in Seq(K) /\ IsInjective(w)
        /\ Range(w) = Range(s) \ {k}
        /\ Len(w) = Len(s) - 1
    BY <1>1, <1>3, WithoutLemma
  <2> HIDE DEF w
  <2>2. k \in K
    BY <1>1, <1>3 DEF Range
  <2>3. /\ Append(w, k) \in Seq(K)
        /\ Len(Append(w, k)) = Len(s)
        /\ \A j \in 1..Len(s) : Append(w, k)[j] = IF j < Len(s) THEN w[j] ELSE k
    BY <2>1, <2>2, <1>1
  <2>4. IsInjective(Append(w, k))
    BY <2>1, <2>3, <1>1 DEF IsInjective, Range
  <2>5. Range(Append(w, k)) = Range(w) \cup {k}
    BY <2>1, <2>2, <2>3 DEF Range
  <2>6. Touch(s, k) = Append(w, k)
    BY <1>3 DEF Touch, w
  <2>7. QED
    BY <1>1, <1>3, <2>1, <2>3, <2>4, <2>5, <2>6 DEF RecencyLists
<1>4. QED
  BY <1>2, <1>3

(* The list before an eviction: k at the recent end, each other key once. *)
LEMMA AppendLemma ==
  ASSUME NEW K, NEW s \in Seq(K), IsInjective(s), NEW k \in K
  PROVE  LET t == Append(Without(s, k), k)
         IN  /\ t \in Seq(K) /\ IsInjective(t) /\ Range(t) = Range(s) \cup {k}
             /\ Len(t) \in 1..(Len(s) + 1) /\ t[Len(t)] = k
<1> DEFINE w == Without(s, k)
           t == Append(w, k)
<1>2. /\ w \in Seq(K) /\ IsInjective(w)
      /\ Range(w) = Range(s) \ {k}
      /\ Len(w) <= Len(s)
  BY WithoutLemma
<1> HIDE DEF w
<1>3. /\ t \in Seq(K)
      /\ Len(t) = Len(w) + 1
      /\ \A j \in 1..Len(t) : t[j] = IF j <= Len(w) THEN w[j] ELSE k
  BY <1>2
<1>4. t[Len(t)] = k /\ Len(t) \in 1..(Len(s) + 1)
  BY <1>2, <1>3
<1> HIDE DEF t
<1>5. IsInjective(t)
  <2>1. \A j \in 1..Len(w) : w[j] # k
    BY <1>2 DEF Range
  <2>2. \A i, j \in 1..Len(w) : w[i] = w[j] => i = j
    BY <1>2 DEF IsInjective
  <2>3. DOMAIN t = 1..(Len(w) + 1) /\ Len(w) \in Nat
    BY <1>2, <1>3
  <2>4. QED
    BY <1>3, <2>1, <2>2, <2>3 DEF IsInjective
<1>6. Range(t) = Range(w) \cup {k}
  <2>1. \A j \in 1..Len(w) : t[j] = w[j] /\ j \in 1..Len(t)
    BY <1>2, <1>3
  <2>2. Range(t) \subseteq Range(w) \cup {k}
    BY <1>2, <1>3 DEF Range
  <2>3. k \in Range(t)
    BY <1>3, <1>4 DEF Range
  <2>4. Range(w) \subseteq Range(t)
    BY <1>2, <1>3, <2>1 DEF Range
  <2>5. QED
    BY <2>2, <2>3, <2>4
<1>7. Range(t) = Range(s) \cup {k}
  BY <1>2, <1>6
<1>8. QED
  BY <1>3, <1>4, <1>5, <1>7 DEF t, w

(* Adding a key keeps the list within its capacity, lists the key, and     *)
(* pushes out at most the key at the old end: lru.Add.                     *)
LEMMA InsertLemma ==
  ASSUME NEW K, NEW cap \in Nat \ {0}, NEW s \in RecencyLists(K, cap), NEW k \in K
  PROVE  /\ Insert(s, k, cap) \in RecencyLists(K, cap)
         /\ k \in Range(Insert(s, k, cap))
         /\ Range(Insert(s, k, cap)) \subseteq Range(s) \cup {k}
<1> DEFINE t == Append(Without(s, k), k)
<1>1. s \in Seq(K) /\ IsInjective(s) /\ Len(s) <= cap
  BY DEF RecencyLists
<1>2. /\ t \in Seq(K) /\ IsInjective(t) /\ Range(t) = Range(s) \cup {k}
      /\ Len(t) \in 1..(Len(s) + 1) /\ t[Len(t)] = k
  BY <1>1, AppendLemma
<1>3. Insert(s, k, cap) = IF Len(t) > cap THEN Tail(t) ELSE t
  BY DEF Insert
<1> HIDE DEF t
<1>4. CASE Len(t) <= cap
  BY <1>2, <1>3, <1>4 DEF RecencyLists
<1>5. CASE Len(t) > cap
  <2>1. Insert(s, k, cap) = Tail(t)
    BY <1>3, <1>5
  <2>2. /\ Tail(t) \in Seq(K)
        /\ Len(Tail(t)) = Len(t) - 1
        /\ Len(t) = cap + 1
        /\ \A j \in 1..(Len(t) - 1) : Tail(t)[j] = t[j + 1]
    BY <1>1, <1>2, <1>5
  <2>3. IsInjective(Tail(t))
    BY <1>2, <2>2 DEF IsInjective
  <2>4. Tail(t)[cap] = k /\ cap \in 1..Len(Tail(t))
    BY <1>2, <2>2
  <2>5. k \in Range(Tail(t))
    <3>1. cap \in DOMAIN Tail(t)
      BY <2>2, <2>4
    <3>2. QED
      BY <2>4, <3>1 DEF Range
  <2>6. Range(Tail(t)) \subseteq Range(t)
    <3>1. \A j \in DOMAIN Tail(t) : j + 1 \in DOMAIN t /\ Tail(t)[j] = t[j + 1]
      BY <1>2, <2>2
    <3>2. QED
      BY <3>1 DEF Range
  <2>7. QED
    BY <1>2, <2>1, <2>2, <2>3, <2>5, <2>6 DEF RecencyLists
<1>6. QED
  BY <1>1, <1>2, <1>4, <1>5

(* A list of distinct keys is no longer than any finite set that has them. *)
LEMMA LengthLemma ==
  ASSUME NEW K, NEW s \in Seq(K), IsInjective(s), NEW S, IsFiniteSet(S), Range(s) \subseteq S
  PROVE  Len(s) <= Cardinality(S)
<1>1. Len(s) \in Nat /\ DOMAIN s = 1..Len(s) /\ s \in [1..Len(s) -> S]
  BY DEF Range
<1>2. s \in Injection(1..Len(s), S)
  BY <1>1 DEF Injection, IsInjective
<1>3. Cardinality(1..Len(s)) <= Cardinality(S)
  BY <1>2, FS_Injection
<1>4. Cardinality(1..Len(s)) = Len(s)
  BY <1>1, FS_Interval
<1>5. QED
  BY <1>3, <1>4

(* While there are no more keys than places, adding one pushes none out. *)
LEMMA RoomLemma ==
  ASSUME NEW K, NEW cap \in Nat \ {0}, NEW s \in RecencyLists(K, cap), NEW k \in K,
         NEW S, IsFiniteSet(S), Cardinality(S) <= cap, Range(s) \cup {k} \subseteq S
  PROVE  Range(Insert(s, k, cap)) = Range(s) \cup {k}
<1> DEFINE t == Append(Without(s, k), k)
<1>1. s \in Seq(K) /\ IsInjective(s)
  BY DEF RecencyLists
<1>2. t \in Seq(K) /\ IsInjective(t) /\ Range(t) = Range(s) \cup {k} /\ Len(t) \in Nat
  BY <1>1, AppendLemma
<1>3. Len(t) <= Cardinality(S) /\ Cardinality(S) \in Nat
  BY <1>2, LengthLemma, FS_CardinalityType
<1>4. Insert(s, k, cap) = IF Len(t) > cap THEN Tail(t) ELSE t
  BY DEF Insert
<1> HIDE DEF t
<1>5. Insert(s, k, cap) = t
  BY <1>2, <1>3, <1>4
<1>6. QED
  BY <1>2, <1>5

-----------------------------------------------------------------------------
(* The keys used more recently than k. *)
After(s, k) == {s[j] : j \in {j \in DOMAIN s : \E i \in DOMAIN s : i < j /\ s[i] = k}}

(* Removing a key makes no other key more recent than one it was not. *)
LEMMA WithoutOrder ==
  ASSUME NEW K, NEW s \in Seq(K), NEW k, NEW y
  PROVE  After(Without(s, k), y) \subseteq After(s, y)
<1>1. CASE k \notin Range(s)
  BY <1>1 DEF Without
<1>2. CASE k \in Range(s)
  <2> DEFINE m == CHOOSE j \in DOMAIN s : s[j] = k
             t == RemoveAt(s, m)
  <2>1. m \in 1..Len(s)
    BY <1>2 DEF Range
  <2> HIDE DEF m
  <2>2. /\ t \in Seq(K) /\ Len(t) = Len(s) - 1
        /\ \A j \in 1..(Len(s) - 1) : t[j] = IF j < m THEN s[j] ELSE s[j+1]
    BY <2>1, RemoveLemma
  <2> HIDE DEF t
  <2>d. Without(s, k) = t
    BY <1>2 DEF Without, t, m
  <2>e. DOMAIN t = 1..Len(t)
    BY <2>2
  <2>3. SUFFICES ASSUME NEW i \in 1..Len(t), NEW j \in 1..Len(t), i < j, t[i] = y
                 PROVE  t[j] \in After(s, y)
    BY <2>d, <2>e DEF After
  <2> DEFINE u == IF i < m THEN i ELSE i + 1
             v == IF j < m THEN j ELSE j + 1
  <2>4. /\ t[i] = s[u] /\ t[j] = s[v]
        /\ u \in 1..Len(s) /\ v \in 1..Len(s) /\ u < v
    BY <2>1, <2>2, <2>3
  <2> HIDE DEF u, v
  <2>5. QED
    BY <2>3, <2>4 DEF After
<1>3. QED
  BY <1>1, <1>2

(* Putting k at the recent end makes k, and no other key, more recent. *)
LEMMA AppendOrder ==
  ASSUME NEW K, NEW s \in Seq(K), IsInjective(s), NEW k \in K
  PROVE  LET t == Append(Without(s, k), k)
         IN  /\ After(t, k) = {}
             /\ \A y : y # k => After(t, y) \subseteq After(s, y) \cup {k}
<1> DEFINE w == Without(s, k)
           t == Append(w, k)
<1>1. w \in Seq(K) /\ k \notin Range(w)
  BY WithoutLemma
<1>2. \A y : After(w, y) \subseteq After(s, y)
  BY WithoutOrder
<1> HIDE DEF w
<1>3. /\ t \in Seq(K) /\ Len(t) = Len(w) + 1 /\ DOMAIN t = 1..(Len(w) + 1)
      /\ DOMAIN w = 1..Len(w) /\ Len(w) \in Nat
      /\ \A j \in 1..Len(t) : t[j] = IF j <= Len(w) THEN w[j] ELSE k
  BY <1>1
<1> HIDE DEF t
<1>4. After(t, k) = {}
  <2> SUFFICES ASSUME NEW i \in 1..Len(t), NEW j \in 1..Len(t), i < j, t[i] = k
               PROVE  FALSE
    BY <1>3 DEF After
  <2>1. i \in 1..Len(w) /\ w[i] = k
    BY <1>3
  <2>2. QED
    BY <1>1, <1>3, <2>1 DEF Range
<1>5. ASSUME NEW y, y # k PROVE After(t, y) \subseteq After(w, y) \cup {k}
  <2> SUFFICES ASSUME NEW i \in 1..Len(t), NEW j \in 1..Len(t), i < j, t[i] = y, t[j] # k
               PROVE  t[j] \in After(w, y)
    BY <1>3 DEF After
  <2>1. i \in DOMAIN w /\ j \in DOMAIN w /\ w[i] = y /\ t[j] = w[j]
    BY <1>3
  <2>2. QED
    BY <2>1 DEF After
<1>6. QED
  BY <1>2, <1>4, <1>5 DEF t, w

(* Get and Add make the key they are called with the most recent one. *)
LEMMA UseOrder ==
  ASSUME NEW K, NEW s \in Seq(K), IsInjective(s), NEW k \in K, NEW cap \in Nat,
         NEW t, (t = Touch(s, k) /\ k \in Range(s)) \/ t = Insert(s, k, cap)
  PROVE  /\ After(t, k) = {}
         /\ \A y : y # k => After(t, y) \subseteq After(s, y) \cup {k}
<1> DEFINE l == Append(Without(s, k), k)
<1>1. /\ After(l, k) = {}
      /\ \A y : y # k => After(l, y) \subseteq After(s, y) \cup {k}
  BY AppendOrder
<1>2. l \in Seq(K) /\ Len(l) \in 1..(Len(s) + 1)
  BY AppendLemma
<1>3. t = l \/ t = Tail(l)
  BY DEF Touch, Insert
<1> HIDE DEF l
<1>4. \A y : After(Tail(l), y) \subseteq After(l, y)
  <2>1. /\ Len(Tail(l)) = Len(l) - 1 /\ DOMAIN Tail(l) = 1..(Len(l) - 1)
        /\ \A j \in 1..(Len(l) - 1) : Tail(l)[j] = l[j + 1] /\ j + 1 \in DOMAIN l
    BY <1>2
  <2>2. \A i, j \in 1..(Len(l) - 1) : i < j => i + 1 < j + 1
    OBVIOUS
  <2>3. QED
    BY <2>1, <2>2 DEF After
<1>5. QED
  BY <1>1, <1>3, <1>4

(* The key that Add pushes out is one after which all the others were used: *)
(* the list is full of them and of the key added.                           *)
LEMMA EvictLemma ==
  ASSUME NEW K, NEW cap \in Nat \ {0}, NEW s \in RecencyLists(K, cap), NEW k \in K,
         NEW x \in Range(s), x \notin Range(Insert(s, k, cap))
  PROVE  /\ x # k /\ Len(Insert(s, k, cap)) = cap
         /\ Range(Insert(s, k, cap)) \subseteq After(s, x) \cup {k}
<1> DEFINE w == Without(s, k)
           t == Append(w, k)
<1>1. s \in Seq(K) /\ IsInjective(s) /\ Len(s) <= cap /\ Len(s) \in Nat
  BY DEF RecencyLists
<1>2. /\ w \in Seq(K) /\ Len(w) = IF k \in Range(s) THEN Len(s) - 1 ELSE Len(s)
  BY <1>1, WithoutLemma
<1>3. Range(t) = Range(s) \cup {k}
  BY <1>1, AppendLemma
<1>4. x # k
  BY InsertLemma
<1>5. Insert(s, k, cap) = IF Len(t) > cap THEN Tail(t) ELSE t
  BY DEF Insert
<1>6. Len(t) > cap /\ Insert(s, k, cap) = Tail(t)
  BY <1>3, <1>5
<1>7. Len(t) = Len(w) + 1
  BY <1>2
<1>8. Len(s) = cap /\ k \notin Range(s)
  BY <1>1, <1>2, <1>6, <1>7
<1>9. w = s
  BY <1>8 DEF Without
<1> HIDE DEF w
<1>10. /\ Len(Tail(t)) = cap /\ DOMAIN Tail(t) = 1..cap
       /\ \A j \in 1..cap : Tail(t)[j] = IF j < cap THEN s[j + 1] ELSE k
  BY <1>1, <1>8, <1>9
<1>11. x = s[1]
  <2>1. PICK j \in 1..cap : x = s[j]
    BY <1>1, <1>8 DEF Range
  <2>2. ASSUME j # 1 PROVE FALSE
    <3>1. j - 1 \in 1..cap /\ j - 1 < cap /\ (j - 1) + 1 = j
      BY <2>1, <2>2
    <3>2. Tail(t)[j - 1] = s[j]
      BY <1>10, <3>1
    <3>3. QED
      BY <1>6, <1>10, <2>1, <3>1, <3>2 DEF Range
  <2>3. QED
    BY <2>1, <2>2
<1>12. ASSUME NEW j \in 1..cap PROVE Tail(t)[j] \in After(s, x) \cup {k}
  <2>1. CASE j < cap
    <3>1. Tail(t)[j] = s[j + 1] /\ j + 1 \in DOMAIN s /\ 1 \in DOMAIN s /\ 1 < j + 1
      BY <1>1, <1>8, <1>10, <2>1
    <3>2. QED
      BY <1>11, <3>1 DEF After
  <2>2. CASE ~(j < cap)
    BY <1>10, <2>2
  <2>3. QED
    BY <2>1, <2>2
<1>13. QED
  BY <1>4, <1>6, <1>10, <1>12 DEF Range
=============================================================================

----------------------------- MODULE TabPoolProofs -----------------------------
(***************************************************************************)
(* The pool for any tabs, addresses, setups and limit, in two invariants.  *)
(* A well formed pool has the code's types, and a queue that holds each    *)
(* live view once; with that, eviction finds its victim and the limit is   *)
(* kept.  A sound pool shows one view at most, and all its views have the  *)
(* current setup; that holds whatever the queue says.                      *)
(***************************************************************************)
EXTENDS TabPool, FiniteSetTheorems, SequenceTheorems, TLAPS

-----------------------------------------------------------------------------
(* The recency queue. *)

\* Counting the kept positions up to each of them numbers them in order.
LEMMA PlaceIsRank ==
  ASSUME NEW n \in Nat, NEW kept \in SUBSET (1 .. n)
  PROVE  /\ IsFiniteSet(kept) /\ Cardinality(kept) \in Nat
         /\ \A i \in kept : Place(kept, i) \in 1 .. Cardinality(kept)
         /\ \A i, j \in kept : i < j => Place(kept, i) < Place(kept, j)
         /\ \A k \in 1 .. Cardinality(kept) : \E i \in kept : Place(kept, i) = k
<1> DEFINE upTo(i) == {j \in kept : j <= i}
<1>1. IsFiniteSet(kept) /\ Cardinality(kept) \in Nat
  <2>1. IsFiniteSet(1 .. n)
    BY FS_Interval
  <2>2. IsFiniteSet(kept)
    BY <2>1, FS_Subset
  <2> QED BY <2>2, FS_CardinalityType
<1>2. ASSUME NEW i \in kept
      PROVE  /\ IsFiniteSet(upTo(i)) /\ Cardinality(upTo(i)) \in Nat
             /\ Cardinality(upTo(i)) <= Cardinality(kept)
             /\ Cardinality(upTo(i)) # 0
  <2>1. upTo(i) \in SUBSET kept /\ i \in upTo(i)
    OBVIOUS
  <2> HIDE DEF upTo
  <2>2. IsFiniteSet(upTo(i)) /\ Cardinality(upTo(i)) <= Cardinality(kept)
    BY <2>1, <1>1, FS_Subset
  <2>3. Cardinality(upTo(i)) \in Nat
    BY <2>2, FS_CardinalityType
  <2> QED BY <2>1, <2>2, <2>3, FS_EmptySet
<1>3. \A i \in kept : Place(kept, i) \in 1 .. Cardinality(kept)
  <2> SUFFICES ASSUME NEW i \in kept PROVE Place(kept, i) \in 1 .. Cardinality(kept)
    OBVIOUS
  <2>1. Place(kept, i) = Cardinality(upTo(i))
    BY DEF Place
  <2> HIDE DEF upTo
  <2> QED BY <2>1, <1>1, <1>2
<1>4. ASSUME NEW i \in kept, NEW j \in kept, i < j
      PROVE  Place(kept, i) < Place(kept, j)
  <2>1. upTo(i) \in SUBSET upTo(j) /\ j \in upTo(j) /\ j \notin upTo(i)
    <3>1. \A x \in kept : x \in Int
      OBVIOUS
    <3>2. i \in Int /\ j \in Int /\ i < j
      BY <3>1, <1>4
    <3>3. \A x \in upTo(i) : x \in upTo(j)
      BY <3>1, <3>2
    <3>4. j \in upTo(j) /\ j \notin upTo(i)
      BY <3>2
    <3> QED BY <3>3, <3>4
  <2>2. Place(kept, i) = Cardinality(upTo(i)) /\ Place(kept, j) = Cardinality(upTo(j))
    BY DEF Place
  <2>3. /\ IsFiniteSet(upTo(j)) /\ Cardinality(upTo(i)) \in Nat /\ Cardinality(upTo(j)) \in Nat
    BY <1>2
  <2> HIDE DEF upTo
  <2>4. Cardinality(upTo(i)) <= Cardinality(upTo(j)) /\ Cardinality(upTo(i)) # Cardinality(upTo(j))
    BY <2>1, <2>3, FS_Subset
  <2> QED BY <2>2, <2>3, <2>4
<1>5. \A k \in 1 .. Cardinality(kept) : \E i \in kept : Place(kept, i) = k
  <2> DEFINE f == [i \in kept |-> Place(kept, i)]
             N == 1 .. Cardinality(kept)
  <2>1. \A i, j \in kept : f[i] = f[j] => i = j
    <3> SUFFICES ASSUME NEW i \in kept, NEW j \in kept, f[i] = f[j], i # j PROVE FALSE
      OBVIOUS
    <3>1. i \in Nat /\ j \in Nat
      OBVIOUS
    <3>2. CASE i < j
      <4>1. Place(kept, i) < Place(kept, j)
        BY <3>2, <1>4
      <4> QED BY <4>1, <1>1, <1>3
    <3>3. CASE j < i
      <4>1. Place(kept, j) < Place(kept, i)
        BY <3>3, <1>4
      <4> QED BY <4>1, <1>1, <1>3
    <3> QED BY <3>1, <3>2, <3>3
  <2>2. f \in [kept -> N]
    BY <1>3
  <2>3. \A i \in kept : f[i] = Place(kept, i)
    OBVIOUS
  <2> HIDE DEF f
  <2>4. f \in Injection(kept, N)
    BY <2>1, <2>2 DEF Injection, IsInjective
  <2>5. IsFiniteSet(N) /\ Cardinality(N) = Cardinality(kept)
    BY <1>1, FS_Interval
  <2> HIDE DEF N
  <2>6. f \in Surjection(kept, N)
    BY <2>4, <2>5, FS_Injection
  <2> QED BY <2>3, <2>6 DEF Surjection, N
<1> QED BY <1>1, <1>3, <1>4, <1>5

\* retain drops `gone`, keeps everything else, and keeps it in order.
LEMMA RetainedQueue ==
  ASSUME NEW S, NEW s \in Seq(S), NEW gone
  PROVE  /\ Retain(s, gone) \in Seq(S)
         /\ ToSet(Retain(s, gone)) = ToSet(s) \ gone
         /\ \A j, k \in DOMAIN Retain(s, gone) : j < k =>
              \E i, l \in DOMAIN s : i < l /\ Retain(s, gone)[j] = s[i] /\ Retain(s, gone)[k] = s[l]
         /\ IsInjective(s) => IsInjective(Retain(s, gone))
<1> DEFINE kept == {i \in DOMAIN s : s[i] \notin gone}
           at(k) == CHOOSE i \in kept : Place(kept, i) = k
           r == [k \in 1 .. Cardinality(kept) |-> s[at(k)]]
<1>1. Len(s) \in Nat /\ DOMAIN s = 1 .. Len(s) /\ kept \in SUBSET (1 .. Len(s))
  OBVIOUS
<1>2. CASE kept = DOMAIN s
  <2>1. Retain(s, gone) = s
    BY <1>2 DEF Retain
  <2>2. ToSet(s) = ToSet(s) \ gone
    BY <1>2 DEF ToSet
  <2> QED BY <2>1, <2>2
<1>3. CASE kept # DOMAIN s
  <2>1. Retain(s, gone) = r
    BY <1>3 DEF Retain
  <2>2. /\ Cardinality(kept) \in Nat
        /\ \A i \in kept : Place(kept, i) \in 1 .. Cardinality(kept)
        /\ \A i, j \in kept : i < j => Place(kept, i) < Place(kept, j)
        /\ \A k \in 1 .. Cardinality(kept) : \E i \in kept : Place(kept, i) = k
    BY <1>1, PlaceIsRank
  <2>3. \A i \in kept : i \in DOMAIN s /\ s[i] \in S /\ s[i] \notin gone /\ i \in Int
    OBVIOUS
  <2>a. \A i \in DOMAIN s : s[i] \notin gone => i \in kept
    OBVIOUS
  <2> HIDE DEF kept
  <2>4. \A k \in 1 .. Cardinality(kept) : at(k) \in kept /\ Place(kept, at(k)) = k
    BY <2>2
  <2>5. \A i \in kept : at(Place(kept, i)) = i
    <3> SUFFICES ASSUME NEW i \in kept PROVE at(Place(kept, i)) = i
      OBVIOUS
    <3> DEFINE j == at(Place(kept, i))
    <3>1. j \in kept /\ Place(kept, j) = Place(kept, i)
      BY <2>2, <2>4
    <3> HIDE DEF j
    <3>2. j \in Int /\ i \in Int /\ Place(kept, i) \in Int
      BY <2>2, <2>3, <3>1
    <3>3. ~(i < j) /\ ~(j < i)
      BY <2>2, <3>1, <3>2
    <3>4. j = i
      BY <3>2, <3>3
    <3> QED BY <3>4 DEF j
  <2> HIDE DEF at
  <2>6. r \in Seq(S) /\ DOMAIN r = 1 .. Cardinality(kept)
    BY <2>2, <2>3, <2>4
  <2>7. \A k \in DOMAIN r : r[k] = s[at(k)]
    OBVIOUS
  <2>8. \A j, k \in DOMAIN r : j < k => at(j) < at(k)
    <3> SUFFICES ASSUME NEW j \in DOMAIN r, NEW k \in DOMAIN r, j < k, ~(at(j) < at(k))
                 PROVE  FALSE
      OBVIOUS
    <3>1. /\ at(j) \in kept /\ at(k) \in kept /\ at(j) \in Int /\ at(k) \in Int
          /\ Place(kept, at(j)) = j /\ Place(kept, at(k)) = k /\ j \in Int /\ k \in Int
      BY <2>3, <2>4, <2>6
    <3>2. at(k) = at(j) \/ Place(kept, at(k)) < Place(kept, at(j))
      BY <2>2, <3>1
    <3> QED BY <3>1, <3>2
  <2> HIDE DEF r
  <2>9. \A j, k \in DOMAIN r : j < k => \E i, l \in DOMAIN s : i < l /\ r[j] = s[i] /\ r[k] = s[l]
    BY <2>3, <2>4, <2>6, <2>7, <2>8
  <2>10. ToSet(r) = ToSet(s) \ gone
    <3>1. \A k \in DOMAIN r : r[k] \in ToSet(s) \ gone
      BY <2>3, <2>4, <2>6, <2>7 DEF ToSet
    <3>2. ASSUME NEW x \in ToSet(s) \ gone PROVE \E k \in DOMAIN r : r[k] = x
      <4>1. PICK i \in DOMAIN s : s[i] = x
        BY DEF ToSet
      <4>2. i \in kept
        BY <4>1, <2>a
      <4> QED BY <4>1, <4>2, <2>2, <2>5, <2>6, <2>7
    <3> QED BY <3>1, <3>2 DEF ToSet
  <2>11. IsInjective(s) => IsInjective(r)
    <3> SUFFICES ASSUME IsInjective(s), NEW j \in DOMAIN r, NEW k \in DOMAIN r, r[j] = r[k]
                 PROVE  j = k
      BY DEF IsInjective
    <3>1. at(j) = at(k)
      BY <2>3, <2>4, <2>6, <2>7 DEF IsInjective
    <3> QED BY <3>1, <2>4, <2>6
  <2> QED BY <2>1, <2>6, <2>9, <2>10, <2>11
<1> QED BY <1>2, <1>3

\* A queue without repetition is as long as its set of members is large.
LEMMA LengthIsSize ==
  ASSUME NEW S, NEW s \in Seq(S), IsInjective(s)
  PROVE  /\ IsFiniteSet(ToSet(s))
         /\ Cardinality(ToSet(s)) = Len(s)
         /\ Len(s) \in Nat
<1>1. Len(s) \in Nat /\ DOMAIN s = 1 .. Len(s)
  OBVIOUS
<1>2. IsFiniteSet(1 .. Len(s)) /\ Cardinality(1 .. Len(s)) = Len(s)
  BY <1>1, FS_Interval
<1> DEFINE N == 1 .. Len(s)
           T == ToSet(s)
<1>3. s \in [N -> T] /\ \A x \in T : \E i \in N : s[i] = x
  <2>1. s \in [N -> S] /\ DOMAIN s = N
    BY LenProperties
  <2>2. \A i \in N : s[i] \in T
    BY <2>1 DEF ToSet
  <2>3. \A x \in T : \E i \in N : s[i] = x
    BY <2>1 DEF ToSet
  <2> HIDE DEF N, T
  <2> QED BY <2>1, <2>2, <2>3
<1> HIDE DEF N, T
<1>4. s \in Surjection(N, T) /\ s \in Injection(N, T)
  BY <1>3 DEF Surjection, Injection
<1>5. IsFiniteSet(T) /\ Cardinality(T) = Cardinality(N)
  BY <1>2, <1>4, FS_Surjection DEF N
<1> QED BY <1>1, <1>2, <1>5 DEF N, T

\* touch moves one tab to the back, or puts it there.
LEMMA TouchedQueue ==
  ASSUME NEW S, NEW s \in Seq(S), IsInjective(s), NEW id \in S
  PROVE  /\ Touch(s, id) \in Seq(S)
         /\ ToSet(Touch(s, id)) = ToSet(s) \union {id}
         /\ IsInjective(Touch(s, id))
<1> DEFINE r == Retain(s, {id})
<1>1. r \in Seq(S) /\ ToSet(r) = ToSet(s) \ {id} /\ IsInjective(r)
  BY RetainedQueue
<1>2. Touch(s, id) = Append(r, id)
  BY DEF Touch
<1> HIDE DEF r
<1>3. /\ Append(r, id) \in Seq(S) /\ Len(r) \in Nat
      /\ DOMAIN Append(r, id) = 1 .. Len(r) + 1
      /\ DOMAIN r = 1 .. Len(r)
      /\ Append(r, id)[Len(r) + 1] = id
      /\ \A i \in 1 .. Len(r) : Append(r, id)[i] = r[i]
  BY <1>1
<1>4. ToSet(Append(r, id)) = ToSet(r) \union {id}
  <2>1. \A x \in ToSet(Append(r, id)) : x \in ToSet(r) \union {id}
    BY <1>3 DEF ToSet
  <2>2. \A x \in ToSet(r) : x \in ToSet(Append(r, id))
    BY <1>3 DEF ToSet
  <2>3. id \in ToSet(Append(r, id))
    BY <1>3 DEF ToSet
  <2> QED BY <2>1, <2>2, <2>3
<1>5. IsInjective(Append(r, id))
  <2>1. \A i \in 1 .. Len(r) : r[i] # id
    BY <1>1, <1>3 DEF ToSet
  <2> QED BY <2>1, <1>1, <1>3 DEF IsInjective
<1> QED BY <1>1, <1>2, <1>3, <1>4, <1>5

-----------------------------------------------------------------------------
\* A pool of the right types whose queue holds each live view once.  Inductive:
\* a method is given a well formed pool and returns one.
WellFormed(p) ==
  /\ DOMAIN p = {"slots", "lru", "current", "setup", "visible"}
  /\ DOMAIN p.slots \subseteq TabIds
  /\ p.slots \in [DOMAIN p.slots -> View]
  /\ p.lru \in Seq(TabIds)
  /\ p.current \in TabIds \union {None}
  /\ p.setup \in Setups
  /\ p.visible \subseteq DOMAIN p.slots
  /\ ToSet(p.lru) = DOMAIN p.slots
  /\ IsInjective(p.lru)

LEMMA WellFormedParts ==
  ASSUME NEW slots, DOMAIN slots \subseteq TabIds, slots \in [DOMAIN slots -> View],
         NEW lru \in Seq(TabIds), ToSet(lru) = DOMAIN slots, IsInjective(lru),
         NEW current \in TabIds \union {None}, NEW setup \in Setups,
         NEW visible \in SUBSET DOMAIN slots
  PROVE  WellFormed(Pool(slots, lru, current, setup, visible))
BY DEF WellFormed, Pool

LEMMA BuiltView ==
  ASSUME NEW setup \in Setups, NEW url \in Addresses \union {Blank}
  PROVE  Built(setup, url) \in View
BY DEF Built, ViewOf, View

LEMMA ShownView ==
  ASSUME NEW v \in View, NEW lastUrl \in Addresses \union {Blank},
         NEW page \in Addresses \union {Blank}
  PROVE  Showing(v, lastUrl, page) \in View
BY DEF Showing, ViewOf, View

LEMMA SlotsWithView ==
  ASSUME NEW slots, slots \in [DOMAIN slots -> View], NEW id, NEW v \in View
  PROVE  /\ DOMAIN WithView(slots, id, v) = DOMAIN slots \union {id}
         /\ WithView(slots, id, v) \in [DOMAIN WithView(slots, id, v) -> View]
BY DEF WithView

LEMMA SlotsWithoutViews ==
  ASSUME NEW slots, slots \in [DOMAIN slots -> View], NEW gone
  PROVE  /\ DOMAIN WithoutViews(slots, gone) = DOMAIN slots \ gone
         /\ WithoutViews(slots, gone) \in [DOMAIN WithoutViews(slots, gone) -> View]
BY DEF WithoutViews

LEMMA OneView ==
  ASSUME NEW id \in TabIds, NEW setup \in Setups, NEW v \in View
  PROVE  WellFormed(Pool([i \in {id} |-> v], <<id>>, id, setup, {id}))
<1> DEFINE slots == [i \in {id} |-> v]
<1>1. DOMAIN slots = {id} /\ slots \in [{id} -> View]
  OBVIOUS
<1>2. <<id>> \in Seq(TabIds) /\ ToSet(<<id>>) = {id} /\ IsInjective(<<id>>)
  BY DEF ToSet, IsInjective
<1> HIDE DEF slots
<1>3. WellFormed(Pool(slots, <<id>>, id, setup, {id}))
  BY <1>1, <1>2, WellFormedParts
<1> QED BY <1>3 DEF slots

LEMMA NoViews ==
  ASSUME NEW current \in TabIds \union {None}, NEW setup \in Setups
  PROVE  WellFormed(Pool([i \in {} |-> Blank], <<>>, current, setup, {}))
<1> DEFINE slots == [i \in {} |-> Blank]
<1>1. DOMAIN slots = {} /\ slots \in [{} -> View]
  OBVIOUS
<1>2. <<>> \in Seq(TabIds) /\ ToSet(<<>>) = {} /\ IsInjective(<<>>)
  BY DEF ToSet, IsInjective
<1> HIDE DEF slots
<1>3. WellFormed(Pool(slots, <<>>, current, setup, {}))
  BY <1>1, <1>2, WellFormedParts
<1> QED BY <1>3 DEF slots

-----------------------------------------------------------------------------
(* Each method returns a well formed pool. *)

Shown == Addresses \union {Blank}

\* Eviction takes views and their places in the queue together.
LEMMA EvictedWellFormed ==
  ASSUME NEW p, WellFormed(p), NEW keep
  PROVE  /\ WellFormed(Evicted(p, keep))
         /\ Cached(Evicted(p, keep)) =
              IF Fits(Cached(p)) THEN Cached(p) ELSE Cached(p) \ Victims(p.lru, keep)
<1> DEFINE gone == Victims(p.lru, keep)
           slots == WithoutViews(p.slots, gone)
           lru == Retain(p.lru, gone)
<1>1. CASE Fits(Cached(p))
  BY <1>1 DEF Evicted
<1>2. CASE ~Fits(Cached(p))
  <2> HIDE DEF gone
  <2>1. DOMAIN slots = DOMAIN p.slots \ gone /\ slots \in [DOMAIN slots -> View]
    BY SlotsWithoutViews DEF WellFormed
  <2>2. lru \in Seq(TabIds) /\ ToSet(lru) = DOMAIN slots /\ IsInjective(lru)
    BY <2>1, RetainedQueue DEF WellFormed
  <2>3. DOMAIN slots \subseteq TabIds /\ p.visible \ gone \in SUBSET DOMAIN slots
    BY <2>1 DEF WellFormed
  <2>4. Evicted(p, keep) = Pool(slots, lru, p.current, p.setup, p.visible \ gone)
    BY <1>2 DEF Evicted, gone
  <2> HIDE DEF slots, lru
  <2>5. WellFormed(Pool(slots, lru, p.current, p.setup, p.visible \ gone))
    BY <2>1, <2>2, <2>3, WellFormedParts DEF WellFormed
  <2> QED BY <1>2, <2>1, <2>4, <2>5 DEF Cached, Pool, gone
<1> QED BY <1>1, <1>2

LEMMA AddedBeforeEviction ==
  ASSUME NEW p, WellFormed(p), NEW id \in TabIds, NEW v \in View
  PROVE  LET q == Pool(WithView(p.slots, id, v), Touch(p.lru, id), id, p.setup, {id}) IN
         WellFormed(q) /\ Cached(q) = Cached(p) \union {id}
<1> DEFINE slots == WithView(p.slots, id, v)
           lru == Touch(p.lru, id)
<1>1. DOMAIN slots = DOMAIN p.slots \union {id} /\ slots \in [DOMAIN slots -> View]
  BY SlotsWithView DEF WellFormed
<1>2. lru \in Seq(TabIds) /\ ToSet(lru) = DOMAIN p.slots \union {id} /\ IsInjective(lru)
  <2>1. p.lru \in Seq(TabIds) /\ ToSet(p.lru) = DOMAIN p.slots /\ IsInjective(p.lru)
    BY DEF WellFormed
  <2>2. lru \in Seq(TabIds) /\ ToSet(lru) = ToSet(p.lru) \union {id} /\ IsInjective(lru)
    BY <2>1, TouchedQueue
  <2> QED BY <2>1, <2>2
<1> HIDE DEF slots, lru
<1>3. DOMAIN slots \subseteq TabIds
  BY <1>1 DEF WellFormed
<1>4. WellFormed(Pool(slots, lru, id, p.setup, {id}))
  BY <1>1, <1>2, <1>3, WellFormedParts DEF WellFormed
<1>5. Cached(Pool(slots, lru, id, p.setup, {id})) = Cached(p) \union {id}
  BY <1>1 DEF Cached, Pool
<1> QED BY <1>4, <1>5 DEF slots, lru

LEMMA SwitchedWellFormed ==
  ASSUME NEW p, WellFormed(p), NEW id \in TabIds, NEW url \in Shown
  PROVE  WellFormed(Switched(p, id, url))
<1>1. CASE id \in Cached(p) /\ p.current = id
  <2>1. WellFormed(Reshown(p, id))
    BY <1>1, WellFormedParts DEF Reshown, WellFormed, Cached
  <2> QED BY <1>1, <2>1 DEF Switched
<1>2. CASE id \in Cached(p) /\ p.current # id
  <2> DEFINE shown == WithView(p.slots, id, Showing(p.slots[id], url, url))
             lru == Touch(p.lru, id)
  <2>1. lru \in Seq(TabIds) /\ ToSet(lru) = DOMAIN p.slots /\ IsInjective(lru)
    <3>1. p.lru \in Seq(TabIds) /\ ToSet(p.lru) = DOMAIN p.slots /\ IsInjective(p.lru)
      BY DEF WellFormed
    <3>2. lru \in Seq(TabIds) /\ ToSet(lru) = ToSet(p.lru) \union {id} /\ IsInjective(lru)
      BY <3>1, TouchedQueue
    <3> QED BY <1>2, <3>1, <3>2 DEF Cached
  <2>2. Showing(p.slots[id], url, url) \in View
    BY <1>2, ShownView DEF WellFormed, Cached, Shown
  <2>3. DOMAIN shown = DOMAIN p.slots /\ shown \in [DOMAIN shown -> View]
    <3>1. DOMAIN p.slots \union {id} = DOMAIN p.slots
      BY <1>2 DEF Cached
    <3> QED BY <3>1, <2>2, SlotsWithView DEF WellFormed
  <2> HIDE DEF shown, lru
  <2>4. WellFormed(Pool(shown, lru, id, p.setup, {id}))
    BY <1>2, <2>1, <2>3, WellFormedParts DEF WellFormed, Cached
  <2>5. WellFormed(Pool(p.slots, lru, id, p.setup, {id}))
    BY <1>2, <2>1, WellFormedParts DEF WellFormed, Cached
  <2>6. Recalled(p, id, url) \in {Pool(shown, lru, id, p.setup, {id}), Pool(p.slots, lru, id, p.setup, {id})}
    BY DEF Recalled, shown, lru
  <2> QED BY <1>2, <2>4, <2>5, <2>6 DEF Switched
<1>3. CASE id \notin Cached(p)
  <2> DEFINE q == Pool(WithView(p.slots, id, Built(p.setup, url)), Touch(p.lru, id), id, p.setup, {id})
  <2>1. Built(p.setup, url) \in View
    BY BuiltView DEF WellFormed, Shown
  <2>2. WellFormed(q)
    BY <2>1, AddedBeforeEviction
  <2> HIDE DEF q
  <2>3. WellFormed(Evicted(q, id))
    BY <2>2, EvictedWellFormed
  <2> QED BY <1>3, <2>3 DEF Switched, Added, q
<1> QED BY <1>1, <1>2, <1>3

LEMMA ClosedWellFormed ==
  ASSUME NEW p, WellFormed(p), NEW gone
  PROVE  WellFormed(Closed(p, gone)) /\ Cached(Closed(p, gone)) = Cached(p) \ gone
<1> DEFINE left == Retain(p.lru, gone)
           heir == IF left = <<>> THEN None ELSE Last(left)
           slots == WithoutViews(p.slots, gone)
<1>1. DOMAIN slots = DOMAIN p.slots \ gone /\ slots \in [DOMAIN slots -> View]
  BY SlotsWithoutViews DEF WellFormed
<1>2. left \in Seq(TabIds) /\ ToSet(left) = DOMAIN slots /\ IsInjective(left)
  BY <1>1, RetainedQueue DEF WellFormed
<1>3. DOMAIN slots \subseteq TabIds /\ p.visible \ gone \in SUBSET DOMAIN slots
  BY <1>1 DEF WellFormed
<1> HIDE DEF left, slots
<1>4. heir = None \/ heir \in DOMAIN slots
  <2>1. CASE left # <<>>
    <3>1. Len(left) \in DOMAIN left
      BY <1>2, <2>1, EmptySeq, LenProperties
    <3> QED BY <3>1, <2>1, <1>2 DEF Last, ToSet
  <2> QED BY <2>1
<1> HIDE DEF heir
<1>5. CASE p.current \in gone
  <2>1. (p.visible \ gone) \union ({heir} \ {None}) \in SUBSET DOMAIN slots
    BY <1>3, <1>4
  <2>2. heir \in TabIds \union {None}
    BY <1>3, <1>4
  <2>3. WellFormed(Pool(slots, left, heir, p.setup, (p.visible \ gone) \union ({heir} \ {None})))
    BY <1>1, <1>2, <1>3, <2>1, <2>2, WellFormedParts DEF WellFormed
  <2>4. Closed(p, gone) = Pool(slots, left, heir, p.setup, (p.visible \ gone) \union ({heir} \ {None}))
    BY <1>5 DEF Closed, left, slots, heir
  <2> QED BY <2>3, <2>4, <1>1 DEF Cached, Pool
<1>6. CASE p.current \notin gone
  <2>1. WellFormed(Pool(slots, left, p.current, p.setup, p.visible \ gone))
    BY <1>1, <1>2, <1>3, WellFormedParts DEF WellFormed
  <2>2. Closed(p, gone) = Pool(slots, left, p.current, p.setup, p.visible \ gone)
    BY <1>6 DEF Closed, left, slots
  <2> QED BY <2>1, <2>2, <1>1 DEF Cached, Pool
<1> QED BY <1>5, <1>6

LEMMA RebuiltWellFormed ==
  ASSUME NEW setup \in Setups, NEW url \in Shown, NEW id \in TabIds
  PROVE  WellFormed(Rebuilt(setup, url, id))
BY BuiltView, OneView DEF Rebuilt, Shown

LEMMA FailedWellFormed ==
  ASSUME NEW p, WellFormed(p), NEW setup \in Setups
  PROVE  /\ WellFormed(SwitchFailed(p)) /\ Cached(SwitchFailed(p)) = Cached(p)
         /\ WellFormed(RebuildFailed(p, setup)) /\ Cached(RebuildFailed(p, setup)) = {}
<1>1. WellFormed(Pool(p.slots, p.lru, p.current, p.setup, {}))
  BY WellFormedParts DEF WellFormed
<1>2. WellFormed(Pool([i \in {} |-> Blank], <<>>, p.current, setup, {}))
  BY NoViews DEF WellFormed
<1> QED BY <1>1, <1>2 DEF SwitchFailed, RebuildFailed, Cached, Pool

LEMMA ShowWellFormed ==
  ASSUME NEW p, WellFormed(p), NEW lastUrl \in Shown, NEW page \in Shown
  PROVE  WellFormed(Show(p, lastUrl, page)) /\ Cached(Show(p, lastUrl, page)) = Cached(p)
<1>1. CASE HasActive(p)
  <2> DEFINE slots == WithView(p.slots, p.current, Showing(p.slots[p.current], lastUrl, page))
  <2>1. Showing(p.slots[p.current], lastUrl, page) \in View
    BY <1>1, ShownView DEF WellFormed, HasActive, Cached, Shown
  <2>2. DOMAIN slots = DOMAIN p.slots /\ slots \in [DOMAIN slots -> View]
    <3>1. DOMAIN p.slots \union {p.current} = DOMAIN p.slots
      BY <1>1 DEF HasActive, Cached
    <3> QED BY <3>1, <2>1, SlotsWithView DEF WellFormed
  <2>3. Show(p, lastUrl, page) = Pool(slots, p.lru, p.current, p.setup, p.visible)
    BY <1>1 DEF Show
  <2> HIDE DEF slots
  <2>4. WellFormed(Pool(slots, p.lru, p.current, p.setup, p.visible))
    BY <2>2, WellFormedParts DEF WellFormed
  <2> QED BY <2>2, <2>3, <2>4 DEF Cached, Pool
<1>2. CASE ~HasActive(p)
  BY <1>2 DEF Show
<1> QED BY <1>1, <1>2

-----------------------------------------------------------------------------
(* The limit. *)

LEMMA CachedSize ==
  ASSUME NEW p, WellFormed(p)
  PROVE  /\ IsFiniteSet(Cached(p))
         /\ Cardinality(Cached(p)) = Len(p.lru)
         /\ Len(p.lru) \in Nat
BY LengthIsSize DEF WellFormed, Cached

\* With another view than `keep` in the queue there is exactly one victim, the
\* first that is not `keep`.
LEMMA OneVictim ==
  ASSUME NEW S, NEW s \in Seq(S), IsInjective(s), NEW keep, Len(s) >= 2
  PROVE  \E v \in ToSet(s) : v # keep /\ Victims(s, keep) = {v} /\ (s[1] # keep => v = s[1])
<1>1. Len(s) \in Nat /\ DOMAIN s = 1 .. Len(s) /\ 1 \in DOMAIN s /\ 2 \in DOMAIN s
  BY LenProperties
<1> DEFINE k == IF s[1] = keep THEN 2 ELSE 1
<1>2. k \in DOMAIN s /\ k \in 1 .. 2 /\ s[k] # keep /\ \A j \in 1 .. k - 1 : s[j] = keep
  <2>1. s[1] # s[2]
    BY <1>1 DEF IsInjective
  <2>2. CASE s[1] = keep
    BY <1>1, <2>1, <2>2
  <2>3. CASE s[1] # keep
    BY <1>1, <2>3
  <2> QED BY <2>2, <2>3
<1>3. s[1] # keep => k = 1
  OBVIOUS
<1> HIDE DEF k
<1>4. \A i \in 1 .. Len(s) : s[i] # keep /\ (\A j \in 1 .. i - 1 : s[j] = keep) => i = k
  <2> SUFFICES ASSUME NEW i \in 1 .. Len(s), s[i] # keep, \A j \in 1 .. i - 1 : s[j] = keep,
                      i # k
               PROVE  FALSE
    OBVIOUS
  <2>1. i \in Int /\ k \in Int /\ 1 <= i /\ 1 <= k
    BY <1>1, <1>2
  <2>2. i \in 1 .. k - 1 \/ k \in 1 .. i - 1
    BY <2>1
  <2> QED BY <2>2, <1>2
<1>5. Victims(s, keep) = {s[k]}
  BY <1>1, <1>2, <1>4 DEF Victims
<1> QED BY <1>1, <1>2, <1>3, <1>5 DEF ToSet

Small(p) == Cardinality(Cached(p)) <= MaxCached

\* Evicting one view is enough when one was added.
LEMMA EvictedSmall ==
  ASSUME NEW p, WellFormed(p), Cardinality(Cached(p)) <= MaxCached + 1, NEW keep
  PROVE  Small(Evicted(p, keep))
<1>1. MaxCached \in Nat /\ MaxCached >= 1
  BY PoolAssumption
<1>2. CASE Fits(Cached(p))
  BY <1>2 DEF Fits, Small, Evicted
<1>3. CASE ~Fits(Cached(p))
  <2>1. IsFiniteSet(Cached(p)) /\ Cardinality(Cached(p)) = Len(p.lru) /\ Len(p.lru) \in Nat
    BY CachedSize
  <2>2. Len(p.lru) >= 2 /\ Cardinality(Cached(p)) = MaxCached + 1
    BY <1>1, <1>3, <2>1 DEF Fits
  <2>3. p.lru \in Seq(TabIds) /\ IsInjective(p.lru) /\ ToSet(p.lru) = Cached(p)
    BY DEF WellFormed, Cached
  <2>4. PICK v \in ToSet(p.lru) : Victims(p.lru, keep) = {v}
    BY <2>2, <2>3, OneVictim
  <2>5. Cached(Evicted(p, keep)) = Cached(p) \ {v}
    BY <1>3, <2>4, EvictedWellFormed
  <2>6. Cardinality(Cached(p) \ {v}) = Cardinality(Cached(p)) - 1
    <3>1. v \in Cached(p) /\ IsFiniteSet(Cached(p))
      BY <2>1, <2>3, <2>4
    <3> QED BY <3>1, FS_RemoveElement
  <2> QED BY <1>1, <2>2, <2>5, <2>6 DEF Small
<1> QED BY <1>2, <1>3

LEMMA SwitchedSmall ==
  ASSUME NEW p, WellFormed(p), Small(p), NEW id \in TabIds, NEW url \in Shown
  PROVE  Small(Switched(p, id, url))
<1>1. CASE id \in Cached(p) /\ p.current = id
  BY <1>1 DEF Switched, Reshown, Small, Cached, Pool
<1>2. CASE id \in Cached(p) /\ p.current # id
  <2>1. Cached(Recalled(p, id, url)) = Cached(p)
    <3> DEFINE shown == WithView(p.slots, id, Showing(p.slots[id], url, url))
    <3>1. DOMAIN shown = DOMAIN p.slots
      BY <1>2 DEF WithView, Cached
    <3>2. Recalled(p, id, url).slots \in {shown, p.slots}
      BY DEF Recalled, Pool
    <3> QED BY <3>1, <3>2 DEF Cached
  <2> QED BY <1>2, <2>1 DEF Switched, Small
<1>3. CASE id \notin Cached(p)
  <2> DEFINE q == Pool(WithView(p.slots, id, Built(p.setup, url)), Touch(p.lru, id), id, p.setup, {id})
  <2>1. Built(p.setup, url) \in View
    BY BuiltView DEF WellFormed, Shown
  <2>2. WellFormed(q) /\ Cached(q) = Cached(p) \union {id}
    BY <2>1, AddedBeforeEviction
  <2> HIDE DEF q
  <2>3. Cardinality(Cached(q)) <= MaxCached + 1
    <3>1. IsFiniteSet(Cached(p)) /\ Cardinality(Cached(p)) \in Nat
      BY CachedSize
    <3>2. Cardinality(Cached(q)) = Cardinality(Cached(p)) + 1
      BY <1>3, <2>2, <3>1, FS_AddElement
    <3> QED BY <3>1, <3>2, PoolAssumption DEF Small
  <2>4. Small(Evicted(q, id))
    BY <2>2, <2>3, EvictedSmall
  <2> QED BY <1>3, <2>4 DEF Switched, Added, q
<1> QED BY <1>1, <1>2, <1>3

LEMMA ClosedSmall ==
  ASSUME NEW p, WellFormed(p), Small(p), NEW gone
  PROVE  Small(Closed(p, gone))
<1>1. Cached(Closed(p, gone)) = Cached(p) \ gone
  BY ClosedWellFormed
<1>2. IsFiniteSet(Cached(p)) /\ Cardinality(Cached(p)) \in Nat
  BY CachedSize
<1>3. /\ IsFiniteSet(Cached(p) \ gone)
      /\ Cardinality(Cached(p) \ gone) <= Cardinality(Cached(p))
  BY <1>2, FS_Subset
<1>4. Cardinality(Cached(p) \ gone) \in Nat
  BY <1>3, FS_CardinalityType
<1> QED BY <1>1, <1>2, <1>3, <1>4, PoolAssumption DEF Small

LEMMA OneViewIsSmall ==
  ASSUME NEW id, NEW v, NEW lru, NEW current, NEW setup, NEW visible
  PROVE  /\ Small(Pool([i \in {id} |-> v], lru, current, setup, visible))
         /\ Small(Pool([i \in {} |-> v], lru, current, setup, visible))
BY FS_Singleton, FS_EmptySet, PoolAssumption DEF Small, Cached, Pool

LEMMA RebuiltSmall ==
  ASSUME NEW setup, NEW url, NEW id
  PROVE  Small(Rebuilt(setup, url, id))
BY OneViewIsSmall DEF Rebuilt

LEMMA RebuildFailedSmall ==
  ASSUME NEW p, NEW setup
  PROVE  Small(RebuildFailed(p, setup))
BY OneViewIsSmall DEF RebuildFailed

\* The invariant: well formed and within the limit.
PoolInv == WellFormed(pool) /\ Small(pool)

LEMMA PoolInitHolds == PoolInit => PoolInv
<1> SUFFICES ASSUME NEW id \in TabIds, pool = NewPool(id) PROVE PoolInv
  BY DEF PoolInit
<1>1. Built(FirstSetup, Blank) \in View
  BY BuiltView, PoolAssumption
<1> QED BY <1>1, OneView, OneViewIsSmall, PoolAssumption DEF NewPool, PoolInv

LEMMA PoolStepHolds == PoolInv /\ [PoolNext]_pool => PoolInv'
<1> SUFFICES ASSUME PoolInv, [PoolNext]_pool PROVE WellFormed(pool') /\ Small(pool')
  BY DEF PoolInv, Small, WellFormed, Cached
<1> USE DEF PoolInv, Shown
<1>1. CASE \E id \in TabIds, url \in Addresses : SwitchTo(id, url)
  BY <1>1, SwitchedWellFormed, SwitchedSmall DEF SwitchTo
<1>2. CASE \E id \in TabIds : SwitchToFails(id)
  BY <1>2, FailedWellFormed DEF SwitchToFails, Small, WellFormed
<1>3. CASE \E gone \in SUBSET Cached(pool) : CloseViews(gone)
  BY <1>3, ClosedWellFormed, ClosedSmall DEF CloseViews
<1>4. CASE \E setup \in Setups, url \in Addresses, id \in TabIds : RebuildAll(setup, url, id)
  <2> SUFFICES ASSUME NEW setup \in Setups, NEW url \in Addresses, NEW id \in TabIds,
                      pool' = Rebuilt(setup, url, id)
               PROVE  WellFormed(pool') /\ Small(pool')
    BY <1>4 DEF RebuildAll
  <2>1. WellFormed(Rebuilt(setup, url, id))
    BY RebuiltWellFormed
  <2>2. Small(Rebuilt(setup, url, id))
    BY RebuiltSmall
  <2> QED BY <2>1, <2>2
<1>5. CASE \E setup \in Setups : RebuildAllFails(setup)
  <2> SUFFICES ASSUME NEW setup \in Setups, pool' = RebuildFailed(pool, setup)
               PROVE  WellFormed(pool') /\ Small(pool')
    BY <1>5 DEF RebuildAllFails
  <2>1. WellFormed(RebuildFailed(pool, setup))
    BY FailedWellFormed
  <2>2. Small(RebuildFailed(pool, setup))
    BY RebuildFailedSmall
  <2> QED BY <2>1, <2>2
<1>6. CASE \E url \in Web : LoadUrlActive(url)
  BY <1>6, ShowWellFormed, PoolAssumption DEF LoadUrlActive, Small
<1>7. CASE \E page \in Addresses \ Web, bar \in Addresses : LoadHtmlActive(page, bar)
  BY <1>7, ShowWellFormed DEF LoadHtmlActive, Small
<1>8. CASE pool' = pool
  BY <1>8
<1> QED BY <1>1, <1>2, <1>3, <1>4, <1>5, <1>6, <1>7, <1>8 DEF PoolNext

LEMMA PoolInvariant == PoolSpec => []PoolInv
BY PoolInitHolds, PoolStepHolds, PTL DEF PoolSpec

-----------------------------------------------------------------------------
\* Every pool that the methods reach has the types of the code's fields, and
\* no view that is gone is taken for one on screen.
THEOREM PoolTypesHold == PoolSpec => []PoolTypeOK
<1>1. PoolInv => PoolTypeOK
  BY DEF PoolInv, WellFormed, PoolTypeOK
<1> QED BY <1>1, PoolInvariant, PTL

\* The recency queue names each live view once and nothing else.
THEOREM QueueNamesEachView == PoolSpec => []QueueInv
<1>1. PoolInv => QueueInv
  BY CachedSize DEF PoolInv, WellFormed, QueueInv, Cached
<1> QED BY <1>1, PoolInvariant, PTL

\* No mix of calls leaves more than MAX_CACHED views alive.
THEOREM CapacityIsKept == PoolSpec => []CapacityInv
<1>1. PoolInv => CapacityInv
  BY DEF PoolInv, Small, CapacityInv
<1> QED BY <1>1, PoolInvariant, PTL

-----------------------------------------------------------------------------
\* The queue of a pool to which tab `id` is added: the old one with `id` behind.
LEMMA TouchedNew ==
  ASSUME NEW S, NEW s \in Seq(S), NEW id \in S, id \notin ToSet(s)
  PROVE  Touch(s, id) = Append(s, id)
BY DEF Touch, Retain, ToSet

\* switch_to a tab without a view lets the front of the queue go.
LEMMA OldestGoes ==
  ASSUME NEW p, WellFormed(p), NEW id \in TabIds, id \notin Cached(p), NEW url \in Shown,
         NEW gone \in Cached(p) \ Cached(Added(p, id, url)),
         NEW kept \in Cached(p) \intersect Cached(Added(p, id, url))
  PROVE  \E j, k \in 1 .. Len(p.lru) : j < k /\ p.lru[j] = gone /\ p.lru[k] = kept
<1> DEFINE q == Pool(WithView(p.slots, id, Built(p.setup, url)), Touch(p.lru, id), id, p.setup, {id})
<1>1. WellFormed(q) /\ Cached(q) = Cached(p) \union {id}
  <2>1. Built(p.setup, url) \in View
    BY BuiltView DEF WellFormed, Shown
  <2> QED BY <2>1, AddedBeforeEviction
<1>2. q.lru = Touch(p.lru, id)
  BY DEF Pool
<1>3. Added(p, id, url) = Evicted(q, id)
  BY DEF Added
<1> HIDE DEF q
<1>4. /\ p.lru \in Seq(TabIds) /\ IsInjective(p.lru) /\ ToSet(p.lru) = Cached(p)
      /\ q.lru \in Seq(TabIds) /\ IsInjective(q.lru)
  BY <1>1 DEF WellFormed, Cached
<1>5. q.lru = Append(p.lru, id)
  BY <1>2, <1>4, TouchedNew
<1>6. gone \in Victims(q.lru, id) /\ kept \notin Victims(q.lru, id)
  BY <1>1, <1>3, EvictedWellFormed
<1>7. PICK k \in DOMAIN p.lru : p.lru[k] = kept
  BY <1>4 DEF ToSet
<1>8. Len(p.lru) \in Nat /\ k \in 1 .. Len(p.lru)
  BY <1>4, LenProperties
<1>9. /\ Len(q.lru) >= 2 /\ q.lru[1] = p.lru[1] /\ p.lru[1] # id
  <2>1. 1 \in DOMAIN p.lru
    BY <1>8, <1>4
  <2>2. p.lru[1] \in Cached(p)
    BY <2>1, <1>4 DEF ToSet
  <2> QED BY <2>2, <1>4, <1>5, <1>8
<1>10. Victims(q.lru, id) = {p.lru[1]}
  BY <1>4, <1>9, OneVictim
<1>11. p.lru[1] = gone /\ k # 1
  BY <1>6, <1>7, <1>10
<1> QED BY <1>7, <1>8, <1>11

\* A view evicted to make room was used before every view that stays.
THEOREM OldestIsEvicted == PoolSpec => EvictsOldest
<1> DEFINE Oldest == Cached(pool') \subseteq Cached(pool) \/
             \A gone \in Cached(pool) \ Cached(pool'), kept \in Cached(pool) \intersect Cached(pool') :
               \E j, k \in 1 .. Len(pool.lru) : j < k /\ pool.lru[j] = gone /\ pool.lru[k] = kept
<1>1. ASSUME PoolInv, PoolNext PROVE Oldest
  <2>1. ASSUME NEW id \in TabIds, NEW url \in Addresses, SwitchTo(id, url) PROVE Oldest
    <3>1. CASE id \in Cached(pool) /\ pool.current = id
      BY <2>1, <3>1 DEF SwitchTo, Switched, Reshown, Cached, Pool
    <3>2. CASE id \in Cached(pool) /\ pool.current # id
      <4>1. pool' = Recalled(pool, id, url)
        BY <2>1, <3>2 DEF SwitchTo, Switched
      <4>2. DOMAIN Recalled(pool, id, url).slots = DOMAIN pool.slots
        BY <3>2 DEF Recalled, WithView, Pool, Cached
      <4> QED BY <4>1, <4>2 DEF Cached
    <3>3. CASE id \notin Cached(pool)
      <4>1. pool' = Added(pool, id, url)
        BY <2>1, <3>3 DEF SwitchTo, Switched
      <4>2. url \in Shown /\ WellFormed(pool)
        BY <1>1 DEF Shown, PoolInv
      <4>3. \A gone \in Cached(pool) \ Cached(Added(pool, id, url)),
              kept \in Cached(pool) \intersect Cached(Added(pool, id, url)) :
                \E j, k \in 1 .. Len(pool.lru) : j < k /\ pool.lru[j] = gone /\ pool.lru[k] = kept
        BY <3>3, <4>2, OldestGoes
      <4> QED BY <4>1, <4>3
    <3> QED BY <3>1, <3>2, <3>3
  <2>2. ASSUME NEW id \in TabIds, SwitchToFails(id) PROVE Oldest
    BY <2>2 DEF SwitchToFails, SwitchFailed, Cached, Pool
  <2>3. ASSUME NEW gone \in SUBSET Cached(pool), CloseViews(gone) PROVE Oldest
    <3>1. Cached(Closed(pool, gone)) = Cached(pool) \ gone
      BY <1>1, ClosedWellFormed DEF PoolInv
    <3> QED BY <2>3, <3>1 DEF CloseViews
  <2>4. ASSUME NEW setup \in Setups, NEW url \in Addresses, NEW id \in TabIds,
               RebuildAll(setup, url, id)
        PROVE  Oldest
    <3>1. Cached(pool') = {id}
      BY <2>4 DEF RebuildAll, Rebuilt, Cached, Pool
    <3>2. CASE id \in Cached(pool)
      BY <3>1, <3>2
    <3>3. CASE id \notin Cached(pool)
      BY <3>1, <3>3
    <3> QED BY <3>2, <3>3
  <2>5. ASSUME NEW setup \in Setups, RebuildAllFails(setup) PROVE Oldest
    BY <2>5 DEF RebuildAllFails, RebuildFailed, Cached, Pool
  <2>a. ASSUME NEW lastUrl \in Shown, NEW page \in Shown, pool' = Show(pool, lastUrl, page)
        PROVE  Oldest
    <3>1. Cached(Show(pool, lastUrl, page)) = Cached(pool)
      BY <1>1, ShowWellFormed DEF PoolInv
    <3> QED BY <2>a, <3>1
  <2>6. ASSUME NEW url \in Web, LoadUrlActive(url) PROVE Oldest
    <3>1. url \in Shown
      BY PoolAssumption DEF Shown
    <3> QED BY <2>6, <2>a, <3>1 DEF LoadUrlActive
  <2>7. ASSUME NEW page \in Addresses \ Web, NEW bar \in Addresses, LoadHtmlActive(page, bar)
        PROVE  Oldest
    <3>1. page \in Shown /\ bar \in Shown
      BY DEF Shown
    <3> QED BY <2>7, <2>a, <3>1 DEF LoadHtmlActive
  <2> QED BY <1>1, <2>1, <2>2, <2>3, <2>4, <2>5, <2>6, <2>7 DEF PoolNext
<1>2. PoolInv /\ [PoolNext]_pool => [Oldest]_pool
  BY <1>1
<1>3. PoolSpec => [][Oldest]_pool
  BY <1>2, PoolInvariant, PTL DEF PoolSpec
<1> QED BY <1>3 DEF EvictsOldest

-----------------------------------------------------------------------------
(* What can be seen, and with which setup. *)

\* A pool that shows no view but the active one, all of one setup.  It is
\* inductive: a method is given a sound pool and returns one.
Sound(p) ==
  /\ p.visible \subseteq {p.current}
  /\ \A id \in Cached(p) : p.slots[id].setup = p.setup

LEMMA SoundParts ==
  ASSUME NEW slots, NEW lru, NEW current, NEW setup, NEW visible,
         visible \subseteq {current}, \A i \in DOMAIN slots : slots[i].setup = setup
  PROVE  Sound(Pool(slots, lru, current, setup, visible))
BY DEF Sound, Pool, Cached

\* What a method puts in a slot has the setup, and what it leaves there had it.
LEMMA EvictedSound ==
  ASSUME NEW p, Sound(p), NEW keep
  PROVE  Sound(Evicted(p, keep))
<1> DEFINE gone == Victims(p.lru, keep)
<1>1. \A i \in DOMAIN WithoutViews(p.slots, gone) :
        WithoutViews(p.slots, gone)[i].setup = p.setup
  BY DEF WithoutViews, Sound, Cached
<1>2. p.visible \ gone \subseteq {p.current}
  BY DEF Sound
<1> HIDE DEF gone
<1>3. Sound(Pool(WithoutViews(p.slots, gone), Retain(p.lru, gone), p.current, p.setup,
                 p.visible \ gone))
  BY <1>1, <1>2, SoundParts
<1>4. Evicted(p, keep) = p \/
        Evicted(p, keep) = Pool(WithoutViews(p.slots, gone), Retain(p.lru, gone), p.current,
                                p.setup, p.visible \ gone)
  BY DEF Evicted, gone
<1> QED BY <1>3, <1>4

LEMMA SwitchedSound ==
  ASSUME NEW p, Sound(p), NEW id, NEW url
  PROVE  Sound(Switched(p, id, url))
<1>1. CASE id \in Cached(p) /\ p.current = id
  <2>1. Sound(Reshown(p, id))
    BY <1>1, SoundParts DEF Reshown, Sound, Cached
  <2> QED BY <1>1, <2>1 DEF Switched
<1>2. CASE id \in Cached(p) /\ p.current # id
  <2> DEFINE v == p.slots[id]
             shown == WithView(p.slots, id, Showing(v, url, url))
  <2>1. Showing(v, url, url).setup = p.setup
    BY <1>2 DEF Showing, ViewOf, Sound
  <2>2. \A i \in DOMAIN shown : shown[i].setup = p.setup
    BY <2>1 DEF WithView, Sound, Cached
  <2>3. \A slots \in {shown, p.slots} : Sound(Pool(slots, Touch(p.lru, id), id, p.setup, {id}))
    BY <2>2, SoundParts DEF Sound, Cached
  <2>4. Recalled(p, id, url) \in
          {Pool(slots, Touch(p.lru, id), id, p.setup, {id}) : slots \in {shown, p.slots}}
    BY DEF Recalled
  <2> QED BY <1>2, <2>3, <2>4 DEF Switched
<1>3. CASE id \notin Cached(p)
  <2> DEFINE slots == WithView(p.slots, id, Built(p.setup, url))
  <2>1. Built(p.setup, url).setup = p.setup
    BY DEF Built, ViewOf
  <2>2. \A i \in DOMAIN slots : slots[i].setup = p.setup
    BY <2>1 DEF WithView, Sound, Cached
  <2>3. Sound(Pool(slots, Touch(p.lru, id), id, p.setup, {id}))
    BY <2>2, SoundParts
  <2>4. Sound(Added(p, id, url))
    BY <2>3, EvictedSound DEF Added
  <2> QED BY <1>3, <2>4 DEF Switched
<1> QED BY <1>1, <1>2, <1>3

LEMMA ClosedSound ==
  ASSUME NEW p, Sound(p), NEW gone
  PROVE  Sound(Closed(p, gone))
<1> DEFINE left == Retain(p.lru, gone)
           heir == IF left = <<>> THEN None ELSE Last(left)
           slots == WithoutViews(p.slots, gone)
<1>1. \A i \in DOMAIN slots : slots[i].setup = p.setup
  BY DEF WithoutViews, Sound, Cached
<1> HIDE DEF left, heir, slots
<1>2. CASE p.current \in gone
  <2>1. (p.visible \ gone) \union ({heir} \ {None}) \subseteq {heir}
    BY <1>2 DEF Sound
  <2>2. Sound(Pool(slots, left, heir, p.setup, (p.visible \ gone) \union ({heir} \ {None})))
    BY <1>1, <2>1, SoundParts
  <2> QED BY <1>2, <2>2 DEF Closed, left, heir, slots
<1>3. CASE p.current \notin gone
  <2>1. p.visible \ gone \subseteq {p.current}
    BY DEF Sound
  <2>2. Sound(Pool(slots, left, p.current, p.setup, p.visible \ gone))
    BY <1>1, <2>1, SoundParts
  <2> QED BY <1>3, <2>2 DEF Closed, left, slots
<1> QED BY <1>2, <1>3

\* One view, or none.
LEMMA RebuiltSound ==
  ASSUME NEW setup, NEW url, NEW id
  PROVE  Sound(Rebuilt(setup, url, id))
<1>1. \A i \in DOMAIN [j \in {id} |-> Built(setup, url)] :
        [j \in {id} |-> Built(setup, url)][i].setup = setup
  BY DEF Built, ViewOf
<1> QED BY <1>1, SoundParts DEF Rebuilt

LEMMA FailedSound ==
  ASSUME NEW p, Sound(p), NEW setup
  PROVE  Sound(SwitchFailed(p)) /\ Sound(RebuildFailed(p, setup))
BY SoundParts DEF SwitchFailed, RebuildFailed, Sound, Cached

LEMMA ShowSound ==
  ASSUME NEW p, Sound(p), NEW lastUrl, NEW page
  PROVE  Sound(Show(p, lastUrl, page))
<1>1. CASE HasActive(p)
  <2> DEFINE v == Showing(p.slots[p.current], lastUrl, page)
             slots == WithView(p.slots, p.current, v)
  <2>1. v.setup = p.setup
    BY <1>1 DEF Showing, ViewOf, HasActive, Sound
  <2>2. \A i \in DOMAIN slots : slots[i].setup = p.setup
    BY <2>1 DEF WithView, Sound, Cached
  <2>3. Sound(Pool(slots, p.lru, p.current, p.setup, p.visible))
    BY <2>2, SoundParts DEF Sound
  <2> QED BY <1>1, <2>3 DEF Show
<1>2. CASE ~HasActive(p)
  BY <1>2 DEF Show
<1> QED BY <1>1, <1>2

LEMMA PoolInitSound == PoolInit => Sound(pool)
<1>1. ASSUME NEW id PROVE Sound(NewPool(id))
  <2>1. \A i \in DOMAIN [j \in {id} |-> Built(FirstSetup, Blank)] :
          [j \in {id} |-> Built(FirstSetup, Blank)][i].setup = FirstSetup
    BY DEF Built, ViewOf
  <2> QED BY <2>1, SoundParts DEF NewPool
<1> QED BY <1>1 DEF PoolInit

LEMMA PoolStepSound == Sound(pool) /\ [PoolNext]_pool => Sound(pool')
<1> SUFFICES ASSUME Sound(pool), [PoolNext]_pool PROVE Sound(pool')
  OBVIOUS
<1>1. CASE \E id \in TabIds, url \in Addresses : SwitchTo(id, url)
  BY <1>1, SwitchedSound DEF SwitchTo
<1>2. CASE \E id \in TabIds : SwitchToFails(id)
  BY <1>2, FailedSound DEF SwitchToFails
<1>3. CASE \E gone \in SUBSET Cached(pool) : CloseViews(gone)
  BY <1>3, ClosedSound DEF CloseViews
<1>4. CASE \E setup \in Setups, url \in Addresses, id \in TabIds : RebuildAll(setup, url, id)
  BY <1>4, RebuiltSound DEF RebuildAll
<1>5. CASE \E setup \in Setups : RebuildAllFails(setup)
  BY <1>5, FailedSound DEF RebuildAllFails
<1>6. CASE \E url \in Web : LoadUrlActive(url)
  BY <1>6, ShowSound DEF LoadUrlActive
<1>7. CASE \E page \in Addresses \ Web, bar \in Addresses : LoadHtmlActive(page, bar)
  BY <1>7, ShowSound DEF LoadHtmlActive
<1>8. CASE pool' = pool
  BY <1>8
<1> QED BY <1>1, <1>2, <1>3, <1>4, <1>5, <1>6, <1>7, <1>8 DEF PoolNext

-----------------------------------------------------------------------------
\* Every pool that the methods reach is sound, whatever its queue holds.
THEOREM PoolIsSound == PoolSpec => []Sound(pool)
<1>1. Sound(pool)' <=> Sound(pool')
  BY DEF Sound, Cached
<1> QED BY <1>1, PoolInitSound, PoolStepSound, PTL DEF PoolSpec

\* No two views are drawn over each other, and the one that is seen is the one
\* that loads go to.
THEOREM OneIsVisible == PoolSpec => []OneVisibleInv
<1>1. Sound(pool) => OneVisibleInv
  BY DEF Sound, OneVisibleInv
<1> QED BY <1>1, PoolIsSound, PTL

\* No view outlives a change of proxy or of privacy level.
THEOREM SetupIsShared == PoolSpec => []SameSetupInv
<1>1. Sound(pool) => SameSetupInv
  BY DEF Sound, SameSetupInv, Cached
<1> QED BY <1>1, PoolIsSound, PTL

-----------------------------------------------------------------------------
(* Whether a page has a view to go to. *)

\* A pool with a view has one for the active tab.  With WellFormed it is inductive.
Alive(p) == Cached(p) # {} => HasActive(p)

LEMMA AliveParts ==
  ASSUME NEW slots, NEW lru, NEW current, NEW setup, NEW visible,
         DOMAIN slots = {} \/ current \in DOMAIN slots
  PROVE  Alive(Pool(slots, lru, current, setup, visible))
BY DEF Alive, HasActive, Pool, Cached

\* A view just built or recalled is kept by the eviction after it.
LEMMA SwitchedAlive ==
  ASSUME NEW p, NEW id, NEW url
  PROVE  Alive(Switched(p, id, url))
<1>1. CASE id \in Cached(p) /\ p.current = id
  <2>1. Alive(Reshown(p, id))
    BY <1>1, AliveParts DEF Reshown, Cached
  <2> QED BY <1>1, <2>1 DEF Switched
<1>2. CASE id \in Cached(p) /\ p.current # id
  <2> DEFINE shown == WithView(p.slots, id, Showing(p.slots[id], url, url))
  <2>1. id \in DOMAIN shown /\ id \in DOMAIN p.slots
    BY <1>2 DEF WithView, Cached
  <2> HIDE DEF shown
  <2>2. \A slots \in {shown, p.slots} : Alive(Pool(slots, Touch(p.lru, id), id, p.setup, {id}))
    BY <2>1, AliveParts
  <2>3. Recalled(p, id, url) \in
          {Pool(slots, Touch(p.lru, id), id, p.setup, {id}) : slots \in {shown, p.slots}}
    BY DEF Recalled, shown
  <2> QED BY <1>2, <2>2, <2>3 DEF Switched
<1>3. CASE id \notin Cached(p)
  <2> DEFINE q == Pool(WithView(p.slots, id, Built(p.setup, url)), Touch(p.lru, id), id,
                       p.setup, {id})
             gone == Victims(q.lru, id)
  <2>1. id \in DOMAIN q.slots /\ q.current = id
    BY DEF Pool, WithView
  <2>2. id \notin gone
    BY DEF Victims
  <2> HIDE DEF q, gone
  <2>3. id \in DOMAIN WithoutViews(q.slots, gone)
    BY <2>1, <2>2 DEF WithoutViews
  <2>4. Alive(Pool(WithoutViews(q.slots, gone), Retain(q.lru, gone), q.current, q.setup,
                   q.visible \ gone))
    BY <2>1, <2>3, AliveParts
  <2>5. Alive(q)
    BY <2>1 DEF Alive, HasActive, Cached
  <2>6. Alive(Evicted(q, id))
    BY <2>4, <2>5 DEF Evicted, gone
  <2> QED BY <1>3, <2>6 DEF Switched, Added, q
<1> QED BY <1>1, <1>2, <1>3

\* The heir is the last of the queue, which holds every survivor.
LEMMA ClosedAlive ==
  ASSUME NEW p, WellFormed(p), Alive(p), NEW gone
  PROVE  Alive(Closed(p, gone))
<1> DEFINE left == Retain(p.lru, gone)
           heir == IF left = <<>> THEN None ELSE Last(left)
           slots == WithoutViews(p.slots, gone)
<1>1. DOMAIN slots = DOMAIN p.slots \ gone
  BY DEF WithoutViews
<1>2. left \in Seq(TabIds) /\ ToSet(left) = DOMAIN slots
  BY <1>1, RetainedQueue DEF WellFormed
<1> HIDE DEF left, slots
<1>3. DOMAIN slots = {} \/ heir \in DOMAIN slots
  <2>1. CASE left # <<>>
    <3>1. Len(left) \in DOMAIN left
      BY <1>2, <2>1, EmptySeq, LenProperties
    <3> QED BY <3>1, <2>1, <1>2 DEF Last, ToSet
  <2>2. CASE left = <<>>
    <3>1. DOMAIN left = {}
      BY <2>2
    <3> QED BY <3>1, <1>2 DEF ToSet
  <2> QED BY <2>1, <2>2
<1> HIDE DEF heir
<1>4. CASE p.current \in gone
  <2>1. Alive(Pool(slots, left, heir, p.setup, (p.visible \ gone) \union ({heir} \ {None})))
    BY <1>3, AliveParts
  <2> QED BY <1>4, <2>1 DEF Closed, left, heir, slots
<1>5. CASE p.current \notin gone
  <2>1. DOMAIN slots = {} \/ p.current \in DOMAIN slots
    BY <1>1, <1>5 DEF Alive, HasActive, Cached
  <2>2. Alive(Pool(slots, left, p.current, p.setup, p.visible \ gone))
    BY <2>1, AliveParts
  <2> QED BY <1>5, <2>2 DEF Closed, left, slots
<1> QED BY <1>4, <1>5

LEMMA RebuiltAlive ==
  ASSUME NEW setup, NEW url, NEW id
  PROVE  Alive(Rebuilt(setup, url, id))
<1>1. id \in DOMAIN [j \in {id} |-> Built(setup, url)]
  OBVIOUS
<1> QED BY <1>1, AliveParts DEF Rebuilt

LEMMA FailedAlive ==
  ASSUME NEW p, Alive(p), NEW setup
  PROVE  Alive(SwitchFailed(p)) /\ Alive(RebuildFailed(p, setup))
BY AliveParts DEF SwitchFailed, RebuildFailed, Alive, HasActive, Cached

LEMMA ShowAlive ==
  ASSUME NEW p, Alive(p), NEW lastUrl, NEW page
  PROVE  Alive(Show(p, lastUrl, page))
<1>1. CASE HasActive(p)
  <2> DEFINE slots == WithView(p.slots, p.current, Showing(p.slots[p.current], lastUrl, page))
  <2>1. p.current \in DOMAIN slots
    BY DEF WithView
  <2> HIDE DEF slots
  <2>2. Alive(Pool(slots, p.lru, p.current, p.setup, p.visible))
    BY <2>1, AliveParts
  <2> QED BY <1>1, <2>2 DEF Show, slots
<1>2. CASE ~HasActive(p)
  BY <1>2 DEF Show
<1> QED BY <1>1, <1>2

LEMMA PoolStepAlive == WellFormed(pool) /\ Alive(pool) /\ [PoolNext]_pool => Alive(pool')
<1> SUFFICES ASSUME WellFormed(pool), Alive(pool), [PoolNext]_pool PROVE Alive(pool')
  OBVIOUS
<1>1. CASE \E id \in TabIds, url \in Addresses : SwitchTo(id, url)
  BY <1>1, SwitchedAlive DEF SwitchTo
<1>2. CASE \E id \in TabIds : SwitchToFails(id)
  BY <1>2, FailedAlive DEF SwitchToFails
<1>3. CASE \E gone \in SUBSET Cached(pool) : CloseViews(gone)
  BY <1>3, ClosedAlive DEF CloseViews
<1>4. CASE \E setup \in Setups, url \in Addresses, id \in TabIds : RebuildAll(setup, url, id)
  BY <1>4, RebuiltAlive DEF RebuildAll
<1>5. CASE \E setup \in Setups : RebuildAllFails(setup)
  BY <1>5, FailedAlive DEF RebuildAllFails
<1>6. CASE \E url \in Web : LoadUrlActive(url)
  BY <1>6, ShowAlive DEF LoadUrlActive
<1>7. CASE \E page \in Addresses \ Web, bar \in Addresses : LoadHtmlActive(page, bar)
  BY <1>7, ShowAlive DEF LoadHtmlActive
<1>8. CASE pool' = pool
  BY <1>8
<1> QED BY <1>1, <1>2, <1>3, <1>4, <1>5, <1>6, <1>7, <1>8 DEF PoolNext

\* As long as a view lives the active tab has one: no page that the core sends is
\* thrown away while another tab's view is kept.
THEOREM ActiveIsAlive == PoolSpec => []ActiveIsAliveInv
<1>1. PoolInit => Alive(pool)
  BY AliveParts DEF PoolInit, NewPool
<1>2. PoolInv => WellFormed(pool)
  BY DEF PoolInv
<1>3. PoolInv /\ Alive(pool) /\ [PoolNext]_pool => Alive(pool)'
  <2>1. Alive(pool)' <=> Alive(pool')
    BY DEF Alive, HasActive, Cached
  <2> QED BY <1>2, <2>1, PoolStepAlive
<1>4. Alive(pool) <=> ActiveIsAliveInv
  BY DEF Alive, ActiveIsAliveInv
<1> QED BY <1>1, <1>3, <1>4, PoolInvariant, PTL DEF PoolSpec

-----------------------------------------------------------------------------
(* What a caller of a method relies on. *)

\* All that the invariants say of a pool, whoever calls its methods.
LEMMA PoolPromises == PoolInv /\ Sound(pool) => QueueInv /\ CapacityInv /\ OneVisibleInv /\ SameSetupInv
<1> SUFFICES ASSUME PoolInv, Sound(pool) PROVE QueueInv /\ CapacityInv /\ OneVisibleInv /\ SameSetupInv
  OBVIOUS
<1>1. QueueInv
  BY CachedSize DEF PoolInv, WellFormed, QueueInv, Cached
<1> QED BY <1>1 DEF PoolInv, Small, CapacityInv, Sound, OneVisibleInv, SameSetupInv, Cached

\* After switch_to the tab has a view, the only one on screen; one it already
\* had and showed is left as it was, and a new one holds the page or nothing.
LEMMA SwitchedShows ==
  ASSUME NEW p, WellFormed(p), Sound(p), NEW id \in TabIds, NEW url
  PROVE  LET q == Switched(p, id, url) IN
         /\ q.current = id /\ q.visible = {id} /\ q.setup = p.setup
         /\ id \in Cached(q) /\ Cached(q) \subseteq Cached(p) \union {id}
         /\ id \in Cached(p) /\ p.current = id => q.slots = p.slots
         /\ id \notin Cached(p) => q.slots[id] = Built(p.setup, url)
<1>1. CASE id \in Cached(p) /\ p.current = id
  <2>1. p.visible \union {id} = {id}
    BY <1>1 DEF Sound
  <2> QED BY <1>1, <2>1 DEF Switched, Reshown, Cached, Pool
<1>2. CASE id \in Cached(p) /\ p.current # id
  <2>1. DOMAIN WithView(p.slots, id, Showing(p.slots[id], url, url)) = DOMAIN p.slots
    BY <1>2 DEF WithView, Cached
  <2> QED BY <1>2, <2>1 DEF Switched, Recalled, Cached, Pool
<1>3. CASE id \notin Cached(p)
  <2> DEFINE v == Built(p.setup, url)
             q == Pool(WithView(p.slots, id, v), Touch(p.lru, id), id, p.setup, {id})
             gone == Victims(q.lru, id)
  <2>1. /\ q.current = id /\ q.visible = {id} /\ q.setup = p.setup
        /\ DOMAIN q.slots = Cached(p) \union {id} /\ q.slots[id] = v
    BY DEF Pool, WithView, Cached
  <2>2. id \notin gone
    BY DEF Victims
  <2> HIDE DEF q, gone, v
  <2>3. /\ Evicted(q, id).current = id /\ Evicted(q, id).setup = p.setup
        /\ Evicted(q, id).visible = {id} /\ Evicted(q, id).slots[id] = v
        /\ id \in Cached(Evicted(q, id)) /\ Cached(Evicted(q, id)) \subseteq Cached(p) \union {id}
    <3>1. CASE Fits(Cached(q))
      BY <3>1, <2>1 DEF Evicted, Cached
    <3>2. CASE ~Fits(Cached(q))
      <4>1. Evicted(q, id) = Pool(WithoutViews(q.slots, gone), Retain(q.lru, gone), id, p.setup, {id} \ gone)
        BY <3>2, <2>1 DEF Evicted, gone
      <4>2. {id} \ gone = {id}
        BY <2>2
      <4> QED BY <4>1, <4>2, <2>1, <2>2 DEF Pool, WithoutViews, Cached
    <3> QED BY <3>1, <3>2
  <2>4. Switched(p, id, url) = Evicted(q, id)
    BY <1>3 DEF Switched, Added, q, v
  <2> QED BY <1>3, <2>3, <2>4 DEF v
<1> QED BY <1>1, <1>2, <1>3

\* close_tab leaves the views that stay as they are, and the active tab too.
LEMMA ClosedKeeps ==
  ASSUME NEW p, WellFormed(p), NEW gone
  PROVE  LET q == Closed(p, gone) IN
         /\ q.setup = p.setup
         /\ \A i \in Cached(p) \ gone : q.slots[i] = p.slots[i]
         /\ p.current \notin gone => q.current = p.current
BY DEF Closed, Pool, WithoutViews, Cached

\* rebuild_all leaves one view, on screen, with the new setup.
LEMMA RebuiltShows ==
  ASSUME NEW setup, NEW url, NEW id
  PROVE  LET q == Rebuilt(setup, url, id) IN
         /\ q.current = id /\ q.visible = {id} /\ q.setup = setup
         /\ Cached(q) = {id} /\ q.slots[id] = Built(setup, url)
BY DEF Rebuilt, Pool, Cached

\* A failed build hides every view; a failed rebuild drops them too.
LEMMA FailedHides ==
  ASSUME NEW p, NEW setup
  PROVE  /\ SwitchFailed(p).visible = {} /\ SwitchFailed(p).setup = p.setup
         /\ SwitchFailed(p).slots = p.slots /\ SwitchFailed(p).current = p.current
         /\ Cached(SwitchFailed(p)) = Cached(p)
         /\ RebuildFailed(p, setup).visible = {} /\ RebuildFailed(p, setup).setup = setup
         /\ Cached(RebuildFailed(p, setup)) = {}
BY DEF SwitchFailed, RebuildFailed, Pool, Cached

\* load_url_active and load_html_active change the active view, if it lives.
LEMMA ShowKeeps ==
  ASSUME NEW p, NEW lastUrl, NEW page
  PROVE  LET q == Show(p, lastUrl, page) IN
         /\ q.current = p.current /\ q.visible = p.visible /\ q.setup = p.setup
         /\ Cached(q) = Cached(p)
         /\ HasActive(p) => q.slots[p.current] = Showing(p.slots[p.current], lastUrl, page)
         /\ \A i \in Cached(p) \ {p.current} : q.slots[i] = p.slots[i]
<1>1. CASE HasActive(p)
  <2>1. DOMAIN p.slots \union {p.current} = DOMAIN p.slots
    BY <1>1 DEF HasActive, Cached
  <2> QED BY <1>1, <2>1 DEF Show, Pool, WithView, Cached, HasActive
<1>2. CASE ~HasActive(p)
  BY <1>2 DEF Show
<1> QED BY <1>1, <1>2
=============================================================================

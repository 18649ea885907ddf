----------------------------- MODULE HorusProofs -----------------------------
(***************************************************************************)
(* Horus for every set of words, every answer of the sources and every     *)
(* bound: whose answer a search takes, and that no query is lost or leaked.*)
(***************************************************************************)
EXTENDS Horus, FiniteSetTheorems, SequenceTheorems, TLAPS

\* The control part of the state; what is found plays no part in it.
ControlOK ==
  /\ stage \in {"idle", "lock", "onion", "clear", "searx", "send", "answer"}
  /\ word \in Words
  /\ serial \in 0 .. MaxSearches
  /\ stage # "idle" => serial > 0
  /\ channel \in Seq(Query \union {Put})
  /\ table \subseteq Query

\* What was ever asked for and may still be answered.
Asked == table \union (Range(channel) \ {Put})

\* A query names a search there was, and the last search's is for its word.
QueriesAgree == \A q \in Asked : q.to <= serial /\ (q.to = serial => q.word = word)

\* The inductive invariant.
HorusIInv == ControlOK /\ QueriesAgree /\ OwnAnswerInv /\ PendingIsLiveInv

\* What Append and Tail do to the range of a sequence.
LEMMA RangeOfAppend ==
  ASSUME NEW S, NEW s \in Seq(S), NEW x \in S
  PROVE  Range(Append(s, x)) = Range(s) \union {x}
<1>1. /\ Append(s, x) \in Seq(S) /\ Len(Append(s, x)) = Len(s) + 1
      /\ \A i \in 1 .. Len(s) : Append(s, x)[i] = s[i]
      /\ Append(s, x)[Len(s) + 1] = x
  OBVIOUS
<1>2. /\ Range(s) = {s[i] : i \in 1 .. Len(s)}
      /\ Range(Append(s, x)) = {Append(s, x)[i] : i \in 1 .. Len(s) + 1}
  BY <1>1, RangeEquality
<1>3. 1 .. Len(s) + 1 = 1 .. Len(s) \union {Len(s) + 1}
  BY LenProperties
<1> QED BY <1>1, <1>2, <1>3

LEMMA RangeOfTail ==
  ASSUME NEW S, NEW s \in Seq(S), s # <<>>
  PROVE  /\ Head(s) \in S /\ Tail(s) \in Seq(S)
         /\ Range(s) = {Head(s)} \union Range(Tail(s))
<1>1. /\ Head(s) = s[1] /\ Head(s) \in S
      /\ Tail(s) \in Seq(S) /\ Len(s) \in Nat \ {0} /\ Len(Tail(s)) = Len(s) - 1
      /\ \A i \in 1 .. Len(s) - 1 : Tail(s)[i] = s[i + 1]
  OBVIOUS
<1>2. /\ Range(s) = {s[i] : i \in 1 .. Len(s)}
      /\ Range(Tail(s)) = {Tail(s)[i] : i \in 1 .. Len(s) - 1}
  BY <1>1, RangeEquality
<1>3. ASSUME NEW i \in 1 .. Len(s) PROVE s[i] \in {Head(s)} \union Range(Tail(s))
  <2>1. CASE i = 1
    BY <2>1, <1>1
  <2>2. CASE i # 1
    <3>1. i - 1 \in 1 .. Len(s) - 1 /\ s[i] = Tail(s)[i - 1]
      BY <2>2, <1>1
    <3> QED BY <3>1, <1>2
  <2> QED BY <2>1, <2>2
<1>4. ASSUME NEW i \in 1 .. Len(s) - 1 PROVE Tail(s)[i] \in Range(s)
  <2>1. i + 1 \in 1 .. Len(s) /\ Tail(s)[i] = s[i + 1]
    BY <1>1
  <2> QED BY <2>1, <1>2
<1>5. Head(s) \in Range(s)
  <2>1. 1 \in 1 .. Len(s)
    BY <1>1
  <2> QED BY <2>1, <1>1, <1>2
<1>6. Range(s) \subseteq {Head(s)} \union Range(Tail(s))
  BY <1>2, <1>3
<1>7. Range(Tail(s)) \subseteq Range(s)
  BY <1>2, <1>4
<1> QED BY <1>1, <1>5, <1>6, <1>7

-----------------------------------------------------------------------------
LEMMA InitHolds == HorusInit => HorusIInv
<1> SUFFICES ASSUME HorusInit PROVE HorusIInv
  OBVIOUS
<1>1. Range(channel) = {}
  BY SMT DEF HorusInit, Range
<1> QED BY <1>1, HorusAssumption
        DEF HorusInit, HorusIInv, ControlOK, QueriesAgree, Asked, OwnAnswerInv, PendingIsLiveInv

\* A Put is told from every query by its receiver, and what is in the channel
\* besides Puts is a query.
LEMMA PutIsNoQuery ==
  ASSUME HorusIInv
  PROVE  Put \notin Query /\ Asked \subseteq Query
<1>1. Put \notin Query
  BY HorusAssumption DEF Put, Query
<1>2. Range(channel) \subseteq Query \union {Put}
  BY RangeOfSeq DEF HorusIInv, ControlOK
<1> QED BY <1>1, <1>2 DEF HorusIInv, ControlOK, Asked

\* A step that leaves the DHT, the word and the receiver alone, and waits for
\* no new answer, preserves the invariant.
LEMMA LocalStepHolds ==
  ASSUME HorusIInv, UNCHANGED <<word, serial, heard, dhtVars>>,
         stage' \in {"idle", "lock", "onion", "clear", "searx", "send", "answer"},
         stage = "idle" => stage' = "idle",
         stage' = "answer" => stage = "answer"
  PROVE  HorusIInv'
BY DEF HorusIInv, ControlOK, QueriesAgree, Asked, OwnAnswerInv, PendingIsLiveInv, dhtVars

LEMMA SearchHolds ==
  ASSUME HorusIInv, NEW w \in Words, Search(w)
  PROVE  HorusIInv'
<1>1. Asked' = Asked /\ UNCHANGED <<channel, table, live>>
  BY DEF Search, Asked, dhtVars
<1>2. ControlOK'
  BY <1>1, HorusAssumption DEF Search, HorusIInv, ControlOK
<1>3. QueriesAgree'
  <2> SUFFICES ASSUME NEW q \in Asked PROVE q.to <= serial + 1 /\ q.to # serial + 1
    BY <1>1 DEF QueriesAgree, Search
  <2>1. q.to \in 1 .. MaxSearches /\ q.to <= serial
    BY PutIsNoQuery DEF HorusIInv, QueriesAgree, Query
  <2> QED BY <2>1, HorusAssumption DEF HorusIInv, ControlOK
<1> QED BY <1>1, <1>2, <1>3 DEF Search, HorusIInv, OwnAnswerInv, PendingIsLiveInv

\* The query that is sent is the last search's.
LEMMA SendGetHolds ==
  ASSUME HorusIInv, SendGet
  PROVE  HorusIInv'
<1> DEFINE q == [word |-> word, to |-> serial]
<1>1. q \in Query
  BY HorusAssumption DEF SendGet, HorusIInv, ControlOK, Query
<1>2. channel' = Append(channel, q) /\ Range(channel') = Range(channel) \union {q}
  BY <1>1, RangeOfAppend DEF SendGet, HorusIInv, ControlOK
<1>3. channel' \in Seq(Query \union {Put})
  BY <1>1, <1>2 DEF HorusIInv, ControlOK
<1>4. Asked' = Asked \union {q}
  BY <1>1, <1>2, PutIsNoQuery DEF Asked, SendGet
<1>5. q.to = serial /\ q.word = word
  OBVIOUS
<1> HIDE DEF q
<1>6. QueriesAgree'
  BY <1>4, <1>5, HorusAssumption DEF QueriesAgree, HorusIInv, ControlOK, SendGet
<1>7. PendingIsLiveInv'
  BY <1>2 DEF q, PendingIsLiveInv, HorusIInv, SendGet
<1> QED BY <1>3, <1>6, <1>7 DEF SendGet, HorusIInv, ControlOK, OwnAnswerInv

LEMMA SendPutHolds ==
  ASSUME HorusIInv, SendPut
  PROVE  HorusIInv'
<1>1. channel' = Append(channel, Put) /\ Range(channel') = Range(channel) \union {Put}
  BY RangeOfAppend DEF SendPut, HorusIInv, ControlOK
<1>2. channel' \in Seq(Query \union {Put})
  BY <1>1 DEF HorusIInv, ControlOK
<1>3. Asked' = Asked
  BY <1>1 DEF Asked, SendPut
<1> QED BY <1>1, <1>2, <1>3
        DEF SendPut, searchVars, HorusIInv, ControlOK, QueriesAgree, OwnAnswerInv, PendingIsLiveInv

\* Taking a Put takes no query from the channel.
LEMMA TakePutHolds ==
  ASSUME HorusIInv, TakePut
  PROVE  HorusIInv'
<1>1. /\ channel' \in Seq(Query \union {Put})
      /\ Range(channel) = {Put} \union Range(channel')
  BY RangeOfTail DEF TakePut, HorusIInv, ControlOK
<1>2. Asked' = Asked
  BY <1>1 DEF Asked, TakePut
<1>3. [word |-> word, to |-> serial] # Put \/ stage = "idle"
  BY HorusAssumption DEF Put, HorusIInv, ControlOK
<1>4. PendingIsLiveInv'
  BY <1>1, <1>3 DEF PendingIsLiveInv, HorusIInv, TakePut, searchVars
<1> QED BY <1>1, <1>2, <1>4
        DEF TakePut, searchVars, HorusIInv, ControlOK, QueriesAgree, OwnAnswerInv

\* A Get goes from the channel into the table, and to Kademlia.
LEMMA TakeGetHolds ==
  ASSUME HorusIInv, TakeGet
  PROVE  HorusIInv'
<1>1. /\ Head(channel) \in Query
      /\ channel' \in Seq(Query \union {Put})
      /\ Range(channel) = {Head(channel)} \union Range(channel')
  BY RangeOfTail DEF TakeGet, HorusIInv, ControlOK
<1>2. Asked' \subseteq Asked
  BY <1>1 DEF Asked, TakeGet
<1>3. PendingIsLiveInv'
  BY <1>1 DEF PendingIsLiveInv, HorusIInv, TakeGet, searchVars
<1> QED BY <1>1, <1>2, <1>3
        DEF TakeGet, searchVars, HorusIInv, ControlOK, QueriesAgree, OwnAnswerInv

\* An answer reaches the last search only if it was that search's query.
LEMMA ProgressHolds ==
  ASSUME HorusIInv, NEW q \in live, NEW hits \in Shards, Progressed(q, hits),
         live' \in {live, live \ {q}}, UNCHANGED <<socks, page, channel>>
  PROVE  HorusIInv'
<1>1. table' = table \ {q} /\ Asked' \subseteq Asked
  BY DEF Progressed, Asked
<1>2. CASE q \in table /\ stage = "answer" /\ serial = q.to
  <2>1. /\ stage' = "idle" /\ heard' = q.word /\ UNCHANGED <<word, serial>>
    BY <1>2 DEF Progressed, Deliver, Finish
  <2>2. q.word = word
    BY <1>2 DEF HorusIInv, QueriesAgree, Asked
  <2> QED BY <1>1, <2>1, <2>2 DEF HorusIInv, ControlOK, QueriesAgree, OwnAnswerInv, PendingIsLiveInv
<1>3. CASE ~(q \in table /\ stage = "answer" /\ serial = q.to)
  <2>1. UNCHANGED <<stage, word, serial, heard>>
    BY <1>3 DEF Progressed, Deliver, searchVars
  <2>2. stage = "answer" => [word |-> word, to |-> serial] # q \/ q \notin table
    BY <1>3
  <2>3. PendingIsLiveInv'
    BY <1>1, <2>1, <2>2 DEF PendingIsLiveInv, HorusIInv
  <2> QED BY <1>1, <2>1, <2>3 DEF HorusIInv, ControlOK, QueriesAgree, OwnAnswerInv
<1> QED BY <1>2, <1>3

LEMMA StepHolds == HorusIInv /\ [HorusNext]_horusVars => HorusIInv'
<1> SUFFICES ASSUME HorusIInv, [HorusNext]_horusVars PROVE HorusIInv'
  OBVIOUS
<1>1. CASE \E w \in Words : Search(w)
  BY <1>1, SearchHolds
<1>2. CASE SearchLocal \/ AhmiaOverSocks \/ AhmiaOverClearnet \/ SearchSearx
  BY <1>2, LocalStepHolds DEF SearchLocal, AhmiaOverSocks, AhmiaOverClearnet, SearchSearx, Found, AfterAhmia
<1>3. CASE SendGet
  BY <1>3, SendGetHolds
<1>4. CASE DhtTimeout
  BY <1>4, LocalStepHolds DEF DhtTimeout, Finish
<1>5. CASE SetSocksPort \/ IndexPage \/ UNCHANGED horusVars
  <2>1. UNCHANGED <<searchVars, dhtVars>>
    BY <1>5 DEF SetSocksPort, IndexPage, horusVars
  <2> QED BY <2>1, LocalStepHolds DEF searchVars, HorusIInv, ControlOK
<1>6. CASE SendPut
  BY <1>6, SendPutHolds
<1>7. CASE TakePut
  BY <1>7, TakePutHolds
<1>8. CASE TakeGet
  BY <1>8, TakeGetHolds
<1>9. CASE QueryProgresses
  BY <1>9, ProgressHolds DEF QueryProgresses
<1> QED BY <1>1, <1>2, <1>3, <1>4, <1>5, <1>6, <1>7, <1>8, <1>9 DEF HorusNext, SearchStep

\* Every state of HorusSpec satisfies the inductive invariant: the receivers in
\* the channel, in the table and under way are of this search or of earlier ones,
\* and each names one word.
THEOREM HorusInductive == HorusSpec => []HorusIInv
BY InitHolds, StepHolds, PTL DEF HorusSpec

-----------------------------------------------------------------------------
\* Whatever the network answers, and in whatever order, a search takes no shard
\* but one its own word was looked up for (lib.rs lines 399-411).
THEOREM SearchTakesItsOwnAnswer == HorusSpec => []OwnAnswerInv
BY HorusInductive, PTL DEF HorusIInv

\* The table of pending queries leaks nothing, and the query of a waiting search
\* is in the channel or in the table until its answer comes.
THEOREM NoQueryIsLost == HorusSpec => []PendingIsLiveInv
BY HorusInductive, PTL DEF HorusIInv

-----------------------------------------------------------------------------
(* The list of results. *)

\* Counting what goes before each member numbers the members of a finite set in
\* a strict total order.
LEMMA InOrderIsRank ==
  ASSUME NEW S, IsFiniteSet(S), NEW R,
         \A i \in S : <<i, i>> \notin R,
         \A i, j, k \in S : <<i, j>> \in R /\ <<j, k>> \in R => <<i, k>> \in R,
         \A i, j \in S : i # j => <<i, j>> \in R \/ <<j, i>> \in R
  PROVE  /\ Cardinality(S) \in Nat
         /\ \A k \in 1 .. Cardinality(S) : InOrder(S, R)[k] \in S
         /\ \A i \in S : \E k \in 1 .. Cardinality(S) : InOrder(S, R)[k] = i
         /\ \A k, l \in 1 .. Cardinality(S) :
              k < l => <<InOrder(S, R)[k], InOrder(S, R)[l]>> \in R
<1> DEFINE upTo(i) == {j \in S : j = i \/ <<j, i>> \in R}
           N == Cardinality(S)
           f == [i \in S |-> Rank(S, R, i)]
           o == InOrder(S, R)
<1>1. N \in Nat
  BY FS_CardinalityType
<1>2. ASSUME NEW i \in S
      PROVE  /\ IsFiniteSet(upTo(i)) /\ f[i] = Cardinality(upTo(i)) /\ f[i] \in 1 .. N
  <2>1. upTo(i) \in SUBSET S /\ i \in upTo(i) /\ f[i] = Cardinality(upTo(i))
    BY DEF Rank
  <2> HIDE DEF upTo, f
  <2>2. IsFiniteSet(upTo(i)) /\ Cardinality(upTo(i)) <= N
    BY <2>1, FS_Subset
  <2>3. Cardinality(upTo(i)) \in Nat /\ Cardinality(upTo(i)) # 0
    BY <2>1, <2>2, FS_CardinalityType, FS_EmptySet
  <2> QED BY <2>1, <2>2, <2>3, <1>1
<1>3. ASSUME NEW i \in S, NEW j \in S, <<i, j>> \in R
      PROVE  f[i] < f[j]
  <2>1. upTo(i) \in SUBSET upTo(j) /\ j \in upTo(j)
    BY <1>3
  <2>2. j \notin upTo(i)
    BY <1>3
  <2>3. IsFiniteSet(upTo(j)) /\ f[i] = Cardinality(upTo(i)) /\ f[j] = Cardinality(upTo(j))
        /\ f[i] \in 1 .. N /\ f[j] \in 1 .. N
    BY <1>2
  <2> HIDE DEF upTo, f, N
  <2>4. Cardinality(upTo(i)) <= Cardinality(upTo(j)) /\ Cardinality(upTo(i)) # Cardinality(upTo(j))
    BY <2>1, <2>2, <2>3, FS_Subset
  <2> QED BY <2>3, <2>4, <1>1
<1>4. f \in [S -> 1 .. N] /\ \A i \in S : f[i] = Rank(S, R, i)
  BY <1>2
<1> HIDE DEF f, upTo
<1>5. f \in Injection(S, 1 .. N)
  <2>1. \A i, j \in S : f[i] = f[j] => i = j
    <3> SUFFICES ASSUME NEW i \in S, NEW j \in S, f[i] = f[j], i # j PROVE FALSE
      OBVIOUS
    <3>1. f[i] < f[j] \/ f[j] < f[i]
      BY <1>3
    <3>2. f[i] \in Nat /\ f[j] \in Nat
      BY <1>1, <1>4
    <3> QED BY <3>1, <3>2
  <2> QED BY <2>1, <1>4 DEF Injection, IsInjective
<1>6. f \in Surjection(S, 1 .. N)
  <2>1. IsFiniteSet(1 .. N) /\ Cardinality(1 .. N) = N
    BY <1>1, FS_Interval
  <2> HIDE DEF N
  <2>2. N = Cardinality(S)
    BY DEF N
  <2> DEFINE T == 1 .. N
  <2> HIDE DEF T
  <2>3. f \in Injection(S, T) /\ IsFiniteSet(T) /\ Cardinality(S) = Cardinality(T)
    BY <2>1, <2>2, <1>5 DEF T
  <2>4. f \in Surjection(S, T)
    BY <2>3, FS_Injection
  <2> QED BY <2>4 DEF T
<1>7. ASSUME NEW k \in 1 .. N
      PROVE  o[k] \in S /\ f[o[k]] = k
  <2>1. \E i \in S : Rank(S, R, i) = k
    BY <1>4, <1>6 DEF Surjection
  <2>2. o[k] = CHOOSE i \in S : Rank(S, R, i) = k
    BY DEF InOrder
  <2> HIDE DEF o
  <2>3. o[k] \in S /\ Rank(S, R, o[k]) = k
    BY <2>1, <2>2
  <2> QED BY <2>3, <1>4
<1> HIDE DEF o
<1>8. \A i \in S : \E k \in 1 .. N : o[k] = i
  <2> SUFFICES ASSUME NEW i \in S PROVE o[f[i]] = i /\ f[i] \in 1 .. N
    OBVIOUS
  <2>1. f[i] \in 1 .. N
    BY <1>4
  <2>2. o[f[i]] \in S /\ f[o[f[i]]] = f[i]
    BY <2>1, <1>7
  <2> QED BY <2>1, <2>2, <1>5 DEF Injection, IsInjective
<1>9. \A k, l \in 1 .. N : k < l => <<o[k], o[l]>> \in R
  <2> SUFFICES ASSUME NEW k \in 1 .. N, NEW l \in 1 .. N, k < l, <<o[k], o[l]>> \notin R
               PROVE  FALSE
    OBVIOUS
  <2>1. o[k] \in S /\ f[o[k]] = k /\ o[l] \in S /\ f[o[l]] = l
    BY <1>7
  <2>2. o[k] # o[l]
    BY <2>1
  <2>3. <<o[l], o[k]>> \in R
    BY <2>1, <2>2
  <2>4. f[o[l]] < f[o[k]]
    BY <2>1, <2>3, <1>3
  <2> QED BY <2>1, <2>4
<1> QED BY <1>1, <1>7, <1>8, <1>9 DEF o, N

\* A result's place depends on its score, and among equals on its title.
LEMMA ScoreAndTitle ==
  ASSUME NEW r \in Results
  PROVE  Score(r) \in Nat /\ r.title \in Nat
BY HorusAssumption DEF Score

\* The order of the sort: strict and total on the places of the list, and what
\* goes first does not deserve a later place.
LEMMA GoesFirstOrders ==
  ASSUME NEW found \in Seq(Results)
  PROVE  /\ \A i \in DOMAIN found : <<i, i>> \notin GoesFirst(found)
         /\ \A i, j, k \in DOMAIN found :
              <<i, j>> \in GoesFirst(found) /\ <<j, k>> \in GoesFirst(found)
              => <<i, k>> \in GoesFirst(found)
         /\ \A i, j \in DOMAIN found :
              i # j => <<i, j>> \in GoesFirst(found) \/ <<j, i>> \in GoesFirst(found)
         /\ \A i, j \in DOMAIN found : <<i, j>> \in GoesFirst(found) => ~Precedes(found[j], found[i])
<1> DEFINE s(i) == Score(found[i])
           t(i) == found[i].title
           first(i, j) == \/ s(i) > s(j)
                          \/ s(i) = s(j) /\ t(i) < t(j)
                          \/ s(i) = s(j) /\ t(i) = t(j) /\ i < j
<1>1. \A i \in DOMAIN found : i \in Nat /\ s(i) \in Nat /\ t(i) \in Nat
  <2> SUFFICES ASSUME NEW i \in DOMAIN found PROVE i \in Nat /\ s(i) \in Nat /\ t(i) \in Nat
    OBVIOUS
  <2>1. i \in Nat /\ found[i] \in Results
    OBVIOUS
  <2> QED BY <2>1, ScoreAndTitle
<1>2. \A i, j \in DOMAIN found :
        Precedes(found[i], found[j]) <=> s(i) > s(j) \/ (s(i) = s(j) /\ t(i) < t(j))
  BY DEF Precedes
<1>3. \A i, j \in DOMAIN found :
        <<i, j>> \in GoesFirst(found) <=>
          Precedes(found[i], found[j]) \/ (~Precedes(found[j], found[i]) /\ i < j)
  BY DEF GoesFirst
<1> HIDE DEF s, t
<1>4. \A i, j \in DOMAIN found : <<i, j>> \in GoesFirst(found) <=> first(i, j)
  <2> SUFFICES ASSUME NEW i \in DOMAIN found, NEW j \in DOMAIN found
               PROVE  <<i, j>> \in GoesFirst(found) <=> first(i, j)
    OBVIOUS
  <2>1. s(i) \in Nat /\ s(j) \in Nat /\ t(i) \in Nat /\ t(j) \in Nat
    BY <1>1
  <2> QED BY <2>1, <1>2, <1>3
<1>5. \A i \in DOMAIN found : <<i, i>> \notin GoesFirst(found)
  BY <1>1, <1>4
<1>6. ASSUME NEW i \in DOMAIN found, NEW j \in DOMAIN found, NEW k \in DOMAIN found,
             first(i, j), first(j, k)
      PROVE  first(i, k)
  <2>1. /\ i \in Nat /\ s(i) \in Nat /\ t(i) \in Nat
        /\ j \in Nat /\ s(j) \in Nat /\ t(j) \in Nat
        /\ k \in Nat /\ s(k) \in Nat /\ t(k) \in Nat
    BY <1>1
  <2> QED BY <2>1, <1>6
<1>7. ASSUME NEW i \in DOMAIN found, NEW j \in DOMAIN found, i # j
      PROVE  first(i, j) \/ first(j, i)
  <2>1. /\ i \in Nat /\ s(i) \in Nat /\ t(i) \in Nat
        /\ j \in Nat /\ s(j) \in Nat /\ t(j) \in Nat
    BY <1>1
  <2> QED BY <2>1, <1>7
<1>8. ASSUME NEW i \in DOMAIN found, NEW j \in DOMAIN found, first(i, j)
      PROVE  ~Precedes(found[j], found[i])
  <2>1. /\ s(i) \in Nat /\ t(i) \in Nat /\ s(j) \in Nat /\ t(j) \in Nat
    BY <1>1
  <2> QED BY <2>1, <1>2, <1>8
<1> HIDE DEF first
<1> QED BY <1>4, <1>5, <1>6, <1>7, <1>8

\* No result comes before one that deserves an earlier place.
Ranked(found) == \A i, j \in DOMAIN found : i < j => ~Precedes(found[j], found[i])

\* The sort ranks the results, and neither adds nor drops one.
LEMMA SortedIsRanked ==
  ASSUME NEW found \in Seq(Results)
  PROVE  /\ Sorted(found) \in Seq(Results)
         /\ Ranked(Sorted(found))
         /\ Range(Sorted(found)) = Range(found)
<1> DEFINE n == Len(found)
           o == InOrder(DOMAIN found, GoesFirst(found))
<1>1. n \in Nat /\ DOMAIN found = 1 .. n /\ \A k \in 1 .. n : found[k] \in Results
  OBVIOUS
<1>2. IsFiniteSet(DOMAIN found) /\ Cardinality(DOMAIN found) = n
  <2>1. IsFiniteSet(1 .. n) /\ Cardinality(1 .. n) = n
    <3> HIDE DEF n
    <3> QED BY <1>1, FS_Interval
  <2> QED BY <2>1, <1>1
<1>3. /\ \A k \in 1 .. n : o[k] \in 1 .. n
      /\ \A i \in 1 .. n : \E k \in 1 .. n : o[k] = i
      /\ \A k, l \in 1 .. n : k < l => <<o[k], o[l]>> \in GoesFirst(found)
  <2>1. /\ \A k \in 1 .. Cardinality(DOMAIN found) : o[k] \in DOMAIN found
        /\ \A i \in DOMAIN found : \E k \in 1 .. Cardinality(DOMAIN found) : o[k] = i
        /\ \A k, l \in 1 .. Cardinality(DOMAIN found) : k < l => <<o[k], o[l]>> \in GoesFirst(found)
    BY <1>2, GoesFirstOrders, InOrderIsRank
  <2> QED BY <2>1, <1>1, <1>2
<1>4. Sorted(found) = [k \in 1 .. n |-> found[o[k]]]
  BY <1>1 DEF Sorted
<1> HIDE DEF o, n
<1>5. Sorted(found) \in Seq(Results) /\ DOMAIN Sorted(found) = 1 .. n
      /\ \A k \in 1 .. n : Sorted(found)[k] = found[o[k]]
  BY <1>1, <1>3, <1>4
<1>6. Ranked(Sorted(found))
  BY <1>1, <1>3, <1>5, GoesFirstOrders DEF Ranked
<1>7. Range(Sorted(found)) = Range(found)
  <2>1. \A k \in 1 .. n : \E i \in 1 .. n : Sorted(found)[k] = found[i]
    BY <1>3, <1>5
  <2>2. \A i \in 1 .. n : \E k \in 1 .. n : Sorted(found)[k] = found[i]
    BY <1>3, <1>5
  <2>3. /\ Range(Sorted(found)) = {Sorted(found)[k] : k \in 1 .. n}
        /\ Range(found) = {found[k] : k \in 1 .. n}
    BY <1>1, <1>5 DEF Range
  <2> QED BY <2>1, <2>2, <2>3
<1> QED BY <1>5, <1>6, <1>7

\* What heads a run of neighbours with one address.
Kept(found) == {k \in DOMAIN found : k > 1 => found[k].url # found[k - 1].url}

\* Every place is in a run whose head is kept.
LEMMA RunHasHead ==
  ASSUME NEW found \in Seq(Results), NEW k \in DOMAIN found
  PROVE  \E m \in Kept(found) : m <= k /\ \A j \in m .. k : found[j].url = found[k].url
<1> DEFINE run == {i \in 1 .. k : \A j \in i .. k : found[j].url = found[k].url}
           R == {p \in run \X run : p[1] < p[2]}
           m == InOrder(run, R)[1]
<1>1. k \in Nat /\ k \in 1 .. k /\ run \in SUBSET (1 .. k) /\ k \in run
      /\ DOMAIN found = 1 .. Len(found) /\ Len(found) \in Nat
  OBVIOUS
<1>2. IsFiniteSet(run)
  <2>1. IsFiniteSet(1 .. k)
    BY <1>1, FS_Interval
  <2> QED BY <2>1, <1>1, FS_Subset
<1>3. \A i \in run : i \in Nat
  BY <1>1
<1>4. /\ Cardinality(run) \in Nat
      /\ \A x \in 1 .. Cardinality(run) : InOrder(run, R)[x] \in run
      /\ \A i \in run : \E x \in 1 .. Cardinality(run) : InOrder(run, R)[x] = i
      /\ \A x, y \in 1 .. Cardinality(run) :
           x < y => <<InOrder(run, R)[x], InOrder(run, R)[y]>> \in R
  <2> HIDE DEF run
  <2>1. /\ \A i \in run : <<i, i>> \notin R
        /\ \A i, j, l \in run : <<i, j>> \in R /\ <<j, l>> \in R => <<i, l>> \in R
        /\ \A i, j \in run : i # j => <<i, j>> \in R \/ <<j, i>> \in R
    BY <1>3
  <2> HIDE DEF R
  <2> QED BY <2>1, <1>2, InOrderIsRank
<1>5. 1 \in 1 .. Cardinality(run) /\ m \in run /\ \A i \in run : i = m \/ m < i
  <2> HIDE DEF run
  <2>1. PICK x \in 1 .. Cardinality(run) : InOrder(run, R)[x] = k
    BY <1>1, <1>4
  <2>2. 1 \in 1 .. Cardinality(run)
    BY <2>1, <1>4
  <2>3. ASSUME NEW i \in run PROVE i = m \/ m < i
    <3>1. PICK y \in 1 .. Cardinality(run) : InOrder(run, R)[y] = i
      BY <1>4
    <3>2. y = 1 \/ 1 < y
      BY <1>4
    <3>3. 1 < y => <<m, i>> \in R
      BY <3>1, <2>2, <1>4
    <3> QED BY <3>1, <3>2, <3>3
  <2> QED BY <2>2, <2>3, <1>4
<1> HIDE DEF m, R
<1>6. m \in 1 .. k /\ m \in DOMAIN found /\ \A j \in m .. k : found[j].url = found[k].url
  BY <1>1, <1>5
<1>7. m > 1 => found[m].url # found[m - 1].url
  <2> SUFFICES ASSUME m > 1, found[m].url = found[m - 1].url PROVE FALSE
    OBVIOUS
  <2>1. m - 1 \in 1 .. k /\ \A j \in m - 1 .. k : j = m - 1 \/ j \in m .. k
    BY <1>1, <1>6
  <2>2. m - 1 \in run
    BY <2>1, <1>1, <1>6
  <2> QED BY <2>2, <1>5, <1>6
<1> QED BY <1>1, <1>6, <1>7 DEF Kept

\* The heads of the runs, in order.
LEMMA HeadsInOrder ==
  ASSUME NEW found \in Seq(Results)
  PROVE  LET kept == Kept(found)
             t == WithoutNeighbours(found)
             o == InOrder(kept, {p \in kept \X kept : p[1] < p[2]})
             n == Cardinality(kept)
         IN  /\ n \in Nat /\ DOMAIN t = 1 .. n /\ Len(t) = n /\ t \in Seq(Results)
             /\ \A k \in 1 .. n : o[k] \in kept /\ t[k] = found[o[k]]
             /\ \A i \in kept : \E k \in 1 .. n : o[k] = i
             /\ \A k, l \in 1 .. n : k < l => o[k] < o[l]
<1> DEFINE kept == Kept(found)
           R == {p \in kept \X kept : p[1] < p[2]}
           o == InOrder(kept, R)
           n == Cardinality(kept)
           t == WithoutNeighbours(found)
<1>1. kept \in SUBSET (1 .. Len(found)) /\ DOMAIN found = 1 .. Len(found) /\ Len(found) \in Nat
  BY DEF Kept
<1>2. IsFiniteSet(kept)
  <2>1. IsFiniteSet(1 .. Len(found))
    BY <1>1, FS_Interval
  <2> HIDE DEF kept
  <2> QED BY <2>1, <1>1, FS_Subset
<1>3. t = [k \in 1 .. n |-> found[o[k]]]
  BY DEF WithoutNeighbours, Kept
<1>4. \A i \in kept : i \in Nat /\ found[i] \in Results
  <2> HIDE DEF kept
  <2> QED BY <1>1
<1> HIDE DEF kept
<1>5. /\ \A i \in kept : <<i, i>> \notin R
      /\ \A i, j, l \in kept : <<i, j>> \in R /\ <<j, l>> \in R => <<i, l>> \in R
      /\ \A i, j \in kept : i # j => <<i, j>> \in R \/ <<j, i>> \in R
      /\ \A i, j : <<i, j>> \in R => i < j
  BY <1>4
<1> HIDE DEF R
<1>6. /\ n \in Nat
      /\ \A k \in 1 .. n : o[k] \in kept
      /\ \A i \in kept : \E k \in 1 .. n : o[k] = i
      /\ \A k, l \in 1 .. n : k < l => <<o[k], o[l]>> \in R
  BY <1>2, <1>5, InOrderIsRank
<1> HIDE DEF o, n, t
<1>7. /\ t \in Seq(Results) /\ DOMAIN t = 1 .. n /\ Len(t) = n
      /\ \A k \in 1 .. n : t[k] = found[o[k]]
  BY <1>3, <1>4, <1>6
<1> QED BY <1>5, <1>6, <1>7 DEF o, n, t, R, kept

\* Dropping neighbours keeps the ranks and every address, and leaves no two
\* neighbours of one address.
LEMMA NeighboursDiffer ==
  ASSUME NEW found \in Seq(Results), Ranked(found)
  PROVE  LET t == WithoutNeighbours(found)
         IN  /\ t \in Seq(Results) /\ Ranked(t)
             /\ \A i \in DOMAIN t : i > 1 => t[i].url # t[i - 1].url
             /\ {r.url : r \in Range(t)} = {r.url : r \in Range(found)}
<1> DEFINE kept == Kept(found)
           t == WithoutNeighbours(found)
           o == InOrder(kept, {p \in kept \X kept : p[1] < p[2]})
           n == Cardinality(kept)
<1>1. /\ n \in Nat /\ DOMAIN t = 1 .. n /\ t \in Seq(Results)
      /\ \A k \in 1 .. n : o[k] \in kept /\ t[k] = found[o[k]]
      /\ \A i \in kept : \E k \in 1 .. n : o[k] = i
      /\ \A k, l \in 1 .. n : k < l => o[k] < o[l]
  BY HeadsInOrder
<1>2. \A k \in kept : k \in DOMAIN found /\ k \in Nat /\ (k > 1 => found[k].url # found[k - 1].url)
  BY DEF Kept
<1>3. \A k \in DOMAIN found :
        \E m \in kept : m <= k /\ \A j \in m .. k : found[j].url = found[k].url
  BY RunHasHead
<1>4. DOMAIN found = 1 .. Len(found) /\ Len(found) \in Nat
  OBVIOUS
<1> HIDE DEF kept, t, o, n
<1>5. Ranked(t)
  BY <1>1, <1>2 DEF Ranked
<1>6. ASSUME NEW i \in 1 .. n, i > 1
      PROVE  t[i].url # t[i - 1].url
  <2>1. i - 1 \in 1 .. n /\ i - 1 < i
    BY <1>1, <1>6
  <2> DEFINE a == o[i - 1]
             b == o[i]
  <2>2. a \in kept /\ b \in kept /\ a < b /\ t[i] = found[b] /\ t[i - 1] = found[a]
    BY <2>1, <1>1
  <2>3. a \in Nat /\ b \in Nat /\ b - 1 \in DOMAIN found /\ a <= b - 1
        /\ found[b].url # found[b - 1].url
    <3>1. a \in Nat /\ b \in Nat /\ a \in 1 .. Len(found) /\ b \in 1 .. Len(found)
          /\ (b > 1 => found[b].url # found[b - 1].url)
      BY <2>2, <1>2, <1>4
    <3> HIDE DEF a, b
    <3> QED BY <3>1, <2>2, <1>4
  <2>4. PICK m \in kept : m <= b - 1 /\ \A j \in m .. (b - 1) : found[j].url = found[b - 1].url
    BY <2>3, <1>3
  <2>5. m \in Nat /\ m <= a
    <3>1. PICK k \in 1 .. n : o[k] = m
      BY <1>1
    <3>2. m \in Nat /\ m < b
      BY <2>3, <2>4, <1>2
    <3>3. k <= i - 1
      <4> SUFFICES ASSUME i <= k PROVE FALSE
        BY <1>1
      <4>1. k = i \/ i < k
        BY <1>1
      <4>2. b = m \/ b < m
        BY <4>1, <3>1, <1>1
      <4> HIDE DEF a, b
      <4> QED BY <4>2, <3>2, <2>3
    <3>4. k = i - 1 \/ k < i - 1
      BY <3>3, <1>1
    <3>5. m = a \/ m < a
      BY <3>1, <3>4, <2>1, <1>1
    <3> HIDE DEF a, b
    <3> QED BY <3>2, <3>5, <2>3
  <2> HIDE DEF a, b
  <2>6. a \in m .. (b - 1)
    BY <2>3, <2>5
  <2>7. found[a].url = found[b - 1].url
    BY <2>4, <2>6
  <2> QED BY <2>2, <2>3, <2>7
<1>7. {r.url : r \in Range(t)} = {r.url : r \in Range(found)}
  <2>1. ASSUME NEW k \in 1 .. n PROVE \E j \in DOMAIN found : t[k].url = found[j].url
    BY <1>1, <1>2
  <2>2. ASSUME NEW k \in DOMAIN found PROVE \E j \in 1 .. n : t[j].url = found[k].url
    <3>1. PICK m \in kept : m <= k /\ \A j \in m .. k : found[j].url = found[k].url
      BY <1>3
    <3>2. found[m].url = found[k].url
      <4>1. m \in m .. k
        BY <3>1, <1>2, <1>4
      <4> QED BY <4>1, <3>1
    <3>3. PICK j \in 1 .. n : o[j] = m
      BY <1>1
    <3> QED BY <3>2, <3>3, <1>1
  <2>3. {r.url : r \in Range(t)} = {t[k].url : k \in 1 .. n}
    BY <1>1 DEF Range
  <2>4. {r.url : r \in Range(found)} = {found[k].url : k \in DOMAIN found}
    BY DEF Range
  <2> DEFINE U == {t[k].url : k \in 1 .. n}
             V == {found[k].url : k \in DOMAIN found}
  <2>5. U \subseteq V
    BY <2>1
  <2>6. V \subseteq U
    BY <2>2
  <2>7. U = V
    BY <2>5, <2>6
  <2> HIDE DEF U, V
  <2>8. {r.url : r \in Range(t)} = U
    BY <2>3 DEF U
  <2>9. {r.url : r \in Range(found)} = V
    BY <2>4 DEF V
  <2> QED BY <2>7, <2>8, <2>9
<1> QED BY <1>1, <1>5, <1>6, <1>7 DEF t

\* The beginning of a list.
LEMMA PrefixOfList ==
  ASSUME NEW S, NEW s \in Seq(S), NEW n \in Nat, n <= Len(s)
  PROVE  /\ SubSeq(s, 1, n) \in Seq(S) /\ DOMAIN SubSeq(s, 1, n) = 1 .. n
         /\ 1 .. n \subseteq DOMAIN s
         /\ Len(SubSeq(s, 1, n)) = n /\ \A i \in 1 .. n : SubSeq(s, 1, n)[i] = s[i]
OBVIOUS

\* The cap takes a prefix: all of the list, or a full one.
LEMMA TruncatedIsPrefix ==
  ASSUME NEW found \in Seq(Results)
  PROVE  /\ Truncated(found) \in Seq(Results)
         /\ DOMAIN Truncated(found) \subseteq DOMAIN found
         /\ \A i \in DOMAIN Truncated(found) : Truncated(found)[i] = found[i]
         /\ Len(Truncated(found)) = Cap \/ Truncated(found) = found
<1> DEFINE n == IF Len(found) > Cap THEN Cap ELSE Len(found)
           t == SubSeq(found, 1, n)
<1>1. /\ Len(found) \in Nat /\ DOMAIN found = 1 .. Len(found)
      /\ n \in Nat /\ n <= Len(found) /\ (n = Cap \/ n = Len(found))
  BY HorusAssumption
<1>2. \A i \in 1 .. n : found[i] \in Results
  BY <1>1
<1>3. Truncated(found) = t
  BY DEF Truncated
<1> HIDE DEF n
<1>4. /\ t \in Seq(Results) /\ DOMAIN t = 1 .. n /\ DOMAIN t \subseteq DOMAIN found
      /\ Len(t) = n /\ \A i \in 1 .. n : t[i] = found[i]
  <2>1. n \in Nat /\ n <= Len(found) /\ found \in Seq(Results)
    BY <1>1
  <2>2. /\ SubSeq(found, 1, n) \in Seq(Results) /\ DOMAIN SubSeq(found, 1, n) = 1 .. n
        /\ 1 .. n \subseteq DOMAIN found
        /\ Len(SubSeq(found, 1, n)) = n /\ \A i \in 1 .. n : SubSeq(found, 1, n)[i] = found[i]
    BY ONLY <2>1, PrefixOfList
  <2> QED BY <2>2
<1> HIDE DEF t
<1>5. n = Len(found) => t = found
  BY <1>1, <1>4, SeqEqual
<1>6. Len(t) = Cap \/ t = found
  BY <1>1, <1>4, <1>5
<1> QED BY <1>3, <1>4, <1>6

\* What a search makes of the results it has found: ranked, no two neighbours of
\* one address, and with every address unless the list is full.
Merges(list, found) ==
  /\ list \in Seq(Results)
  /\ Ranked(list)
  /\ \A i \in DOMAIN list : i > 1 => list[i].url # list[i - 1].url
  /\ Len(list) = Cap \/ {r.url : r \in Range(list)} = {r.url : r \in Range(found)}

LEMMA MergedMerges ==
  ASSUME NEW found \in Seq(Results)
  PROVE  Merges(Merged(found), found)
<1> DEFINE s == Sorted(found)
           t == WithoutNeighbours(s)
           list == Truncated(t)
<1>1. s \in Seq(Results) /\ Ranked(s) /\ Range(s) = Range(found)
  BY SortedIsRanked
<1> HIDE DEF s
<1>2. /\ t \in Seq(Results) /\ Ranked(t)
      /\ \A i \in DOMAIN t : i > 1 => t[i].url # t[i - 1].url
      /\ {r.url : r \in Range(t)} = {r.url : r \in Range(s)}
  BY <1>1, NeighboursDiffer
<1> HIDE DEF t
<1>3. /\ list \in Seq(Results) /\ DOMAIN list \subseteq DOMAIN t
      /\ \A i \in DOMAIN list : list[i] = t[i]
      /\ Len(list) = Cap \/ list = t
  BY <1>2, TruncatedIsPrefix
<1> HIDE DEF list
<1>4. \A i \in DOMAIN list : i > 1 => i - 1 \in DOMAIN list
  BY <1>3
<1>5. Ranked(list)
  BY <1>2, <1>3 DEF Ranked
<1>6. \A i \in DOMAIN list : i > 1 => list[i].url # list[i - 1].url
  BY <1>2, <1>3, <1>4
<1>7. Merged(found) = list
  BY DEF Merged, list, t, s
<1> QED BY <1>1, <1>2, <1>3, <1>5, <1>6, <1>7 DEF Merges

-----------------------------------------------------------------------------
(* The lists in the state, and what is left of the types. *)

ListsOK == all \in Seq(Results) /\ shown \in Seq(Results)

RestOK ==
  /\ heard \in Words \union {None}
  /\ socks \in BOOLEAN
  /\ page \in {"idle", "send", "ack"}
  /\ Len(channel) <= ChannelSize
  /\ live \subseteq Query

\* The second inductive invariant, on top of the first.
HorusLInv == ListsOK /\ RestOK /\ MergedInv

\* No results make a list that is ranked and complete.
LEMMA NothingMerges == <<>> \in Seq(Results) /\ Ranked(<<>>) /\ DOMAIN <<>> = {} /\ Range(<<>>) = {}
BY DEF Ranked, Range

LEMMA ListsInit == HorusInit => HorusLInv
<1> SUFFICES ASSUME HorusInit PROVE HorusLInv
  OBVIOUS
<1> DEFINE none == <<>>
<1>1. /\ all = none /\ shown = none /\ channel = none /\ live = {}
      /\ heard = None /\ socks \in BOOLEAN /\ page = "idle"
  BY DEF HorusInit
<1>2. none \in Seq(Results) /\ DOMAIN none = {} /\ Range(none) = {} /\ Len(none) = 0
  BY NothingMerges
<1> HIDE DEF none
<1>3. MergedInv
  BY <1>1, <1>2 DEF MergedInv
<1>4. RestOK
  BY <1>1, <1>2, HorusAssumption DEF RestOK
<1> QED BY <1>1, <1>2, <1>3, <1>4 DEF HorusLInv, ListsOK

\* A search that starts forgets the lists of the one before.
LEMMA SearchLists ==
  ASSUME HorusLInv, NEW w \in Words, Search(w)
  PROVE  HorusLInv'
<1> DEFINE none == <<>>
<1>1. /\ all' = none /\ shown' = none /\ heard' = None /\ stage' = "lock"
      /\ UNCHANGED <<socks, page, channel, live>>
  BY DEF Search, dhtVars
<1>2. none \in Seq(Results) /\ DOMAIN none = {}
  BY NothingMerges
<1> HIDE DEF none
<1>3. MergedInv'
  BY <1>1, <1>2 DEF MergedInv
<1>4. RestOK'
  BY <1>1 DEF RestOK, HorusLInv
<1> QED BY <1>1, <1>2, <1>3, <1>4 DEF HorusLInv, ListsOK

\* What a source answers is added to the end; nothing is shown before the end.
LEMMA FoundLists ==
  ASSUME HorusLInv, NEW hits \in Seq(Results), NEW then, then # "idle", Found(hits, then)
  PROVE  HorusLInv'
<1>1. all' \in Seq(Results)
  BY ConcatProperties DEF Found, HorusLInv, ListsOK
<1>2. stage' # "idle" /\ UNCHANGED <<shown, heard, socks, page, channel, live>>
  BY DEF Found, dhtVars
<1> QED BY <1>1, <1>2 DEF HorusLInv, ListsOK, RestOK, MergedInv

\* The sources are asked for lists of results.
LEMMA SourcesAnswer ==
  /\ LocalHits \subseteq Seq(Results) /\ OnionHits \subseteq Seq(Results)
  /\ SearxHits \subseteq Seq(Results) /\ Shards \subseteq Seq(Results)
  /\ <<>> \in Seq(Results)
BY HorusAssumption

LEMMA SourceLists ==
  ASSUME HorusLInv, SearchLocal \/ AhmiaOverSocks \/ AhmiaOverClearnet \/ SearchSearx
  PROVE  HorusLInv'
<1>1. CASE SearchLocal
  <2>1. \E hits \in Seq(Results), then \in {"onion", "clear", "searx", "send"} : Found(hits, then)
    BY <1>1, SourcesAnswer DEF SearchLocal, AfterAhmia
  <2> QED BY <2>1, FoundLists
<1>2. CASE AhmiaOverSocks
  <2>1. \E hits \in Seq(Results), then \in {"onion", "clear", "searx", "send"} : Found(hits, then)
    BY <1>2, SourcesAnswer DEF AhmiaOverSocks, AfterAhmia
  <2> QED BY <2>1, FoundLists
<1>3. CASE AhmiaOverClearnet
  <2>1. \E hits \in Seq(Results), then \in {"onion", "clear", "searx", "send"} : Found(hits, then)
    BY <1>3, SourcesAnswer DEF AhmiaOverClearnet, AfterAhmia
  <2> QED BY <2>1, FoundLists
<1>4. CASE SearchSearx
  <2>1. \E hits \in Seq(Results), then \in {"onion", "clear", "searx", "send"} : Found(hits, then)
    BY <1>4, SourcesAnswer DEF SearchSearx, AfterAhmia
  <2> QED BY <2>1, FoundLists
<1> QED BY <1>1, <1>2, <1>3, <1>4

\* A search ends with a list that merges what it found.
LEMMA FinishLists ==
  ASSUME NEW found \in Seq(Results), Finish(found)
  PROVE  ListsOK' /\ MergedInv'
<1>1. all' = found /\ shown' = Merged(found) /\ Merges(Merged(found), found)
  BY MergedMerges DEF Finish
<1> QED BY <1>1 DEF Merges, Ranked, ListsOK, MergedInv

\* A step that leaves the search alone, and the channel within its capacity.
LEMMA OtherLists ==
  ASSUME HorusLInv, UNCHANGED <<all, shown, stage>>, RestOK'
  PROVE  HorusLInv'
BY DEF HorusLInv, ListsOK, MergedInv

LEMMA DhtTimeoutLists ==
  ASSUME HorusLInv, DhtTimeout
  PROVE  HorusLInv'
<1>1. ListsOK' /\ MergedInv'
  BY FinishLists DEF DhtTimeout, HorusLInv, ListsOK
<1>2. RestOK'
  BY DEF DhtTimeout, dhtVars, RestOK, HorusLInv
<1> QED BY <1>1, <1>2 DEF HorusLInv

\* What is sent finds room in the channel.
LEMMA SendLists ==
  ASSUME HorusIInv, HorusLInv, SendGet \/ SendPut
  PROVE  HorusLInv'
<1> DEFINE S == Query \union {Put}
<1>1. channel \in Seq(S) /\ Len(channel) \in Nat /\ Len(channel) < ChannelSize
  BY DEF HorusIInv, ControlOK, SendGet, SendPut
<1>2. PICK x : channel' = Append(channel, x)
  BY DEF SendGet, SendPut
<1> HIDE DEF S
<1>3. Len(channel') = Len(channel) + 1
  BY <1>1, <1>2
<1>4. UNCHANGED <<heard, socks, live, all, shown>> /\ page' \in {page, "ack"}
  BY DEF SendGet, SendPut, searchVars
<1>5. RestOK'
  BY <1>1, <1>3, <1>4, HorusAssumption DEF RestOK, HorusLInv
<1>6. CASE SendGet
  <2>1. stage' # "idle"
    BY <1>6 DEF SendGet
  <2> QED BY <2>1, <1>4, <1>5 DEF HorusLInv, ListsOK, MergedInv
<1>7. CASE SendPut
  BY <1>5, <1>7, OtherLists DEF SendPut, searchVars
<1> QED BY <1>6, <1>7

LEMMA TakeLists ==
  ASSUME HorusIInv, HorusLInv, TakePut \/ TakeGet
  PROVE  HorusLInv'
<1> DEFINE S == Query \union {Put}
<1>1. channel \in Seq(S) /\ channel # <<>> /\ channel' = Tail(channel)
  BY DEF HorusIInv, ControlOK, TakePut, TakeGet
<1>2. Head(channel) \in S
  BY <1>1
<1>3. Len(channel) \in Nat /\ Len(channel') <= Len(channel) /\ Len(channel') \in Nat
  <2> HIDE DEF S
  <2> QED BY <1>1
<1>4. live' \subseteq Query
  BY <1>2 DEF HorusLInv, RestOK, TakePut, TakeGet
<1>5. UNCHANGED <<all, shown, stage, heard, socks>> /\ page' \in {page, "idle"}
  BY DEF TakePut, TakeGet, searchVars
<1>6. RestOK'
  BY <1>3, <1>4, <1>5, HorusAssumption DEF RestOK, HorusLInv
<1> QED BY <1>5, <1>6, OtherLists

\* The shard that reaches the search is added before the list is made.
LEMMA ProgressLists ==
  ASSUME HorusLInv, QueryProgresses
  PROVE  HorusLInv'
<1>1. PICK q \in live, hits \in Shards :
        Progressed(q, hits) /\ live' \in {live, live \ {q}} /\ UNCHANGED <<socks, page, channel>>
  BY DEF QueryProgresses
<1>2. q \in Query /\ q.word \in Words
  BY DEF HorusLInv, RestOK, Query
<1>3. CASE q \in table /\ stage = "answer" /\ serial = q.to
  <2>1. Finish(all \o hits) /\ heard' = q.word
    BY <1>1, <1>3 DEF Progressed, Deliver
  <2>2. all \o hits \in Seq(Results)
    BY SourcesAnswer, ConcatProperties DEF HorusLInv, ListsOK
  <2>3. ListsOK' /\ MergedInv'
    BY <2>1, <2>2, FinishLists
  <2>4. RestOK'
    BY <1>1, <1>2, <2>1 DEF HorusLInv, RestOK
  <2> QED BY <2>3, <2>4 DEF HorusLInv
<1>4. CASE ~(q \in table /\ stage = "answer" /\ serial = q.to)
  <2>1. UNCHANGED searchVars
    BY <1>1, <1>4 DEF Progressed, Deliver
  <2>2. RestOK'
    BY <1>1, <2>1 DEF searchVars, HorusLInv, RestOK
  <2> QED BY <2>1, <2>2, OtherLists DEF searchVars
<1> QED BY <1>3, <1>4

LEMMA ListsStep == HorusIInv /\ HorusLInv /\ [HorusNext]_horusVars => HorusLInv'
<1> SUFFICES ASSUME HorusIInv, HorusLInv, [HorusNext]_horusVars PROVE HorusLInv'
  OBVIOUS
<1>1. CASE \E w \in Words : Search(w)
  BY <1>1, SearchLists
<1>2. CASE SearchLocal \/ AhmiaOverSocks \/ AhmiaOverClearnet \/ SearchSearx
  BY <1>2, SourceLists
<1>3. CASE SendGet \/ SendPut
  BY <1>3, SendLists
<1>4. CASE DhtTimeout
  BY <1>4, DhtTimeoutLists
<1>5. CASE SetSocksPort \/ IndexPage \/ UNCHANGED horusVars
  <2>1. UNCHANGED <<all, shown, stage, heard, channel, live>>
    BY <1>5 DEF SetSocksPort, IndexPage, horusVars, searchVars, dhtVars
  <2>2. RestOK'
    BY <1>5, <2>1 DEF SetSocksPort, IndexPage, horusVars, HorusLInv, RestOK
  <2> QED BY <2>1, <2>2, OtherLists
<1>6. CASE TakePut \/ TakeGet
  BY <1>6, TakeLists
<1>7. CASE QueryProgresses
  BY <1>7, ProgressLists
<1> QED BY <1>1, <1>2, <1>3, <1>4, <1>5, <1>6, <1>7 DEF HorusNext, SearchStep

LEMMA ListsInductive == HorusSpec => []HorusLInv
<1>1. HorusIInv /\ HorusLInv /\ [HorusNext]_horusVars => HorusLInv'
  BY ListsStep
<1>2. HorusInit => HorusLInv
  BY ListsInit
<1> QED BY <1>1, <1>2, HorusInductive, PTL DEF HorusSpec

\* The engine's state has its types, and the channel of the DHT task never holds
\* more than its capacity: who sends waits for room (lib.rs lines
\* 302-342).
THEOREM HorusTypesHold == HorusSpec => []HorusTypeOK
<1>1. HorusIInv /\ HorusLInv => HorusTypeOK
  <2> SUFFICES ASSUME HorusIInv, HorusLInv PROVE HorusTypeOK
    OBVIOUS
  <2>1. Range(all) \subseteq Results /\ Range(shown) \subseteq Results
    BY RangeOfSeq DEF HorusLInv, ListsOK
  <2>2. Range(channel) \subseteq Query \union {Put}
    BY RangeOfSeq DEF HorusIInv, ControlOK
  <2> QED BY <2>1, <2>2 DEF HorusIInv, ControlOK, HorusLInv, RestOK, HorusTypeOK
<1> QED BY <1>1, HorusInductive, ListsInductive, PTL

\* Whatever the sources answer and however many of them fail, the list a search
\* returns is ranked, has no two neighbours of one address, and leaves out an
\* address that was found only when it is full (lib.rs lines 200-220).
THEOREM MergeIsRanked == HorusSpec => []MergedInv
<1>1. HorusLInv => MergedInv
  BY DEF HorusLInv
<1> QED BY <1>1, ListsInductive, PTL
==============================================================================

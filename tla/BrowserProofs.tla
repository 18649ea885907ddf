---------------------------- MODULE BrowserProofs ----------------------------
(***************************************************************************)
(* Browser for every set of addresses, every mode and every bound: what    *)
(* the core tells the UI, in which order, and what the UI makes of it.     *)
(*                                                                         *)
(* The argument is about the queue of UiEvents.  For each part of the UI   *)
(* the newest message under way that touches it is right, and when none is *)
(* under way the part itself is.                                           *)
(***************************************************************************)
EXTENDS Browser, TabManagerProofs

Cache == INSTANCE TabPoolProofs WITH
  TabIds <- 0 .. MaxTabs - 1, Addresses <- Texts,
  Setups <- {Setup(s, l) : s \in Ports \union {None}, l \in Levels},
  FirstSetup <- Setup(None, "Standard")

-----------------------------------------------------------------------------
(* Queues of messages. *)

\* No message of these kinds is under way in q.
Quiet(q, kinds) == \A k \in DOMAIN q : q[k].kind \notin kinds

\* The newest message of these kinds in q, if there is one, is in E.
Told(q, kinds, E) ==
  \A k \in DOMAIN q :
    q[k].kind \in kinds /\ (\A j \in k + 1 .. Len(q) : q[j].kind \notin kinds) => q[k] \in E

\* The Tabs messages after the newest message of these kinds are in E.
Trailing(q, kinds, E) ==
  \A k \in DOMAIN q :
    q[k].kind = "Tabs" /\ (\A j \in k + 1 .. Len(q) : q[j].kind \notin kinds) => q[k] \in E

PageKinds == {"Url", "Html"}

\* Each page in q comes to the tab it was made for, when tab `id` is shown now.
Arrives(q, id) ==
  \A k \in DOMAIN q : q[k].kind \in PageKinds =>
    /\ \A j \in 1 .. k - 1 :
         q[j].kind = "Tabs" /\ (\A i \in j + 1 .. k - 1 : q[i].kind # "Tabs") => q[j].active = q[k].tab
    /\ (\A j \in 1 .. k - 1 : q[j].kind # "Tabs") => q[k].tab = id

\* Messages sent at once: pages for tab `id` only, each after it was named.
Announced(m, id) ==
  \A k \in DOMAIN m :
    /\ m[k].kind = "Tabs" => m[k].active = id
    /\ m[k].kind \in PageKinds => m[k].tab = id /\ \E j \in 1 .. k - 1 : m[j].kind = "Tabs"

LEMMA AppendParts ==
  ASSUME NEW M, NEW m \in Seq(M), NEW e \in M
  PROVE  /\ Append(m, e) \in Seq(M) /\ Len(Append(m, e)) = Len(m) + 1 /\ Len(m) \in Nat
         /\ DOMAIN m = 1 .. Len(m) /\ DOMAIN Append(m, e) = 1 .. Len(m) + 1
         /\ Append(m, e)[Len(m) + 1] = e
         /\ \A k \in 1 .. Len(m) : Append(m, e)[k] = m[k]
  OBVIOUS

LEMMA AppendTold ==
  ASSUME NEW M, NEW m \in Seq(M), NEW e \in M, NEW kinds, NEW E
  PROVE  /\ Quiet(Append(m, e), kinds) <=> Quiet(m, kinds) /\ e.kind \notin kinds
         /\ e.kind \in kinds /\ e \in E => Told(Append(m, e), kinds, E)
         /\ e.kind \notin kinds /\ Told(m, kinds, E) => Told(Append(m, e), kinds, E)
         /\ e.kind \in kinds /\ e.kind # "Tabs" => Trailing(Append(m, e), kinds, E)
         /\ e.kind \notin kinds /\ (e.kind = "Tabs" => e \in E) /\ Trailing(m, kinds, E)
              => Trailing(Append(m, e), kinds, E)
<1> DEFINE a == Append(m, e)
<1>1. /\ a \in Seq(M) /\ Len(a) = Len(m) + 1 /\ Len(m) \in Nat
      /\ DOMAIN m = 1 .. Len(m) /\ DOMAIN a = 1 .. Len(m) + 1
      /\ a[Len(m) + 1] = e /\ \A k \in 1 .. Len(m) : a[k] = m[k]
  OBVIOUS
<1> HIDE DEF a
<1>2. \A k \in DOMAIN a : k \in DOMAIN m \/ k = Len(m) + 1
  BY <1>1
<1>3. DOMAIN m \subseteq DOMAIN a /\ Len(m) + 1 \in DOMAIN a
  BY <1>1
<1>4. Quiet(a, kinds) <=> Quiet(m, kinds) /\ e.kind \notin kinds
  BY <1>1, <1>2, <1>3 DEF Quiet
<1>5. \A k \in DOMAIN m : /\ Len(m) + 1 \in k + 1 .. Len(a)
                          /\ k + 1 .. Len(m) \subseteq k + 1 .. Len(a)
                          /\ \A j \in k + 1 .. Len(m) : a[j] = m[j]
  BY <1>1
<1>6. e.kind \in kinds /\ e \in E => Told(a, kinds, E)
  BY <1>1, <1>2, <1>5 DEF Told
<1>7. e.kind \notin kinds /\ Told(m, kinds, E) => Told(a, kinds, E)
  BY <1>1, <1>2, <1>5 DEF Told
<1>8. e.kind \in kinds /\ e.kind # "Tabs" => Trailing(a, kinds, E)
  BY <1>1, <1>2, <1>5 DEF Trailing
<1>9. e.kind \notin kinds /\ (e.kind = "Tabs" => e \in E) /\ Trailing(m, kinds, E) => Trailing(a, kinds, E)
  BY <1>1, <1>2, <1>5 DEF Trailing
<1> QED BY <1>4, <1>6, <1>7, <1>8, <1>9 DEF a

LEMMA AppendAnnounced ==
  ASSUME NEW M, NEW m \in Seq(M), NEW e \in M, NEW id, Announced(m, id),
         e.kind = "Tabs" => e.active = id,
         e.kind \in PageKinds => e.tab = id /\ ~Quiet(m, {"Tabs"})
  PROVE  Announced(Append(m, e), id)
<1> DEFINE a == Append(m, e)
<1>1. /\ a \in Seq(M) /\ Len(a) = Len(m) + 1 /\ Len(m) \in Nat
      /\ DOMAIN m = 1 .. Len(m) /\ DOMAIN a = 1 .. Len(m) + 1
      /\ a[Len(m) + 1] = e /\ \A k \in 1 .. Len(m) : a[k] = m[k]
  OBVIOUS
<1> HIDE DEF a
<1> SUFFICES ASSUME NEW k \in DOMAIN a
             PROVE  /\ a[k].kind = "Tabs" => a[k].active = id
                    /\ a[k].kind \in PageKinds => a[k].tab = id /\ \E j \in 1 .. k - 1 : a[j].kind = "Tabs"
  BY DEF Announced, a
<1>2. CASE k \in DOMAIN m
  <2>1. \A j \in 1 .. k - 1 : a[j] = m[j]
    BY <1>1, <1>2
  <2> QED BY <1>1, <1>2, <2>1 DEF Announced
<1>3. CASE k = Len(m) + 1
  <2>1. k - 1 = Len(m) /\ a[k] = e
    BY <1>1, <1>3
  <2>2. ~Quiet(m, {"Tabs"}) => \E j \in 1 .. Len(m) : a[j].kind = "Tabs"
    BY <1>1 DEF Quiet
  <2> QED BY <2>1, <2>2
<1> QED BY <1>1, <1>2, <1>3

\* Messages sent behind those under way.
LEMMA SentTold ==
  ASSUME NEW M, NEW q \in Seq(M), NEW m \in Seq(M), NEW kinds, NEW E
  PROVE  /\ Quiet(q \o m, kinds) <=> Quiet(q, kinds) /\ Quiet(m, kinds)
         /\ Told(m, kinds, E) /\ (Quiet(m, kinds) => Told(q, kinds, E)) => Told(q \o m, kinds, E)
         /\ Trailing(m, kinds, E) /\ ~Quiet(m, kinds) => Trailing(q \o m, kinds, E)
<1> DEFINE a == q \o m
<1>1. /\ a \in Seq(M) /\ Len(a) = Len(q) + Len(m) /\ Len(m) \in Nat /\ Len(q) \in Nat
      /\ DOMAIN m = 1 .. Len(m) /\ DOMAIN q = 1 .. Len(q) /\ DOMAIN a = 1 .. Len(q) + Len(m)
      /\ \A k \in 1 .. Len(q) : a[k] = q[k]
      /\ \A k \in 1 .. Len(m) : a[Len(q) + k] = m[k]
  OBVIOUS
<1> HIDE DEF a
<1>2. \A k \in DOMAIN a : k \in DOMAIN q \/ (k - Len(q) \in DOMAIN m /\ k = Len(q) + (k - Len(q)))
  BY <1>1
<1>3. \A k \in DOMAIN q : k \in DOMAIN a
  BY <1>1
<1>4. \A k \in DOMAIN m : Len(q) + k \in DOMAIN a
  BY <1>1
<1>5. Quiet(a, kinds) <=> Quiet(q, kinds) /\ Quiet(m, kinds)
  BY <1>1, <1>2, <1>3, <1>4 DEF Quiet
<1>6. \A k \in DOMAIN q : /\ \A j \in DOMAIN m : Len(q) + j \in k + 1 .. Len(a)
                          /\ \A j \in k + 1 .. Len(q) : j \in k + 1 .. Len(a) /\ a[j] = q[j]
  BY <1>1
<1>7. \A k \in DOMAIN m : \A j \in k + 1 .. Len(m) :
         Len(q) + j \in Len(q) + k + 1 .. Len(a) /\ a[Len(q) + j] = m[j]
  BY <1>1
<1>8. ASSUME NEW k \in DOMAIN q, \A j \in k + 1 .. Len(a) : a[j].kind \notin kinds
      PROVE  Quiet(m, kinds) /\ \A j \in k + 1 .. Len(q) : q[j].kind \notin kinds
  BY <1>1, <1>6, <1>8 DEF Quiet
<1>9. ASSUME NEW k \in DOMAIN m, \A j \in Len(q) + k + 1 .. Len(a) : a[j].kind \notin kinds
      PROVE  \A j \in k + 1 .. Len(m) : m[j].kind \notin kinds
  BY <1>7, <1>9
<1>10. ASSUME Told(m, kinds, E), Quiet(m, kinds) => Told(q, kinds, E) PROVE Told(a, kinds, E)
  <2> SUFFICES ASSUME NEW k \in DOMAIN a, a[k].kind \in kinds,
                      \A j \in k + 1 .. Len(a) : a[j].kind \notin kinds
               PROVE  a[k] \in E
    BY DEF Told
  <2>1. CASE k \in DOMAIN q
    BY <1>1, <1>8, <1>10, <2>1 DEF Told
  <2>2. CASE k - Len(q) \in DOMAIN m /\ k = Len(q) + (k - Len(q))
    BY <1>1, <1>9, <1>10, <2>2 DEF Told
  <2> QED BY <1>2, <2>1, <2>2
<1>11. ASSUME Trailing(m, kinds, E), ~Quiet(m, kinds) PROVE Trailing(a, kinds, E)
  <2> SUFFICES ASSUME NEW k \in DOMAIN a, a[k].kind = "Tabs",
                      \A j \in k + 1 .. Len(a) : a[j].kind \notin kinds
               PROVE  a[k] \in E
    BY DEF Trailing
  <2>1. CASE k \in DOMAIN q
    BY <1>8, <1>11, <2>1
  <2>2. CASE k - Len(q) \in DOMAIN m /\ k = Len(q) + (k - Len(q))
    BY <1>1, <1>9, <1>11, <2>2 DEF Trailing
  <2> QED BY <1>2, <2>1, <2>2
<1> QED BY <1>5, <1>10, <1>11 DEF a

LEMMA SentArrives ==
  ASSUME NEW M, NEW q \in Seq(M), NEW m \in Seq(M), NEW id, NEW to, Arrives(q, id), Announced(m, to)
  PROVE  Arrives(q \o m, id)
<1> DEFINE a == q \o m
<1>1. /\ a \in Seq(M) /\ Len(a) = Len(q) + Len(m) /\ Len(m) \in Nat /\ Len(q) \in Nat
      /\ DOMAIN m = 1 .. Len(m) /\ DOMAIN q = 1 .. Len(q) /\ DOMAIN a = 1 .. Len(q) + Len(m)
      /\ \A k \in 1 .. Len(q) : a[k] = q[k]
      /\ \A k \in 1 .. Len(m) : a[Len(q) + k] = m[k]
  OBVIOUS
<1> HIDE DEF a
<1> SUFFICES ASSUME NEW k \in DOMAIN a, a[k].kind \in PageKinds
             PROVE  /\ \A j \in 1 .. k - 1 :
                         a[j].kind = "Tabs" /\ (\A i \in j + 1 .. k - 1 : a[i].kind # "Tabs")
                           => a[j].active = a[k].tab
                    /\ (\A j \in 1 .. k - 1 : a[j].kind # "Tabs") => a[k].tab = id
  BY DEF Arrives, a
<1>2. CASE k \in DOMAIN q
  <2>1. \A j \in 1 .. k - 1 : a[j] = q[j]
    BY <1>1, <1>2
  <2>2. \A j \in 1 .. k - 1 : \A i \in j + 1 .. k - 1 : i \in 1 .. k - 1
    BY <1>1, <1>2
  <2>3. a[k] = q[k] /\ q[k].kind \in PageKinds
    BY <1>1, <1>2
  <2>4. /\ \A j \in 1 .. k - 1 :
             q[j].kind = "Tabs" /\ (\A i \in j + 1 .. k - 1 : q[i].kind # "Tabs")
               => q[j].active = q[k].tab
        /\ (\A j \in 1 .. k - 1 : q[j].kind # "Tabs") => q[k].tab = id
    BY <1>2, <2>3 DEF Arrives
  <2>5. ASSUME NEW j \in 1 .. k - 1, a[j].kind = "Tabs",
               \A i \in j + 1 .. k - 1 : a[i].kind # "Tabs"
        PROVE  a[j].active = a[k].tab
    BY <2>1, <2>2, <2>3, <2>4, <2>5
  <2> QED BY <2>1, <2>3, <2>4, <2>5
<1>3. CASE k \in Len(q) + 1 .. Len(q) + Len(m)
  <2> DEFINE n == k - Len(q)
  <2>1. n \in DOMAIN m /\ a[k] = m[n]
    BY <1>1, <1>3
  <2>2. PICK x \in 1 .. n - 1 : m[x].kind = "Tabs"
    BY <2>1 DEF Announced
  <2>3. m[n].tab = to
    BY <2>1 DEF Announced
  <2>4. x \in 1 .. Len(m) /\ Len(q) + x \in 1 .. k - 1 /\ a[Len(q) + x].kind = "Tabs"
    BY <1>1, <1>3, <2>1, <2>2
  <2>5. ASSUME NEW j \in 1 .. k - 1, a[j].kind = "Tabs",
               \A i \in j + 1 .. k - 1 : a[i].kind # "Tabs"
        PROVE  a[j].active = to
    <3>1. ~(Len(q) + x \in j + 1 .. k - 1)
      BY <2>4, <2>5
    <3>0. j \in Int /\ k \in Int /\ x \in Int /\ Len(q) + x <= k - 1
      BY <1>1, <1>3, <2>4, <2>2
    <3>2. j \in Len(q) + 1 .. Len(q) + Len(m)
      BY <1>1, <1>3, <2>2, <3>0, <3>1
    <3>3. j - Len(q) \in DOMAIN m /\ a[j] = m[j - Len(q)]
      BY <1>1, <3>2
    <3> QED BY <2>5, <3>3 DEF Announced
  <2> QED BY <2>1, <2>3, <2>4, <2>5
<1> QED BY <1>1, <1>2, <1>3

\* The UI takes the first message.
LEMMA TakenTold ==
  ASSUME NEW M, NEW q \in Seq(M), q # <<>>, NEW kinds, NEW E
  PROVE  /\ Tail(q) \in Seq(M) /\ Head(q) \in M
         /\ Quiet(q, kinds) <=> Quiet(Tail(q), kinds) /\ Head(q).kind \notin kinds
         /\ Told(q, kinds, E) => Told(Tail(q), kinds, E)
         /\ Told(q, kinds, E) /\ Quiet(Tail(q), kinds) /\ Head(q).kind \in kinds => Head(q) \in E
         /\ Trailing(q, kinds, E) => Trailing(Tail(q), kinds, E)
         /\ Trailing(q, kinds, E) /\ Quiet(Tail(q), kinds) /\ Head(q).kind = "Tabs" => Head(q) \in E
<1> DEFINE t == Tail(q)
           h == Head(q)
<1>1. /\ t \in Seq(M) /\ h \in M /\ Len(q) \in Nat /\ Len(t) = Len(q) - 1 /\ Len(t) \in Nat
      /\ DOMAIN q = 1 .. Len(q) /\ DOMAIN t = 1 .. Len(t) /\ 1 \in DOMAIN q /\ q[1] = h
      /\ \A k \in 1 .. Len(t) : t[k] = q[k + 1]
  <2>1. Len(q) \in Nat \ {0}
    BY EmptySeq
  <2> QED BY <2>1
<1> HIDE DEF t, h
<1>2. \A k \in DOMAIN q : k = 1 \/ (k - 1 \in DOMAIN t /\ q[k] = t[k - 1])
  BY <1>1
<1>3. \A k \in DOMAIN t : k + 1 \in DOMAIN q
  BY <1>1
<1>4. Quiet(q, kinds) <=> Quiet(t, kinds) /\ h.kind \notin kinds
  BY <1>1, <1>2, <1>3 DEF Quiet
<1>5. ASSUME NEW k \in DOMAIN t, \A j \in k + 1 .. Len(t) : t[j].kind \notin kinds
      PROVE  \A j \in k + 2 .. Len(q) : q[j].kind \notin kinds
  <2> SUFFICES ASSUME NEW j \in k + 2 .. Len(q) PROVE q[j].kind \notin kinds
    OBVIOUS
  <2>1. j - 1 \in k + 1 .. Len(t) /\ q[j] = t[j - 1]
    BY <1>1
  <2> QED BY <1>5, <2>1
<1>6. \A k \in DOMAIN t : k + 1 + 1 = k + 2
  BY <1>1
<1>7. Told(q, kinds, E) => Told(t, kinds, E)
  BY <1>1, <1>3, <1>5, <1>6 DEF Told
<1>8. Trailing(q, kinds, E) => Trailing(t, kinds, E)
  BY <1>1, <1>3, <1>5, <1>6 DEF Trailing
<1>9. Quiet(t, kinds) => \A j \in 1 + 1 .. Len(q) : q[j].kind \notin kinds
  <2> SUFFICES ASSUME Quiet(t, kinds), NEW j \in 2 .. Len(q) PROVE q[j].kind \notin kinds
    OBVIOUS
  <2>1. j - 1 \in DOMAIN t /\ q[j] = t[j - 1]
    BY <1>1
  <2> QED BY <2>1 DEF Quiet
<1>10. Told(q, kinds, E) /\ Quiet(t, kinds) /\ h.kind \in kinds => h \in E
  BY <1>1, <1>9 DEF Told
<1>11. Trailing(q, kinds, E) /\ Quiet(t, kinds) /\ h.kind = "Tabs" => h \in E
  BY <1>1, <1>9 DEF Trailing
<1> QED BY <1>1, <1>4, <1>7, <1>8, <1>10, <1>11 DEF t, h

LEMMA TakenArrives ==
  ASSUME NEW M, NEW q \in Seq(M), q # <<>>, NEW id, Arrives(q, id)
  PROVE  /\ Head(q).kind \in PageKinds => Head(q).tab = id
         /\ Arrives(Tail(q), IF Head(q).kind = "Tabs" THEN Head(q).active ELSE id)
<1> DEFINE t == Tail(q)
           h == Head(q)
           now == IF h.kind = "Tabs" THEN h.active ELSE id
<1>1. /\ t \in Seq(M) /\ h \in M /\ Len(q) \in Nat /\ Len(t) = Len(q) - 1 /\ Len(t) \in Nat
      /\ DOMAIN q = 1 .. Len(q) /\ DOMAIN t = 1 .. Len(t) /\ 1 \in DOMAIN q /\ q[1] = h
      /\ \A k \in 1 .. Len(t) : t[k] = q[k + 1]
  <2>1. Len(q) \in Nat \ {0}
    BY EmptySeq
  <2> QED BY <2>1
<1> HIDE DEF t, h
<1>2. h.kind \in PageKinds => h.tab = id
  BY <1>1 DEF Arrives
<1>3. ASSUME NEW k \in DOMAIN t, t[k].kind \in PageKinds
      PROVE  /\ \A j \in 1 .. k - 1 :
                  t[j].kind = "Tabs" /\ (\A i \in j + 1 .. k - 1 : t[i].kind # "Tabs")
                    => t[j].active = t[k].tab
             /\ (\A j \in 1 .. k - 1 : t[j].kind # "Tabs") => t[k].tab = now
  <2>1. k + 1 \in DOMAIN q /\ q[k + 1] = t[k]
    BY <1>1
  <2>2. /\ \A j \in 1 .. k : q[j].kind = "Tabs" /\ (\A i \in j + 1 .. k : q[i].kind # "Tabs")
                               => q[j].active = t[k].tab
        /\ (\A j \in 1 .. k : q[j].kind # "Tabs") => t[k].tab = id
    <3> DEFINE n == k + 1
    <3>1. n - 1 = k /\ n \in DOMAIN q /\ q[n] = t[k]
      BY <1>1
    <3> HIDE DEF n
    <3>2. /\ \A j \in 1 .. n - 1 :
               q[j].kind = "Tabs" /\ (\A i \in j + 1 .. n - 1 : q[i].kind # "Tabs")
                 => q[j].active = q[n].tab
          /\ (\A j \in 1 .. n - 1 : q[j].kind # "Tabs") => q[n].tab = id
      BY <1>3, <3>1 DEF Arrives
    <3> QED BY <3>1, <3>2
  <2>3. ASSUME NEW j \in 1 .. k - 1, t[j].kind = "Tabs",
               \A i \in j + 1 .. k - 1 : t[i].kind # "Tabs"
        PROVE  t[j].active = t[k].tab
    <3>1. j + 1 \in 1 .. k /\ q[j + 1] = t[j]
      BY <1>1
    <3>2. \A i \in j + 1 + 1 .. k : q[i].kind # "Tabs"
      <4> SUFFICES ASSUME NEW i \in j + 1 + 1 .. k PROVE q[i].kind # "Tabs"
        OBVIOUS
      <4>0. j \in Int /\ k \in Int /\ k <= Len(t) /\ 1 <= j
        BY <1>1
      <4>1. i - 1 \in j + 1 .. k - 1 /\ q[i] = t[i - 1]
        BY <1>1, <4>0
      <4> QED BY <2>3, <4>1
    <3> QED BY <2>2, <2>3, <3>1, <3>2
  <2>4. ASSUME \A j \in 1 .. k - 1 : t[j].kind # "Tabs" PROVE t[k].tab = now
    <3>1. \A i \in 1 + 1 .. k : q[i].kind # "Tabs"
      <4> SUFFICES ASSUME NEW i \in 2 .. k PROVE q[i].kind # "Tabs"
        OBVIOUS
      <4>1. i - 1 \in 1 .. k - 1 /\ q[i] = t[i - 1]
        BY <1>1
      <4> QED BY <2>4, <4>1
    <3>2. 1 \in 1 .. k
      BY <1>1
    <3>3. CASE h.kind = "Tabs"
      BY <1>1, <2>2, <3>1, <3>2, <3>3
    <3>4. CASE h.kind # "Tabs"
      <4>1. \A j \in 1 .. k : j = 1 \/ j \in 1 + 1 .. k
        BY <1>1
      <4> QED BY <1>1, <2>2, <3>1, <3>4, <4>1
    <3> QED BY <3>3, <3>4
  <2> QED BY <2>3, <2>4
<1> QED BY <1>2, <1>3 DEF Arrives, t, h

-----------------------------------------------------------------------------
(* The inductive invariant. *)

\* The commands the UI gives, and the messages the core sends, once n tabs were
\* opened.
Command(n) ==
  [do : {"Back", "Forward", "Refresh", "NewTab"}]
    \union [do : {"SwitchTab", "CloseTab"}, id : 0 .. n - 1]
    \union [do : {"Navigate"}, url : Urls]

TabList(n) ==
  {e \in [kind : {"Tabs"}, urls : UNION {[s -> Urls] : s \in SUBSET (0 .. n - 1)}, active : 0 .. n - 1] :
     e.active \in DOMAIN e.urls}

Page(n) == [kind : {"Url"}, url : Web, tab : 0 .. n - 1] \union [kind : {"Html"}, url : Urls \ Web, tab : 0 .. n - 1]

Message(n) ==
  TabList(n) \union Page(n)
    \union [kind : {"Bar"}, url : Texts]
    \union [kind : {"Status"}, protocol : Net!Protocols]
    \union [kind : {"Socks"}, port : Ports]
    \union [kind : {"Privacy"}, level : Levels]
    \union [kind : {"Error"}]

NetTypes ==
  /\ protocol \in Net!Protocols
  /\ torUp \in BOOLEAN
  /\ port \in Ports \union {None}
  /\ heard \in {"mode", "port", "nothing"}
  /\ level \in Levels

QueueTypes ==
  /\ commands \in Seq(Command(next))
  /\ Len(commands) <= ChannelSize
  /\ waiting \in Command(next) \union {None}
  /\ events \in Seq(Message(next))

UiTypes ==
  /\ strip \subseteq 0 .. next - 1
  /\ shown \in 0 .. next - 1
  /\ bar \in Texts
  /\ uiPort \in Ports \union {None}
  /\ Cache!WellFormed(pool)
  /\ Cache!Sound(pool)
  /\ Cache!Small(pool)

\* What the UI draws and the view it sends pages to.
ScreenInv ==
  /\ pool.visible \subseteq {shown}
  /\ shown \in Views!Cached(pool) => pool.current = shown
  /\ Views!Cached(pool) \subseteq strip \union {shown}
  /\ ~BuildMayFail => pool.current = shown /\ pool.visible = {shown}
  /\ Arrives(events, shown)

\* Before the core is up it has said nothing.
BootInv == phase = "booting" => events = <<>> /\ port = None /\ tabs[active].url = Home

RightTabs == [kind : {"Tabs"}, urls : [DOMAIN tabs -> Urls], active : {active}]

\* The newest list of tabs is the core's.
StripInv ==
  phase = "up" =>
    /\ Told(events, {"Tabs"}, RightTabs)
    /\ Quiet(events, {"Tabs"}) => strip = DOMAIN tabs /\ shown = active

\* The level of the views: the stored one, which no view is told at a start, or
\* the one chosen last.
LevelOf(chosen) == {chosen} \union (IF chosen = StoredLevel THEN {"Standard"} ELSE {})

LevelInv ==
  /\ Told(events, {"Privacy"}, {PrivacyUpdated(level)})
  /\ Quiet(events, {"Privacy"}) => pool.setup.level \in LevelOf(level)

\* A port that was published is never withdrawn, so the UI is told of each.
PortInv ==
  /\ port = None => uiPort = None /\ Quiet(events, {"Socks"})
  /\ heard # "nothing" =>
       /\ Told(events, {"Socks"}, {SocksReady(port)})
       /\ Quiet(events, {"Socks"}) => uiPort = port

BadgeInv ==
  phase = "up" /\ heard = "mode" =>
    /\ Told(events, {"Status"}, {StatusChanged(protocol)})
    /\ Quiet(events, {"Status"}) => label = LabelOf(protocol)

\* The messages whose handlers change what a view shows.
Touching == PageKinds \union {"Status", "Socks", "Privacy", "Error"}

RightPage == [kind : PageKinds, url : {tabs[active].url}, tab : {active}]

SamePage == {e \in RightTabs : e.urls[active] = tabs[active].url}

Pages == {tabs[active].url} \union Links \union (IF BuildMayFail THEN {Blank} ELSE {})

\* The newest message that changes what is shown is the page of the active tab.
PageInv ==
  phase = "up" /\ tabs[active].url \notin MayGetNoPage =>
    /\ Told(events, Touching, RightPage)
    /\ Trailing(events, Touching, SamePage)
    /\ Quiet(events, Touching) =>
         shown = active /\ (shown \in Views!Cached(pool) => pool.slots[shown].page \in Pages)

\* The port that a web page is loaded through.
PortFor(u) == IF label \in Proxied \/ u \in Onion THEN uiPort ELSE None

\* The page of a web tab put the views on the right proxy, and nothing that came
\* behind it changed that.
ProxyInv ==
  phase = "up" /\ tabs[active].url \in Web \ MayGetNoPage /\ Quiet(events, Touching) =>
    pool.setup.socks = PortFor(tabs[active].url)

-----------------------------------------------------------------------------
(* The pool of the UI is one that TabPoolProofs is about. *)

\* The two instances of the pool have the same methods.
LEMMA SameMethods ==
  ASSUME NEW p, NEW id, NEW url, NEW page, NEW setup, NEW gone
  PROVE  /\ Views!Cached(p) = Cache!Cached(p)
         /\ Views!HasActive(p) <=> Cache!HasActive(p)
         /\ Views!Built(setup, url) = Cache!Built(setup, url)
         /\ Views!Switched(p, id, url) = Cache!Switched(p, id, url)
         /\ Views!SwitchFailed(p) = Cache!SwitchFailed(p)
         /\ Views!Closed(p, gone) = Cache!Closed(p, gone)
         /\ Views!Rebuilt(setup, url, id) = Cache!Rebuilt(setup, url, id)
         /\ Views!RebuildFailed(p, setup) = Cache!RebuildFailed(p, setup)
         /\ Views!Show(p, url, page) = Cache!Show(p, url, page)
<1> USE DEF Views!Cached, Cache!Cached, Views!Pool, Cache!Pool, Views!ViewOf, Cache!ViewOf
<1>1. Views!Cached(p) = Cache!Cached(p) /\ (Views!HasActive(p) <=> Cache!HasActive(p))
  BY DEF Views!HasActive, Cache!HasActive
<1>2. Views!Built(setup, url) = Cache!Built(setup, url)
  BY DEF Views!Built, Cache!Built
<1>3. Views!Switched(p, id, url) = Cache!Switched(p, id, url)
  BY DEF Views!Switched, Cache!Switched, Views!Reshown, Cache!Reshown, Views!Recalled, Cache!Recalled,
    Views!Added, Cache!Added, Views!Evicted, Cache!Evicted, Views!Victims, Cache!Victims,
    Views!Fits, Cache!Fits, Views!Built, Cache!Built, Views!Showing, Cache!Showing,
    Views!WithView, Cache!WithView, Views!WithoutViews, Cache!WithoutViews,
    Views!Touch, Cache!Touch, Views!Retain, Cache!Retain, Views!Place, Cache!Place
<1>4. Views!SwitchFailed(p) = Cache!SwitchFailed(p)
  BY DEF Views!SwitchFailed, Cache!SwitchFailed
<1>5. Views!Closed(p, gone) = Cache!Closed(p, gone)
  <2>1. Views!Retain(p.lru, gone) = Cache!Retain(p.lru, gone)
    BY DEF Views!Retain, Cache!Retain, Views!Place, Cache!Place,
      Views!Cardinality, Cache!Cardinality
  <2>2. Views!WithoutViews(p.slots, gone) = Cache!WithoutViews(p.slots, gone)
    BY DEF Views!WithoutViews, Cache!WithoutViews
  <2>3. \A left : Views!Last(left) = Cache!Last(left)
    BY DEF Views!Last, Cache!Last
  <2> QED BY <2>1, <2>2, <2>3, Zenon DEF Views!Closed, Cache!Closed
<1>6. Views!Rebuilt(setup, url, id) = Cache!Rebuilt(setup, url, id)
  BY DEF Views!Rebuilt, Cache!Rebuilt, Views!Built, Cache!Built
<1>7. Views!RebuildFailed(p, setup) = Cache!RebuildFailed(p, setup)
  BY DEF Views!RebuildFailed, Cache!RebuildFailed
<1>8. Views!Show(p, url, page) = Cache!Show(p, url, page)
  BY DEF Views!Show, Cache!Show, Views!HasActive, Cache!HasActive, Views!WithView, Cache!WithView,
    Views!Showing, Cache!Showing
<1> QED BY <1>1, <1>2, <1>3, <1>4, <1>5, <1>6, <1>7, <1>8

\* What the lemmas about the pool assume of its constants.
LEMMA PoolConstants ==
  /\ Web \subseteq Texts
  /\ Blank \notin Texts
  /\ None \notin 0 .. MaxTabs - 1
  /\ Setup(None, "Standard") \in {Setup(s, l) : s \in Ports \union {None}, l \in Levels}
  /\ MaxCached \in Nat \ {0}
BY AddressAssumption, ModeAssumption DEF Texts, Levels

Setups == {Setup(s, l) : s \in Ports \union {None}, l \in Levels}

PoolOK(p) == Cache!WellFormed(p) /\ Cache!Sound(p) /\ Cache!Small(p)

LEMMA PoolOKPrimed == PoolOK(pool)' <=> PoolOK(pool')
BY DEF PoolOK, Cache!WellFormed, Cache!Sound, Cache!Small, Cache!Cached, Cache!Cardinality

LEMMA SwitchesPoolEffect ==
  ASSUME NEW p, PoolOK(p), NEW id \in 0 .. MaxTabs - 1, NEW url \in Urls, SwitchesPool(p, id, url)
  PROVE  /\ PoolOK(pool')
         /\ pool'.visible \subseteq {id}
         /\ id \in Views!Cached(pool') => pool'.current = id
         /\ Views!Cached(pool') \subseteq Views!Cached(p) \union {id}
         /\ pool'.setup = p.setup
         /\ ~BuildMayFail => pool'.current = id /\ pool'.visible = {id}
         /\ id \in Views!Cached(p) /\ p.current = id => pool'.slots = p.slots
         /\ id \notin Views!Cached(p) /\ id \in Views!Cached(pool')
              => pool'.slots[id].page \in {url, Blank}
<1>1. url \in Texts \union {Blank}
  BY DEF Texts
<1>2. CASE pool' = Views!Switched(p, id, url)
  <2>1. pool' = Cache!Switched(p, id, url)
    BY <1>2, SameMethods
  <2>2. Cache!WellFormed(Cache!Switched(p, id, url))
    BY <1>1, PoolConstants, Cache!SwitchedWellFormed DEF Cache!Shown, PoolOK
  <2>3. Cache!Sound(Cache!Switched(p, id, url))
    BY Cache!SwitchedSound, PoolConstants DEF PoolOK
  <2>4. /\ pool'.current = id /\ pool'.visible = {id} /\ pool'.setup = p.setup
        /\ id \in Cache!Cached(pool') /\ Cache!Cached(pool') \subseteq Cache!Cached(p) \union {id}
        /\ id \in Cache!Cached(p) /\ p.current = id => pool'.slots = p.slots
        /\ id \notin Cache!Cached(p) => pool'.slots[id] = Cache!Built(p.setup, url)
    BY <2>1, Cache!SwitchedShows, PoolConstants DEF PoolOK
  <2>5. Cache!Built(p.setup, url).page \in {url, Blank}
    BY DEF Cache!Built, Cache!ViewOf
  <2>6. Cache!Small(Cache!Switched(p, id, url))
    BY <1>1, PoolConstants, Cache!SwitchedSmall DEF Cache!Shown, PoolOK
  <2> QED BY <2>1, <2>2, <2>3, <2>4, <2>5, <2>6, SameMethods DEF PoolOK
<1>3. CASE BuildMayFail /\ id \notin Views!Cached(p) /\ pool' = Views!SwitchFailed(p)
  <2>1. pool' = Cache!SwitchFailed(p) /\ p.setup \in Setups
    BY <1>3, SameMethods DEF PoolOK, Cache!WellFormed, Setups
  <2>a. Cache!WellFormed(p) /\ Cache!Sound(p)
    BY DEF PoolOK
  <2>b. Cache!WellFormed(Cache!SwitchFailed(p))
    BY <2>1, <2>a, Cache!FailedWellFormed, PoolConstants DEF Setups
  <2>2. Cache!WellFormed(pool') /\ Cache!Sound(pool')
    BY <2>1, <2>a, <2>b, Cache!FailedSound, PoolConstants
  <2>3. /\ pool'.visible = {} /\ pool'.setup = p.setup
        /\ pool'.slots = p.slots /\ pool'.current = p.current
        /\ Cache!Cached(pool') = Cache!Cached(p)
    BY <2>1, Cache!FailedHides, PoolConstants
  <2>4. Cache!Small(pool')
    BY <2>3 DEF Cache!Small, PoolOK
  <2> QED BY <1>3, <2>2, <2>3, <2>4, SameMethods DEF PoolOK
<1> QED BY <1>2, <1>3 DEF SwitchesPool

LEMMA RebuildsPoolEffect ==
  ASSUME PoolOK(pool), NEW setup \in Setups, NEW url \in Texts \union {Blank},
         NEW id \in 0 .. MaxTabs - 1, RebuildsPool(setup, url, id)
  PROVE  /\ PoolOK(pool')
         /\ pool'.visible \subseteq {id}
         /\ id \in Views!Cached(pool') => pool'.current = id
         /\ Views!Cached(pool') \subseteq {id}
         /\ pool'.setup = setup
         /\ ~BuildMayFail => pool'.current = id /\ pool'.visible = {id}
         /\ id \in Views!Cached(pool') => pool'.slots[id] = Views!Built(setup, url)
<1>1. CASE pool' = Views!Rebuilt(setup, url, id)
  <2>1. pool' = Cache!Rebuilt(setup, url, id)
    BY <1>1, SameMethods
  <2>2. Cache!WellFormed(pool') /\ Cache!Sound(pool')
    BY <2>1, Cache!RebuiltWellFormed, Cache!RebuiltSound, PoolConstants DEF Setups, Cache!Shown
  <2>3. /\ pool'.current = id /\ pool'.visible = {id} /\ pool'.setup = setup
        /\ Cache!Cached(pool') = {id} /\ pool'.slots[id] = Cache!Built(setup, url)
    BY <2>1, Cache!RebuiltShows, PoolConstants
  <2>4. Cache!Small(pool')
    BY <2>1, Cache!RebuiltSmall, PoolConstants
  <2> QED BY <2>2, <2>3, <2>4, SameMethods DEF PoolOK
<1>2. CASE BuildMayFail /\ pool' = Views!RebuildFailed(pool, setup)
  <2>1. pool' = Cache!RebuildFailed(pool, setup)
    BY <1>2, SameMethods
  <2>2. Cache!WellFormed(pool') /\ Cache!Sound(pool')
    BY <2>1, Cache!FailedWellFormed, Cache!FailedSound, PoolConstants DEF Setups, PoolOK
  <2>3. pool'.visible = {} /\ pool'.setup = setup /\ Cache!Cached(pool') = {}
    BY <2>1, Cache!FailedHides, PoolConstants
  <2>4. Cache!Small(pool')
    BY <2>1, Cache!RebuildFailedSmall, PoolConstants
  <2> QED BY <1>2, <2>2, <2>3, <2>4, SameMethods DEF PoolOK
<1> QED BY <1>1, <1>2 DEF RebuildsPool

LEMMA ShowEffect ==
  ASSUME PoolOK(pool), NEW lastUrl \in Texts \union {Blank}, NEW page \in Texts \union {Blank},
         pool' = Views!Show(pool, lastUrl, page)
  PROVE  /\ PoolOK(pool')
         /\ pool'.current = pool.current /\ pool'.visible = pool.visible /\ pool'.setup = pool.setup
         /\ Views!Cached(pool') = Views!Cached(pool)
         /\ Views!HasActive(pool) =>
              pool'.slots[pool.current] = Views!Showing(pool.slots[pool.current], lastUrl, page)
         /\ \A i \in Views!Cached(pool) \ {pool.current} : pool'.slots[i] = pool.slots[i]
<1>1. pool' = Cache!Show(pool, lastUrl, page)
  BY SameMethods
<1>2. Cache!WellFormed(pool') /\ Cache!Sound(pool')
  BY <1>1, Cache!ShowWellFormed, Cache!ShowSound, PoolConstants DEF PoolOK, Cache!Shown
<1>3. /\ pool'.current = pool.current /\ pool'.visible = pool.visible /\ pool'.setup = pool.setup
      /\ Cache!Cached(pool') = Cache!Cached(pool)
      /\ Cache!HasActive(pool) =>
           pool'.slots[pool.current] = Cache!Showing(pool.slots[pool.current], lastUrl, page)
      /\ \A i \in Cache!Cached(pool) \ {pool.current} : pool'.slots[i] = pool.slots[i]
  BY <1>1, Cache!ShowKeeps, PoolConstants
<1>4. Cache!Small(pool')
  BY <1>3 DEF Cache!Small, PoolOK
<1> QED BY <1>2, <1>3, <1>4, SameMethods DEF PoolOK, Cache!Showing, Views!Showing, Cache!ViewOf, Views!ViewOf

\* The views of closed tabs go; the others, and the active tab, stay.
LEMMA ClosedEffect ==
  ASSUME NEW p, PoolOK(p), NEW gone
  PROVE  LET q == Views!Closed(p, gone) IN
         /\ PoolOK(q)
         /\ Views!Cached(q) = Views!Cached(p) \ gone
         /\ q.setup = p.setup
         /\ \A i \in Views!Cached(p) \ gone : q.slots[i] = p.slots[i]
         /\ p.current \notin gone => q.current = p.current
<1> DEFINE q == Cache!Closed(p, gone)
<1>1. Cache!WellFormed(q) /\ Cache!Cached(q) = Cache!Cached(p) \ gone
  BY Cache!ClosedWellFormed, PoolConstants DEF PoolOK
<1>2. Cache!Sound(q)
  BY Cache!ClosedSound, PoolConstants DEF PoolOK
<1>3. /\ q.setup = p.setup
      /\ \A i \in Cache!Cached(p) \ gone : q.slots[i] = p.slots[i]
      /\ p.current \notin gone => q.current = p.current
  BY Cache!ClosedKeeps, PoolConstants DEF PoolOK
<1>4. Cache!Small(q)
  BY Cache!ClosedSmall, PoolConstants DEF PoolOK
<1> HIDE DEF q
<1>5. Views!Closed(p, gone) = q
  BY SameMethods DEF q
<1> QED BY <1>1, <1>2, <1>3, <1>4, <1>5, SameMethods DEF PoolOK

-----------------------------------------------------------------------------
(* Commands and messages. *)

LEMMA CommandParts ==
  ASSUME NEW n, NEW c \in Command(n)
  PROVE  /\ "do" \in DOMAIN c
         /\ c.do = "Navigate" => c.url \in Urls
         /\ c.do \in {"SwitchTab", "CloseTab"} => c.id \in 0 .. n - 1
BY DEF Command

LEMMA CommandsMade ==
  ASSUME NEW n
  PROVE  /\ \A do \in {"Back", "Forward", "Refresh", "NewTab"} : [do |-> do] \in Command(n)
         /\ \A do \in {"SwitchTab", "CloseTab"}, id \in 0 .. n - 1 : [do |-> do, id |-> id] \in Command(n)
         /\ \A u \in Urls : [do |-> "Navigate", url |-> u] \in Command(n)
BY DEF Command

LEMMA MessageParts ==
  ASSUME NEW n, NEW e \in Message(n)
  PROVE  /\ e.kind \in {"Tabs", "Url", "Html", "Bar", "Status", "Socks", "Privacy", "Error"}
         /\ e.kind = "Tabs" => /\ DOMAIN e.urls \in SUBSET (0 .. n - 1)
                               /\ e.urls \in [DOMAIN e.urls -> Urls]
                               /\ e.active \in DOMAIN e.urls /\ e.active \in 0 .. n - 1
         /\ e.kind = "Url"  => e.url \in Web /\ e.tab \in 0 .. n - 1
         /\ e.kind = "Html" => e.url \in Urls \ Web /\ e.tab \in 0 .. n - 1
         /\ e.kind = "Bar" => e.url \in Texts
         /\ e.kind = "Status" => e.protocol \in Net!Protocols
         /\ e.kind = "Socks" => e.port \in Ports
         /\ e.kind = "Privacy" => e.level \in Levels
<1>1. CASE e \in TabList(n)
  BY <1>1 DEF TabList
<1>2. CASE e \in Page(n)
  BY <1>2 DEF Page
<1>3. CASE e \notin TabList(n) \union Page(n)
  BY <1>3 DEF Message
<1> QED BY <1>1, <1>2, <1>3

LEMMA MessagesMade ==
  ASSUME NEW n, NEW id \in 0 .. n - 1
  PROVE  /\ \A urls : DOMAIN urls \in SUBSET (0 .. n - 1) /\ urls \in [DOMAIN urls -> Urls] /\ id \in DOMAIN urls
              => [kind |-> "Tabs", urls |-> urls, active |-> id] \in Message(n)
         /\ \A u \in Web : [kind |-> "Url", url |-> u, tab |-> id] \in Message(n)
         /\ \A u \in Urls \ Web : [kind |-> "Html", url |-> u, tab |-> id] \in Message(n)
         /\ \A u \in Texts : SetUrlBar(u) \in Message(n)
         /\ \A p \in Net!Protocols : StatusChanged(p) \in Message(n)
         /\ \A p \in Ports : SocksReady(p) \in Message(n)
         /\ \A l \in Levels : PrivacyUpdated(l) \in Message(n)
         /\ ConfigError \in Message(n)
<1>1. \A urls : DOMAIN urls \in SUBSET (0 .. n - 1) /\ urls \in [DOMAIN urls -> Urls] /\ id \in DOMAIN urls
         => [kind |-> "Tabs", urls |-> urls, active |-> id] \in TabList(n)
  BY DEF TabList
<1>2. /\ \A u \in Web : [kind |-> "Url", url |-> u, tab |-> id] \in Page(n)
      /\ \A u \in Urls \ Web : [kind |-> "Html", url |-> u, tab |-> id] \in Page(n)
  BY DEF Page
<1>3. /\ \A u \in Texts : SetUrlBar(u) \in Message(n)
      /\ \A p \in Net!Protocols : StatusChanged(p) \in Message(n)
      /\ \A p \in Ports : SocksReady(p) \in Message(n)
      /\ \A l \in Levels : PrivacyUpdated(l) \in Message(n)
      /\ ConfigError \in Message(n)
  BY DEF Message, SetUrlBar, StatusChanged, SocksReady, PrivacyUpdated, ConfigError
<1> QED BY <1>1, <1>2, <1>3 DEF Message

\* Opening a tab makes no command and no message meaningless.
LEMMA MoreTabs ==
  ASSUME NEW n \in Nat, NEW k \in Nat, n <= k
  PROVE  /\ 0 .. n - 1 \subseteq 0 .. k - 1
         /\ Command(n) \subseteq Command(k) /\ Seq(Command(n)) \subseteq Seq(Command(k))
         /\ Message(n) \subseteq Message(k) /\ Seq(Message(n)) \subseteq Seq(Message(k))
<1>1. 0 .. n - 1 \subseteq 0 .. k - 1
  OBVIOUS
<1>2. Command(n) \subseteq Command(k)
  BY <1>1 DEF Command
<1>3. TabList(n) \subseteq TabList(k)
  BY <1>1 DEF TabList
<1>4. Page(n) \subseteq Page(k)
  BY <1>1 DEF Page
<1>5. Message(n) \subseteq Message(k)
  BY <1>3, <1>4 DEF Message
<1>6. ASSUME NEW S, NEW T, S \subseteq T PROVE Seq(S) \subseteq Seq(T)
  BY <1>6
<1> QED BY <1>1, <1>2, <1>5, <1>6

-----------------------------------------------------------------------------
(* What a handler of the core says. *)

LEMMA TabFacts ==
  TabInv => /\ active \in DOMAIN tabs /\ DOMAIN tabs \subseteq 0 .. next - 1 /\ next \in Nat
            /\ active \in 0 .. next - 1
            /\ \A i \in DOMAIN tabs : tabs[i].url \in Urls
BY DEF TabInv, ActiveInv, ActiveIsOpen, GoodTab, Tab

LEMMA TabFactsNext ==
  TabInv' => /\ active' \in DOMAIN tabs' /\ DOMAIN tabs' \subseteq 0 .. next' - 1 /\ next' \in Nat
             /\ active' \in 0 .. next' - 1
             /\ \A i \in DOMAIN tabs' : tabs'[i].url \in Urls
BY DEF TabInv, ActiveInv, ActiveIsOpen, GoodTab, Tab

\* Ports are published, changed and never withdrawn.
LEMMA PortStays ==
  ASSUME port \in Ports \union {None}, torUp \in BOOLEAN, NEW p
  PROVE  /\ Net!Initialized(p) => /\ torUp' \in BOOLEAN /\ port' \in Ports \union {None}
                                  /\ port' = None => port = None
         /\ Net!InitializeFails(p) => torUp' = torUp /\ port' = port
<1>1. ASSUME NEW published \in Ports \union {None}, Net!SocksIfTor(published)
      PROVE  port' \in Ports \union {None} /\ (port' = None => published = None)
  <2>1. Net!TorPorts \subseteq Ports /\ None \notin Ports
    BY ModeAssumption DEF Net!TorPorts, Ports
  <2> QED BY <1>1, <2>1 DEF Net!SocksIfTor, Net!StartSocks
<1>2. ASSUME NEW b \in BOOLEAN, Net!InitializeTor(p, b)
      PROVE  torUp' \in BOOLEAN /\ port' \in Ports \union {None} /\ (port' = None => port = None)
  <2>1. Net!SocksIfTor(port) /\ torUp' = (torUp \/ b)
    BY <1>2 DEF Net!InitializeTor
  <2> QED BY <1>1, <2>1
<1>3. ASSUME Net!InitializeV2Ray(p)
      PROVE  torUp' \in BOOLEAN /\ port' \in Ports \union {None} /\ (port' = None => port = None)
  <2>1. Net!SocksIfTor(V2RayPort) /\ torUp' = torUp
    BY <1>3 DEF Net!InitializeV2Ray
  <2>2. V2RayPort \in Ports /\ V2RayPort # None
    BY ModeAssumption DEF Ports
  <2> QED BY <1>1, <2>1, <2>2
<1>4. Net!InitializeFails(p) => torUp' = torUp /\ port' = port
  BY DEF Net!InitializeFails, Net!linkVars, Net!servedVars
<1> QED BY <1>2, <1>3, <1>4 DEF Net!Initialized

LEMMA ModeIsSet ==
  ASSUME port \in Ports \union {None}, torUp \in BOOLEAN, NEW p
  PROVE  /\ SetsMode(p) => /\ protocol' = p /\ torUp' \in BOOLEAN /\ port' \in Ports \union {None}
                           /\ port' = None => port = None
         /\ FailsToSetMode(p) => protocol' = p /\ torUp' = torUp /\ port' = port
BY PortStays DEF SetsMode, FailsToSetMode, Net!SetMode, linkVars

\* Messages that are all true of the state the handler leaves.
News(m) ==
  /\ m \in Seq(Message(next'))
  /\ Announced(m, active')
  /\ Told(m, {"Tabs"}, RightTabs')
  /\ Told(m, {"Privacy"}, {PrivacyUpdated(level')})
  /\ Told(m, {"Socks"}, {SocksReady(port')})
  /\ Told(m, {"Status"}, {StatusChanged(protocol')})

LEMMA NoNewsYet == News(<<>>) /\ \A kinds : Quiet(<<>>, kinds)
BY DEF News, Announced, Told, Quiet

LEMMA NewsGrows ==
  ASSUME NEW m, News(m), NEW e \in Message(next'),
         e.kind = "Tabs" => e \in RightTabs',
         e.kind = "Privacy" => e = PrivacyUpdated(level'),
         e.kind = "Socks" => e = SocksReady(port'),
         e.kind = "Status" => e = StatusChanged(protocol'),
         e.kind \in PageKinds => e.tab = active' /\ ~Quiet(m, {"Tabs"})
  PROVE  /\ News(Append(m, e))
         /\ \A kinds : Quiet(Append(m, e), kinds) <=> Quiet(m, kinds) /\ e.kind \notin kinds
<1>1. m \in Seq(Message(next'))
  BY DEF News
<1>2. Append(m, e) \in Seq(Message(next'))
  BY <1>1
<1>3. \A kinds : Quiet(Append(m, e), kinds) <=> Quiet(m, kinds) /\ e.kind \notin kinds
  BY <1>1, AppendTold
<1>4. e.kind = "Tabs" => e.active = active'
  BY DEF RightTabs
<1>5. Announced(Append(m, e), active')
  BY <1>1, <1>4, AppendAnnounced DEF News
<1>6. ASSUME NEW k, NEW E, Told(m, {k}, E), e.kind = k => e \in E PROVE Told(Append(m, e), {k}, E)
  BY <1>1, <1>6, AppendTold
<1>7. Told(Append(m, e), {"Tabs"}, RightTabs')
  BY <1>6 DEF News
<1>8. Told(Append(m, e), {"Privacy"}, {PrivacyUpdated(level')})
  BY <1>6 DEF News
<1>9. Told(Append(m, e), {"Socks"}, {SocksReady(port')})
  BY <1>6 DEF News
<1>10. Told(Append(m, e), {"Status"}, {StatusChanged(protocol')})
  BY <1>6 DEF News
<1> QED BY <1>2, <1>3, <1>5, <1>7, <1>8, <1>9, <1>10 DEF News

\* A list of messages appended is the messages appended one by one.
LEMMA Concats ==
  ASSUME NEW M, NEW m \in Seq(M), NEW a \in M, NEW b \in M, NEW c \in M
  PROVE  /\ m \o <<a>> = Append(m, a)
         /\ m \o <<a, b>> = Append(Append(m, a), b)
         /\ m \o <<a, b, c>> = Append(Append(Append(m, a), b), c)
         /\ m \o <<>> = m
  OBVIOUS

LEMMA SendOneByOne ==
  ASSUME NEW M, NEW m \in Seq(M), NEW a \in M
  PROVE  /\ Send(m \o <<a>>) => Send(Append(m, a))
         /\ \A b \in M : Send(m \o <<a, b>>) => Send(Append(Append(m, a), b))
<1>1. m \o <<a>> = Append(m, a)
  BY Concats
<1>2. \A b \in M : m \o <<a, b>> = Append(Append(m, a), b)
  BY Concats
<1> QED BY <1>1, <1>2 DEF Send

\* The list of tabs, and the page of the active tab, are true when they are sent.
LEMMA TrueMessages ==
  ASSUME TabInv', NEW u, u = tabs'[active'].url
  PROVE  /\ u \in Urls
         /\ TabsChanged \in Message(next') /\ TabsChanged \in RightTabs' /\ TabsChanged.kind = "Tabs"
         /\ TabsChanged \in SamePage'
         /\ SetUrlBar(u) \in Message(next') /\ SetUrlBar(u).kind = "Bar"
         /\ LoadUrl(u).kind = "Url" /\ LoadUrl(u).tab = active' /\ LoadUrl(u) \in RightPage'
         /\ LoadHtml(u).kind = "Html" /\ LoadHtml(u).tab = active' /\ LoadHtml(u) \in RightPage'
         /\ u \in Web => LoadUrl(u) \in Message(next')
         /\ u \notin Web => LoadHtml(u) \in Message(next')
<1>1. /\ active' \in DOMAIN tabs' /\ DOMAIN tabs' \subseteq 0 .. next' - 1
      /\ active' \in 0 .. next' - 1 /\ \A i \in DOMAIN tabs' : tabs'[i].url \in Urls
  BY TabFactsNext
<1>2. u \in Urls /\ u \in Texts
  BY <1>1 DEF Texts
<1>3. DOMAIN ListTabs = DOMAIN tabs' /\ ListTabs \in [DOMAIN tabs' -> Urls]
      /\ ListTabs[active'] = u
  BY <1>1 DEF ListTabs
<1> HIDE DEF ListTabs
<1>4. TabsChanged \in Message(next')
  BY <1>1, <1>3, MessagesMade DEF TabsChanged
<1>5. TabsChanged \in RightTabs'
  BY <1>3 DEF TabsChanged, RightTabs
<1>6. TabsChanged \in SamePage'
  BY <1>3, <1>5 DEF SamePage, TabsChanged
<1>7. /\ LoadUrl(u).kind = "Url" /\ LoadUrl(u).tab = active' /\ LoadUrl(u) \in RightPage'
      /\ LoadHtml(u).kind = "Html" /\ LoadHtml(u).tab = active' /\ LoadHtml(u) \in RightPage'
  BY DEF LoadUrl, LoadHtml, RightPage, PageKinds
<1>8. /\ SetUrlBar(u) \in Message(next')
      /\ u \in Web => LoadUrl(u) \in Message(next')
      /\ u \notin Web => LoadHtml(u) \in Message(next')
  BY <1>1, <1>2, MessagesMade DEF LoadUrl, LoadHtml
<1> QED BY <1>2, <1>4, <1>5, <1>6, <1>7, <1>8 DEF TabsChanged, SetUrlBar

\* What a handler says before it navigates: lists of tabs and the URL bar.
Preface(m) ==
  /\ News(m)
  /\ Quiet(m, Touching)
  /\ Quiet(m, {"Tabs"}) => DOMAIN tabs' = DOMAIN tabs /\ active' = active

\* All that a handler says: whatever it changed it also said, and the page of
\* the active tab comes last.
Report(m) ==
  /\ News(m)
  /\ Send(m)
  /\ Quiet(m, {"Tabs"}) => DOMAIN tabs' = DOMAIN tabs /\ active' = active
  /\ Quiet(m, {"Privacy"}) => level' = level
  /\ port' = None => port = None /\ Quiet(m, {"Socks"})
  /\ heard' # "nothing" /\ Quiet(m, {"Socks"}) => port' = None \/ (heard # "nothing" /\ port' = port)
  /\ heard' = "mode" /\ Quiet(m, {"Status"}) => heard = "mode" /\ protocol' = protocol
  /\ tabs'[active'].url \notin MayGetNoPage =>
       /\ Told(m, Touching, RightPage')
       /\ Trailing(m, Touching, SamePage')
       /\ ~Quiet(m, Touching)

\* A message of another kind does not disturb quiet.
LEMMA QuietParts ==
  ASSUME NEW m, NEW k, NEW kinds, k \in kinds, Quiet(m, kinds)
  PROVE  Quiet(m, {k})
BY DEF Quiet

LEMMA PageLast ==
  ASSUME NEW m, News(m), NEW e \in Message(next'), e \in RightPage'
  PROVE  /\ Told(Append(m, e), Touching, RightPage')
         /\ Trailing(Append(m, e), Touching, SamePage')
         /\ ~Quiet(Append(m, e), Touching)
<1>1. e.kind \in PageKinds /\ e.kind \in Touching /\ e.kind # "Tabs"
  BY DEF RightPage, Touching, PageKinds
<1>2. m \in Seq(Message(next'))
  BY DEF News
<1> QED BY <1>1, <1>2, AppendTold

\* navigate() reports all it does.
LEMMA NavigatesReports ==
  ASSUME NetTypes, TabInv', NEW u, u = tabs'[active'].url,
         NEW before, Preface(before), Navigates(before, u)
  PROVE  NetTypes' /\ \E m : Report(m)
<1> DEFINE sent == Append(before, TabsChanged)
           M == Message(next')
<1>1. /\ u \in Urls /\ TabsChanged \in M /\ TabsChanged \in RightTabs' /\ TabsChanged.kind = "Tabs"
      /\ SetUrlBar(u) \in M /\ SetUrlBar(u).kind = "Bar"
      /\ LoadUrl(u).kind = "Url" /\ LoadUrl(u).tab = active' /\ LoadUrl(u) \in RightPage'
      /\ LoadHtml(u).kind = "Html" /\ LoadHtml(u).tab = active' /\ LoadHtml(u) \in RightPage'
      /\ u \in Web => LoadUrl(u) \in M
      /\ u \notin Web => LoadHtml(u) \in M
  BY TrueMessages
<1>2. 0 .. next' - 1 # {}
  BY TabFactsNext
<1>3. News(before) /\ before \in Seq(M)
  BY DEF Preface, News
<1>4. /\ News(sent) /\ \A kinds : Quiet(sent, kinds) <=> Quiet(before, kinds) /\ "Tabs" \notin kinds
  BY <1>1, <1>3, NewsGrows DEF PageKinds
<1>5. Quiet(sent, Touching) /\ ~Quiet(sent, {"Tabs"}) /\ sent \in Seq(M)
  BY <1>4 DEF Preface, Touching, PageKinds, News
<1>6. \A k \in Touching : Quiet(before, {k}) /\ Quiet(sent, {k})
  BY <1>5, QuietParts DEF Preface
<1> HIDE DEF sent, M
<1>7. {"Privacy", "Socks", "Status"} \subseteq Touching
  BY DEF Touching
\* Nothing but messages, and perhaps none.
<1>8. ASSUME NEW b, News(b), Quiet(b, Touching), Quiet(b, {"Tabs"}) => Quiet(before, {"Tabs"}),
             Send(b), UNCHANGED <<modeVars, level>>, u \in MayGetNoPage
      PROVE  NetTypes' /\ Report(b)
  <2>1. Quiet(b, {"Privacy"}) /\ Quiet(b, {"Socks"}) /\ Quiet(b, {"Status"})
    BY <1>7, <1>8, QuietParts
  <2>2. NetTypes' /\ level' = level /\ port' = port /\ heard' = heard /\ protocol' = protocol
    BY <1>8 DEF NetTypes, modeVars, netVars, linkVars
  <2> QED BY <1>8, <2>1, <2>2 DEF Report, Preface
\* A page and nothing else behind `b`.
<1>9. ASSUME NEW b, News(b), ~Quiet(b, {"Tabs"}), NEW e \in M, e \in RightPage',
             Send(Append(b, e)),
             Quiet(b, {"Privacy"}) => level' = level,
             port' = None => port = None /\ Quiet(b, {"Socks"}),
             heard' # "nothing" /\ Quiet(b, {"Socks"}) => port' = None \/ (heard # "nothing" /\ port' = port),
             heard' = "mode" /\ Quiet(b, {"Status"}) => heard = "mode" /\ protocol' = protocol
      PROVE  Report(Append(b, e))
  <2>1. e.kind \in PageKinds /\ e.tab = active'
    BY <1>9 DEF RightPage
  <2>2. e.kind \notin {"Tabs", "Privacy", "Socks", "Status"}
    BY <2>1 DEF PageKinds
  <2>3. News(Append(b, e)) /\ \A kinds : Quiet(Append(b, e), kinds) <=> Quiet(b, kinds) /\ e.kind \notin kinds
    BY <1>9, <2>1, <2>2, NewsGrows DEF M
  <2>4. /\ Told(Append(b, e), Touching, RightPage')
        /\ Trailing(Append(b, e), Touching, SamePage')
        /\ ~Quiet(Append(b, e), Touching)
    BY <1>9, PageLast DEF M
  <2>5. /\ Quiet(Append(b, e), {"Tabs"}) <=> Quiet(b, {"Tabs"})
        /\ Quiet(Append(b, e), {"Privacy"}) <=> Quiet(b, {"Privacy"})
        /\ Quiet(Append(b, e), {"Socks"}) <=> Quiet(b, {"Socks"})
        /\ Quiet(Append(b, e), {"Status"}) <=> Quiet(b, {"Status"})
    BY <2>2, <2>3
  <2> QED BY <1>9, <2>3, <2>4, <2>5 DEF Report
<1>10. CASE WebPage(sent, u)
  <2> DEFINE b == Append(sent, SetUrlBar(u))
  <2>1. News(b) /\ \A kinds : Quiet(b, kinds) <=> Quiet(sent, kinds) /\ "Bar" \notin kinds
    BY <1>1, <1>4, NewsGrows DEF PageKinds, M
  <2>2. ~Quiet(b, {"Tabs"}) /\ Quiet(b, {"Socks"})
    BY <1>5, <1>6, <1>7, <2>1
  <2>3. u \in Web /\ Send(sent \o <<SetUrlBar(u), LoadUrl(u)>>)
    BY <1>10 DEF WebPage
  <2>4. Send(Append(b, LoadUrl(u)))
    BY <1>1, <1>5, <2>3, SendOneByOne
  <2>5. NetTypes' /\ level' = level /\ port' = port /\ heard' = heard /\ protocol' = protocol
    BY <1>10 DEF WebPage, NetTypes, modeVars, netVars, linkVars
  <2> HIDE DEF b
  <2>6. Report(Append(b, LoadUrl(u)))
    BY <1>1, <1>9, <2>1, <2>2, <2>3, <2>4, <2>5
  <2> QED BY <2>5, <2>6
<1>11. CASE OwnPage(sent, u)
  <2>1. u \notin Web /\ Send(sent \o <<LoadHtml(u)>>)
    BY <1>11 DEF OwnPage
  <2>2. Send(Append(sent, LoadHtml(u)))
    BY <1>1, <1>5, <2>1, SendOneByOne
  <2>3. NetTypes' /\ level' = level /\ port' = port /\ heard' = heard /\ protocol' = protocol
    BY <1>11 DEF OwnPage, NetTypes, modeVars, netVars, linkVars
  <2>4. Report(Append(sent, LoadHtml(u)))
    BY <1>1, <1>4, <1>5, <1>6, <1>7, <1>9, <2>1, <2>2, <2>3
  <2> QED BY <2>3, <2>4
<1>12. CASE NoPage(sent, u)
  <2>1. u \in MayGetNoPage /\ Send(sent) /\ UNCHANGED <<modeVars, level>>
    BY <1>12 DEF NoPage, MayGetNoPage
  <2> QED BY <1>4, <1>5, <1>8, <2>1
<1>13. CASE NoNews(before, u)
  <2>1. u \in MayGetNoPage /\ Send(before) /\ UNCHANGED <<modeVars, level>>
    BY <1>13 DEF NoNews, MayGetNoPage
  <2> QED BY <1>3, <1>8, <2>1 DEF Preface
<1>14. CASE TogglesSecurity(sent, u)
  <2> DEFINE e == PrivacyUpdated(level')
             b == Append(sent, e)
  <2>1. /\ u = TogglePage /\ u \notin Web /\ level' \in Levels
        /\ port' = port /\ heard' = heard /\ protocol' = protocol /\ torUp' = torUp
        /\ Send(sent \o <<e, LoadHtml(u)>>)
    BY <1>14, AddressAssumption DEF TogglesSecurity, NetTypes, NextLevel, Levels, modeVars, netVars, linkVars
  <2>2. e \in M /\ e.kind = "Privacy"
    BY <1>2, <2>1, MessagesMade DEF PrivacyUpdated, M
  <2>3. News(b) /\ \A kinds : Quiet(b, kinds) <=> Quiet(sent, kinds) /\ "Privacy" \notin kinds
    BY <1>4, <2>2, NewsGrows DEF PageKinds, M
  <2>4. ~Quiet(b, {"Tabs"}) /\ ~Quiet(b, {"Privacy"}) /\ Quiet(b, {"Socks"})
    BY <1>5, <1>6, <1>7, <2>3
  <2>5. Send(Append(b, LoadHtml(u)))
    BY <1>1, <1>5, <2>1, <2>2, SendOneByOne
  <2> HIDE DEF b, e
  <2>6. Report(Append(b, LoadHtml(u)))
    BY <1>1, <1>9, <2>1, <2>3, <2>4, <2>5
  <2> QED BY <2>1, <2>6 DEF NetTypes
<1>15. CASE ChangesMode(sent, u)
  <2> DEFINE p == ModePages[u]
             e == StatusChanged(p)
             b == Append(sent, e)
             d == b \o SocksIfAny
  <2>1. /\ u \in DOMAIN ModePages /\ u \notin Web /\ level' = level /\ p \in Net!Protocols
        /\ p \in Offered
    BY <1>15, AddressAssumption, ModeAssumption DEF ChangesMode
  <2>2. CASE /\ SetsMode(p) /\ heard' = "mode"
             /\ Send(sent \o <<e>> \o SocksIfAny \o <<LoadHtml(u)>>)
    <3>1. /\ protocol' = p /\ torUp' \in BOOLEAN /\ port' \in Ports \union {None}
          /\ port' = None => port = None
      BY <2>2, ModeIsSet DEF NetTypes
    <3>2. e \in M /\ e.kind = "Status" /\ e = StatusChanged(protocol')
      BY <1>2, <2>1, <3>1, MessagesMade DEF StatusChanged, M
    <3>3. News(b) /\ \A kinds : Quiet(b, kinds) <=> Quiet(sent, kinds) /\ "Status" \notin kinds
      BY <1>4, <3>2, NewsGrows DEF PageKinds, M
    <3>4. ~Quiet(b, {"Tabs"}) /\ ~Quiet(b, {"Status"}) /\ Quiet(b, {"Socks"}) /\ b \in Seq(M)
      BY <1>5, <1>6, <1>7, <3>3 DEF News, M
    <3>5. sent \o <<e>> = b
      BY <1>5, <3>2, Concats
    <3> HIDE DEF b
    <3>6. /\ News(d) /\ ~Quiet(d, {"Tabs"}) /\ ~Quiet(d, {"Status"})
          /\ port' = None => Quiet(d, {"Socks"})
          /\ port' # None => ~Quiet(d, {"Socks"})
      <4>1. CASE port' = None
        <5>1. d = b
          BY <3>4, <4>1 DEF SocksIfAny
        <5> QED BY <3>3, <3>4, <4>1, <5>1
      <4>2. CASE port' # None
        <5> DEFINE s == SocksReady(port')
        <5>1. s \in M /\ s.kind = "Socks"
          BY <1>2, <3>1, <4>2, MessagesMade DEF SocksReady, M
        <5>2. d = Append(b, s)
          BY <3>4, <4>2, <5>1, Concats DEF SocksIfAny
        <5>3. News(Append(b, s)) /\ \A kinds : Quiet(Append(b, s), kinds) <=> Quiet(b, kinds) /\ "Socks" \notin kinds
          BY <3>3, <5>1, NewsGrows DEF PageKinds, M
        <5> HIDE DEF d, s
        <5> QED BY <3>4, <4>2, <5>2, <5>3
      <4> QED BY <4>1, <4>2
    <3> HIDE DEF d
    <3>7. Send(d \o <<LoadHtml(u)>>)
      BY <2>2, <3>5 DEF d
    <3>8. Send(Append(d, LoadHtml(u)))
      <4>1. d \in Seq(M) /\ LoadHtml(u) \in M
        BY <1>1, <2>1, <3>6 DEF News, M
      <4> QED BY <3>7, <4>1, SendOneByOne
    <3>9. Report(Append(d, LoadHtml(u)))
      BY <1>1, <1>9, <2>1, <3>1, <3>6, <3>8
    <3> QED BY <2>1, <2>2, <3>1, <3>9 DEF NetTypes
  <2>3. CASE /\ FailsToSetMode(p) /\ heard' = IF heard = "nothing" THEN heard ELSE "port"
             /\ Send(sent)
    <3>1. /\ protocol' = p /\ torUp' = torUp /\ port' = port
          /\ heard' \in {"port", "nothing"} /\ (heard' # "nothing" => heard # "nothing")
      BY <2>3, ModeIsSet DEF NetTypes
    <3>2. u \in MayGetNoPage
      BY <2>1 DEF MayGetNoPage
    <3>3. Quiet(sent, {"Socks"})
      BY <1>6, <1>7
    <3> QED BY <1>4, <1>5, <2>1, <2>3, <3>1, <3>2, <3>3 DEF Report, NetTypes
  <2> QED BY <1>15, <2>2, <2>3 DEF ChangesMode
<1>16. CASE SwitchesProfile(sent, u)
  <2> DEFINE p == ProfilePages[u]
  <2>1. /\ u \in DOMAIN ProfilePages /\ u \notin Web /\ level' = level /\ heard' = "nothing"
        /\ p \in Net!Protocols
    BY <1>16, AddressAssumption, ModeAssumption DEF SwitchesProfile
  <2>2. CASE SetsMode(p) /\ Send(Append(sent, LoadHtml(u)))
    <3>1. /\ protocol' = p /\ torUp' \in BOOLEAN /\ port' \in Ports \union {None}
          /\ port' = None => port = None
      BY <2>2, ModeIsSet DEF NetTypes
    <3>2. Report(Append(sent, LoadHtml(u)))
      BY <1>1, <1>4, <1>5, <1>6, <1>7, <1>9, <2>1, <2>2, <3>1
    <3> QED BY <2>1, <3>1, <3>2 DEF NetTypes
  <2>3. CASE FailsToSetMode(p) /\ Send(sent)
    <3>1. protocol' = p /\ torUp' = torUp /\ port' = port
      BY <2>3, ModeIsSet DEF NetTypes
    <3>2. u \in MayGetNoPage
      BY <2>1 DEF MayGetNoPage
    <3>3. Quiet(sent, {"Socks"})
      BY <1>6, <1>7
    <3> QED BY <1>4, <1>5, <2>1, <2>3, <3>1, <3>2, <3>3 DEF Report, NetTypes
  <2> QED BY <1>16, <2>2, <2>3 DEF SwitchesProfile
<1> QED BY <1>10, <1>11, <1>12, <1>13, <1>14, <1>15, <1>16 DEF Navigates, sent

\* Every handler is a step of the TabManager, or none.
LEMMA HandledTabs ==
  ASSUME TabInv, NEW c \in Command(next), Handled(c)
  PROVE  [TabNext]_tabVars
<1>1. /\ c.do = "Navigate" => c.url \in Urls
      /\ c.do \in {"SwitchTab", "CloseTab"} => c.id \in 0 .. next - 1
  BY CommandParts
<1>2. CASE HandleNavigate(c)
  BY <1>1, <1>2 DEF HandleNavigate, TabNext
<1>3. CASE HandleBack(c)
  BY <1>3 DEF HandleBack, TabNext
<1>4. CASE HandleForward(c)
  BY <1>4 DEF HandleForward, TabNext
<1>5. CASE HandleNoHistory(c)
  BY <1>5 DEF HandleNoHistory
<1>6. CASE HandleRefresh(c)
  BY <1>6 DEF HandleRefresh
<1>7. CASE HandleNewTab(c)
  BY <1>7 DEF HandleNewTab, TabNext
<1>8. CASE HandleSwitchTab(c)
  BY <1>1, <1>8 DEF HandleSwitchTab, TabNext
<1>9. CASE HandleCloseTab(c)
  BY <1>1, <1>9 DEF HandleCloseTab, TabNext
<1> QED BY <1>2, <1>3, <1>4, <1>5, <1>6, <1>7, <1>8, <1>9 DEF Handled

LEMMA TabsAdvance ==
  ASSUME TabInv, next <= MaxTabs, [TabNext]_tabVars
  PROVE  TabInv' /\ next' <= MaxTabs /\ next <= next' /\ next \in Nat /\ next' \in Nat
<1>1. TabInv' /\ next \in Nat /\ next' \in Nat
  BY StepKeeps DEF TabInv
<1>2. next' = next \/ (next < MaxTabs /\ next' = next + 1)
  BY DEF TabNext, Navigate, Back, Forward, NewTab, SwitchTab, CloseTab, CloseLastTab, CloseOneTab,
    UpdateActive, tabVars
<1> QED BY <1>1, <1>2, BoundAssumption

LEMMA Prefaces ==
  ASSUME TabInv'
  PROVE  /\ DOMAIN tabs' = DOMAIN tabs /\ active' = active => Preface(<<>>)
         /\ Preface(<<TabsChanged>>)
         /\ Preface(<<TabsChanged, SetUrlBar(tabs'[active'].url)>>)
<1> DEFINE u == tabs'[active'].url
           none == <<>>
           m == Append(none, TabsChanged)
           n == Append(m, SetUrlBar(u))
<1>1. /\ TabsChanged \in Message(next') /\ TabsChanged \in RightTabs' /\ TabsChanged.kind = "Tabs"
      /\ SetUrlBar(u) \in Message(next') /\ SetUrlBar(u).kind = "Bar"
  BY TrueMessages
<1>a. News(none) /\ \A kinds : Quiet(none, kinds)
  BY NoNewsYet
<1> HIDE DEF none
<1>2. News(m) /\ \A kinds : Quiet(m, kinds) <=> Quiet(none, kinds) /\ "Tabs" \notin kinds
  BY <1>1, <1>a, NewsGrows DEF PageKinds
<1> HIDE DEF m
<1>3. News(n) /\ \A kinds : Quiet(n, kinds) <=> Quiet(m, kinds) /\ "Bar" \notin kinds
  BY <1>1, <1>2, NewsGrows DEF PageKinds
<1>4. <<TabsChanged>> = m /\ <<TabsChanged, SetUrlBar(u)>> = n
  BY DEF m, none
<1> HIDE DEF n, u
<1>5. "Tabs" \notin Touching /\ "Bar" \notin Touching
  BY DEF Touching, PageKinds
<1>6. Preface(m) /\ Preface(n)
  BY <1>a, <1>2, <1>3, <1>5 DEF Preface
<1>7. DOMAIN tabs' = DOMAIN tabs /\ active' = active => Preface(<<>>)
  BY NoNewsYet DEF Preface
<1>8. <<TabsChanged, SetUrlBar(tabs'[active'].url)>> = n
  BY <1>4 DEF u
<1> QED BY <1>4, <1>6, <1>7, <1>8

\* Back and Forward at an end of the history say nothing; every other command
\* reports.
LEMMA HandledReports ==
  ASSUME TabInv, next <= MaxTabs, NetTypes, NEW c \in Command(next), Handled(c)
  PROVE  /\ NetTypes'
         /\ (\E m : Report(m)) \/ UNCHANGED <<tabVars, modeVars, level, events>>
<1>1. TabInv'
  BY HandledTabs, TabsAdvance
<1>2. /\ DOMAIN tabs' = DOMAIN tabs /\ active' = active => Preface(<<>>)
      /\ Preface(<<TabsChanged>>)
      /\ Preface(<<TabsChanged, SetUrlBar(tabs'[active'].url)>>)
  BY <1>1, Prefaces
<1>3. \A t : UpdateActive(t) => DOMAIN tabs' = DOMAIN tabs /\ active' = active
  BY DEF UpdateActive
<1>4. ASSUME NEW before, Preface(before), Navigates(before, tabs'[active'].url)
      PROVE  NetTypes' /\ \E m : Report(m)
  BY <1>1, <1>4, NavigatesReports
<1>5. CASE HandleNavigate(c)
  <2>1. c.url \in Urls
    BY <1>5, CommandParts DEF HandleNavigate
  <2>2. PushHistory(tabs[active], c.url).url = c.url
    BY <2>1, PushIsGood DEF TabInv, ActiveInv, ActiveIsOpen
  <2>3. /\ UpdateActive(PushHistory(tabs[active], c.url)) /\ Navigates(<<>>, c.url)
        /\ active \in DOMAIN tabs
    BY <1>5 DEF HandleNavigate, Navigate, ActiveIsOpen
  <2>4. tabs'[active'].url = c.url
    BY <2>2, <2>3 DEF UpdateActive
  <2> QED BY <1>2, <1>3, <1>4, <2>3, <2>4
<1>6. CASE HandleBack(c)
  <2>1. UpdateActive(MoveCursor(tabs[active], tabs[active].index - 1))
        /\ Navigates(<<>>, tabs'[active].url)
    BY <1>6 DEF HandleBack, Back
  <2> QED BY <1>2, <1>3, <1>4, <2>1
<1>7. CASE HandleForward(c)
  <2>1. UpdateActive(MoveCursor(tabs[active], tabs[active].index + 1))
        /\ Navigates(<<>>, tabs'[active].url)
    BY <1>7 DEF HandleForward, Forward
  <2> QED BY <1>2, <1>3, <1>4, <2>1
<1>8. CASE HandleNoHistory(c)
  <2>1. UNCHANGED <<tabVars, modeVars, level, events>>
    BY <1>8 DEF HandleNoHistory
  <2> QED BY <2>1 DEF NetTypes, modeVars, netVars, linkVars
<1>9. CASE HandleRefresh(c)
  BY <1>2, <1>4, <1>9 DEF HandleRefresh, tabVars
<1>10. CASE HandleNewTab(c)
  <2>1. /\ tabs' = WithTab(tabs, next, PushHistory(Opened(Home), Home)) /\ active' = next
        /\ Navigates(<<TabsChanged>>, Home)
    BY <1>10 DEF HandleNewTab, NewTab
  <2>2. PushHistory(Opened(Home), Home).url = Home
    BY OpenedIsGood, PushIsGood, UrlAssumption
  <2>3. tabs'[active'].url = Home
    BY <2>1, <2>2 DEF WithTab
  <2> QED BY <1>2, <1>4, <2>1, <2>3
<1>11. CASE HandleSwitchTab(c)
  <2>1. /\ tabs' = tabs
        /\ Navigates(<<TabsChanged, SetUrlBar(tabs[active'].url)>>, tabs[active'].url)
    BY <1>11 DEF HandleSwitchTab, SwitchTab, tabVars
  <2> QED BY <1>2, <1>4, <2>1
<1>12. CASE HandleCloseTab(c)
  BY <1>2, <1>4, <1>12 DEF HandleCloseTab
<1> QED BY <1>5, <1>6, <1>7, <1>8, <1>9, <1>10, <1>11, <1>12 DEF Handled

-----------------------------------------------------------------------------
(* A report keeps every part of the invariant. *)

NewsInv == StripInv /\ LevelInv /\ PortInv /\ BadgeInv /\ PageInv /\ ProxyInv

LEMMA ReportKeeps ==
  ASSUME TabInv, QueueTypes, NetTypes, ScreenInv, NewsInv, next <= next', TabInv', NetTypes',
         NEW m, Report(m), phase' = "up",
         phase # "up" => ~Quiet(m, {"Tabs"}) /\ ~Quiet(m, {"Status"}),
         UNCHANGED viewVars
  PROVE  events' \in Seq(Message(next')) /\ Arrives(events', shown) /\ NewsInv'
<1> DEFINE M == Message(next')
<1>1. events \in Seq(M) /\ m \in Seq(M) /\ events' = events \o m
  <2>1. next \in Nat /\ next' \in Nat
    BY TabFacts, TabFactsNext
  <2>2. events \in Seq(Message(next)) /\ Seq(Message(next)) \subseteq Seq(Message(next'))
    BY <2>1, MoreTabs DEF QueueTypes
  <2> QED BY <2>2 DEF Report, News, Send
<1> HIDE DEF M
<1>2. events' \in Seq(M)
  BY <1>1
<1>3. Arrives(events', shown)
  BY <1>1, SentArrives DEF Report, News, ScreenInv
<1>4. ASSUME NEW kinds
      PROVE  /\ Quiet(events', kinds) <=> Quiet(events, kinds) /\ Quiet(m, kinds)
             /\ \A E : Told(m, kinds, E) /\ (Quiet(m, kinds) => Told(events, kinds, E)) => Told(events', kinds, E)
             /\ \A E : Trailing(m, kinds, E) /\ ~Quiet(m, kinds) => Trailing(events', kinds, E)
  BY <1>1, SentTold
<1>5. UNCHANGED <<strip, shown, label, uiPort, pool>>
  BY DEF viewVars
<1>6. StripInv'
  <2>1. Told(m, {"Tabs"}, RightTabs')
    BY DEF Report, News
  <2>2. Quiet(m, {"Tabs"}) => phase = "up" /\ RightTabs' = RightTabs /\ DOMAIN tabs' = DOMAIN tabs /\ active' = active
    BY DEF Report, RightTabs
  <2>3. Told(events', {"Tabs"}, RightTabs')
    BY <1>4, <2>1, <2>2 DEF NewsInv, StripInv
  <2>4. Quiet(events', {"Tabs"}) => strip' = DOMAIN tabs' /\ shown' = active'
    BY <1>4, <1>5, <2>2 DEF NewsInv, StripInv
  <2> QED BY <2>3, <2>4 DEF StripInv
<1>7. LevelInv'
  <2> SUFFICES /\ Told(events', {"Privacy"}, {PrivacyUpdated(level')})
               /\ Quiet(events', {"Privacy"}) => pool'.setup.level \in LevelOf(level')
    BY DEF LevelInv, PrivacyUpdated, LevelOf
  <2>1. Told(m, {"Privacy"}, {PrivacyUpdated(level')}) /\ (Quiet(m, {"Privacy"}) => level' = level)
    BY DEF Report, News
  <2>2. /\ Told(events, {"Privacy"}, {PrivacyUpdated(level)})
        /\ Quiet(events, {"Privacy"}) => pool.setup.level \in LevelOf(level)
    BY DEF NewsInv, LevelInv
  <2> QED BY <1>4, <1>5, <2>1, <2>2
<1>8. PortInv'
  <2>1. /\ Told(m, {"Socks"}, {SocksReady(port')})
        /\ port' = None => port = None /\ Quiet(m, {"Socks"})
        /\ heard' # "nothing" /\ Quiet(m, {"Socks"}) => port' = None \/ (heard # "nothing" /\ port' = port)
    BY DEF Report, News
  <2>2. /\ port = None => uiPort = None /\ Quiet(events, {"Socks"})
        /\ heard # "nothing" =>
             /\ Told(events, {"Socks"}, {SocksReady(port)})
             /\ Quiet(events, {"Socks"}) => uiPort = port
    BY DEF NewsInv, PortInv
  <2>3. port' = None => uiPort' = None /\ Quiet(events', {"Socks"})
    BY <1>4, <1>5, <2>1, <2>2
  <2>4. Quiet(events', {"Socks"}) => Told(events', {"Socks"}, {SocksReady(port')})
    BY DEF Quiet, Told
  <2>5. ASSUME heard' # "nothing"
        PROVE  /\ Told(events', {"Socks"}, {SocksReady(port')})
               /\ Quiet(events', {"Socks"}) => uiPort' = port'
    <3>1. CASE port' = None
      BY <2>3, <2>4, <3>1
    <3>2. CASE port' # None
      BY <1>4, <1>5, <2>1, <2>2, <2>5, <3>2
    <3> QED BY <3>1, <3>2
  <2> QED BY <2>3, <2>5 DEF PortInv, SocksReady
<1>9. BadgeInv'
  <2> SUFFICES ASSUME heard' = "mode"
               PROVE  /\ Told(events', {"Status"}, {StatusChanged(protocol')})
                      /\ Quiet(events', {"Status"}) => label' = LabelOf(protocol')
    BY DEF BadgeInv, StatusChanged, LabelOf
  <2>1. /\ Told(m, {"Status"}, {StatusChanged(protocol')})
        /\ Quiet(m, {"Status"}) => phase = "up" /\ heard = "mode" /\ protocol' = protocol
    BY DEF Report, News
  <2>2. phase = "up" /\ heard = "mode" =>
          /\ Told(events, {"Status"}, {StatusChanged(protocol)})
          /\ Quiet(events, {"Status"}) => label = LabelOf(protocol)
    BY DEF NewsInv, BadgeInv
  <2> QED BY <1>4, <1>5, <2>1, <2>2
<1>10. PageInv'
  <2> SUFFICES ASSUME tabs'[active'].url \notin MayGetNoPage
               PROVE  /\ Told(events', Touching, RightPage')
                      /\ Trailing(events', Touching, SamePage')
                      /\ ~Quiet(events', Touching)
    BY DEF PageInv, MayGetNoPage
  <2>1. /\ Told(m, Touching, RightPage') /\ Trailing(m, Touching, SamePage') /\ ~Quiet(m, Touching)
    BY DEF Report
  <2> QED BY <1>4, <2>1
<1>11. ProxyInv'
  <2>1. tabs'[active'].url \notin MayGetNoPage => ~Quiet(events', Touching)
    BY <1>4 DEF Report
  <2> QED BY <2>1 DEF ProxyInv, MayGetNoPage
<1> QED BY <1>2, <1>3, <1>6, <1>7, <1>8, <1>9, <1>10, <1>11 DEF NewsInv, M

\* What the core says once the network was started: perhaps an error, the port,
\* the mode, and what comes after them.
LEMMA StartNews ==
  ASSUME TabInv', NetTypes, protocol' = protocol, heard' = heard, level' = level,
         NEW sent \in Seq(Message(next')), StartsNetwork(sent)
  PROVE  /\ NetTypes' /\ (port' = None => port = None)
         /\ \E d : /\ News(d) /\ Send(d \o sent) /\ ~Quiet(d, {"Status"})
                   /\ Quiet(d, {"Socks"}) <=> port' = None
<1> DEFINE M == Message(next')
           status == StatusChanged(protocol)
<1>1. \/ Net!Initialized(protocol) /\ Send(SocksIfAny \o <<status>> \o sent)
      \/ Net!InitializeFails(protocol) /\ Send(<<ConfigError>> \o (SocksIfAny \o <<status>> \o sent))
  BY DEF StartsNetwork
<1>2. torUp' \in BOOLEAN /\ port' \in Ports \union {None} /\ (port' = None => port = None)
  BY <1>1, PortStays DEF NetTypes
<1>3. NetTypes'
  BY <1>2 DEF NetTypes
<1>4. /\ status \in M /\ status.kind = "Status" /\ status = StatusChanged(protocol')
      /\ ConfigError \in M /\ ConfigError.kind = "Error"
      /\ port' # None => SocksReady(port') \in M /\ SocksReady(port').kind = "Socks"
  <2>1. 0 .. next' - 1 # {}
    BY TabFactsNext
  <2> QED BY <1>2, <2>1, MessagesMade DEF StatusChanged, ConfigError, SocksReady, NetTypes
<1> HIDE DEF M, status
\* The port comes behind nothing, or behind the error.
<1>5. ASSUME NEW b, News(b), Quiet(b, {"Socks"}), Send(((b \o SocksIfAny) \o <<status>>) \o sent)
      PROVE  \E d : /\ News(d) /\ Send(d \o sent) /\ ~Quiet(d, {"Status"})
                    /\ Quiet(d, {"Socks"}) <=> port' = None
  <2> DEFINE c == b \o SocksIfAny
  <2>1. News(c) /\ (Quiet(c, {"Socks"}) <=> port' = None)
    <3>0. b \in Seq(M)
      BY <1>5 DEF News, M
    <3>1. CASE port' = None
      <4>1. c = b
        BY <3>0, <3>1 DEF SocksIfAny
      <4> QED BY <1>5, <3>1, <4>1
    <3>2. CASE port' # None
      <4> DEFINE s == SocksReady(port')
      <4>1. c = Append(b, s)
        BY <1>4, <3>0, <3>2, Concats DEF SocksIfAny
      <4>2. News(Append(b, s)) /\ \A kinds : Quiet(Append(b, s), kinds) <=> Quiet(b, kinds) /\ "Socks" \notin kinds
        BY <1>4, <1>5, <3>2, NewsGrows DEF PageKinds, M
      <4> HIDE DEF c, s
      <4> QED BY <3>2, <4>1, <4>2
    <3> QED BY <3>1, <3>2
  <2> HIDE DEF c
  <2> DEFINE d == Append(c, status)
  <2>2. News(d) /\ \A kinds : Quiet(d, kinds) <=> Quiet(c, kinds) /\ "Status" \notin kinds
    BY <1>4, <2>1, NewsGrows DEF PageKinds, M
  <2>3. c \o <<status>> = d
    <3>1. c \in Seq(M)
      BY <2>1 DEF News, M
    <3> QED BY <1>4, <3>1, Concats
  <2>4. Send(d \o sent)
    BY <1>5, <2>3 DEF c
  <2> HIDE DEF d
  <2>5. ~Quiet(d, {"Status"}) /\ (Quiet(d, {"Socks"}) <=> port' = None)
    BY <2>1, <2>2
  <2> QED BY <2>2, <2>4, <2>5
<1>6. SocksIfAny \in Seq(M) /\ <<status>> \in Seq(M) /\ sent \in Seq(M)
  BY <1>4 DEF SocksIfAny, M
<1>7. CASE Send(SocksIfAny \o <<status>> \o sent)
  <2>1. <<>> \o SocksIfAny = SocksIfAny
    BY <1>6
  <2>2. Send(((<<>> \o SocksIfAny) \o <<status>>) \o sent)
    BY <1>7, <2>1
  <2>3. News(<<>>) /\ Quiet(<<>>, {"Socks"})
    BY NoNewsYet
  <2> QED BY <1>2, <1>3, <1>5, <2>2, <2>3
<1>8. CASE Send(<<ConfigError>> \o (SocksIfAny \o <<status>> \o sent))
  <2> DEFINE none == <<>>
             b == Append(none, ConfigError)
  <2>1. News(none) /\ Quiet(none, {"Socks"})
    BY NoNewsYet
  <2>2. <<ConfigError>> = b
    OBVIOUS
  <2> HIDE DEF none
  <2>3. News(b) /\ \A kinds : Quiet(b, kinds) <=> Quiet(none, kinds) /\ "Error" \notin kinds
    BY <1>4, <2>1, NewsGrows DEF PageKinds, M
  <2> HIDE DEF b
  <2>4. b \in Seq(M)
    BY <2>3 DEF News, M
  <2>5. SocksIfAny \o <<status>> \in Seq(M) /\ b \o SocksIfAny \in Seq(M)
    BY <1>6, <2>4
  <2>6. b \o ((SocksIfAny \o <<status>>) \o sent) = (b \o (SocksIfAny \o <<status>>)) \o sent
    BY <1>6, <2>4, <2>5, ConcatAssociative
  <2>7. b \o (SocksIfAny \o <<status>>) = (b \o SocksIfAny) \o <<status>>
    BY <1>6, <2>4, ConcatAssociative
  <2>8. Send(((b \o SocksIfAny) \o <<status>>) \o sent)
    BY <1>8, <2>2, <2>6, <2>7
  <2>9. Quiet(b, {"Socks"})
    BY <2>1, <2>3
  <2> QED BY <1>2, <1>3, <1>5, <2>3, <2>8, <2>9
<1> QED BY <1>1, <1>7, <1>8

\* What the core says when it is up: the port and the mode, then the first page.
LEMMA BootReports ==
  ASSUME TabInv, NetTypes, BootInv, phase = "booting", Boot
  PROVE  /\ NetTypes' /\ UNCHANGED tabVars
         /\ \E m : Report(m) /\ ~Quiet(m, {"Tabs"}) /\ ~Quiet(m, {"Status"})
<1> DEFINE M == Message(next')
           u == tabs'[active'].url
           last == <<TabsChanged, LoadHtml(Home), TabsChanged>>
<1>1. UNCHANGED <<tabVars, protocol, heard, level>> /\ StartsNetwork(last)
  BY DEF Boot
<1>2. TabInv' /\ u = Home
  BY <1>1 DEF BootInv, tabVars, TabInv, ActiveInv, ActiveIsOpen
<1>3. /\ TabsChanged \in M /\ TabsChanged \in RightTabs' /\ TabsChanged.kind = "Tabs"
      /\ TabsChanged \in SamePage'
      /\ LoadHtml(Home).kind = "Html" /\ LoadHtml(Home).tab = active' /\ LoadHtml(Home) \in RightPage'
      /\ LoadHtml(Home) \in M
  BY <1>2, TrueMessages, AddressAssumption
<1> HIDE DEF M, u
<1>4. last \in Seq(M)
  BY <1>3
<1>5. NetTypes' /\ (port' = None => port = None)
  BY <1>1, <1>2, <1>4, StartNews DEF M
<1>6. PICK d : /\ News(d) /\ Send(d \o last) /\ ~Quiet(d, {"Status"})
               /\ Quiet(d, {"Socks"}) <=> port' = None
  BY <1>1, <1>2, <1>4, StartNews DEF M
<1> DEFINE m2 == Append(d, TabsChanged)
           m3 == Append(m2, LoadHtml(Home))
           m4 == Append(m3, TabsChanged)
<1>7. News(m2) /\ \A kinds : Quiet(m2, kinds) <=> Quiet(d, kinds) /\ "Tabs" \notin kinds
  BY <1>3, <1>6, NewsGrows DEF PageKinds, M
<1> HIDE DEF m2
<1>8. ~Quiet(m2, {"Tabs"})
  BY <1>7
<1>9. News(m3) /\ \A kinds : Quiet(m3, kinds) <=> Quiet(m2, kinds) /\ "Html" \notin kinds
  BY <1>3, <1>7, <1>8, NewsGrows DEF PageKinds, M
<1>10. /\ Told(m3, Touching, RightPage')
       /\ Trailing(m3, Touching, SamePage')
       /\ ~Quiet(m3, Touching)
  BY <1>3, <1>7, PageLast DEF M
<1> HIDE DEF m3
<1>11. News(m4) /\ \A kinds : Quiet(m4, kinds) <=> Quiet(m3, kinds) /\ "Tabs" \notin kinds
  BY <1>3, <1>9, NewsGrows DEF PageKinds, M
<1>12. /\ Told(m4, Touching, RightPage')
       /\ Trailing(m4, Touching, SamePage')
       /\ ~Quiet(m4, Touching)
  <2>1. "Tabs" \notin Touching
    BY DEF Touching, PageKinds
  <2>2. m3 \in Seq(M)
    BY <1>9 DEF News, M
  <2> QED BY <1>3, <1>10, <1>11, <2>1, <2>2, AppendTold
<1>13. d \o last = m4
  <2>1. d \in Seq(M)
    BY <1>6 DEF News, M
  <2> QED BY <1>3, <2>1, Concats DEF m2, m3
<1>14. Send(m4)
  BY <1>6, <1>13 DEF Send
<1> HIDE DEF m4
<1>15. /\ ~Quiet(m4, {"Tabs"}) /\ ~Quiet(m4, {"Status"})
       /\ Quiet(m4, {"Socks"}) <=> Quiet(d, {"Socks"})
  BY <1>6, <1>7, <1>9, <1>11
<1>16. Report(m4)
  BY <1>1, <1>5, <1>6, <1>11, <1>12, <1>14, <1>15 DEF Report
<1> QED BY <1>1, <1>5, <1>15, <1>16

\* The inductive invariant: each invariant the runs check follows from it.
BrowserInv ==
  /\ TabInv /\ next <= MaxTabs /\ phase \in {"booting", "up", "dead"}
  /\ NetTypes
  /\ QueueTypes
  /\ UiTypes
  /\ ScreenInv
  /\ BootInv
  /\ NewsInv

\* A report of the core leaves the UI as it was and keeps the invariant.
LEMMA ReportedStep ==
  ASSUME BrowserInv, TabInv', next <= next', next' <= MaxTabs, NetTypes',
         NEW m, Report(m), phase' = "up",
         phase # "up" => ~Quiet(m, {"Tabs"}) /\ ~Quiet(m, {"Status"}),
         commands' \in Seq(Command(next)), Len(commands') <= ChannelSize,
         UNCHANGED <<waiting, uiVars>>
  PROVE  BrowserInv'
<1>1. /\ UNCHANGED <<strip, shown, label, uiPort, pool, bar, waiting>>
      /\ UNCHANGED viewVars
  BY DEF uiVars, viewVars
<1>2. /\ TabInv /\ QueueTypes /\ NetTypes /\ ScreenInv /\ NewsInv /\ UiTypes
      /\ next \in Nat /\ next' \in Nat
  BY TabFacts, TabFactsNext DEF BrowserInv
<1>3. events' \in Seq(Message(next')) /\ Arrives(events', shown) /\ NewsInv'
  BY <1>1, <1>2, ReportKeeps
<1>4. Command(next) \subseteq Command(next') /\ Seq(Command(next)) \subseteq Seq(Command(next'))
  BY <1>2, MoreTabs
<1>5. QueueTypes'
  BY <1>1, <1>2, <1>3, <1>4 DEF QueueTypes
<1>6. UiTypes'
  <2>1. 0 .. next - 1 \subseteq 0 .. next' - 1
    BY <1>2, MoreTabs
  <2>2. PoolOK(pool)'
    BY <1>1, <1>2, PoolOKPrimed DEF UiTypes, PoolOK
  <2> QED BY <1>1, <1>2, <2>1, <2>2 DEF UiTypes, PoolOK
<1>7. ScreenInv'
  BY <1>1, <1>2, <1>3 DEF ScreenInv, Views!Cached
<1>8. BootInv'
  BY DEF BootInv
<1> QED BY <1>3, <1>5, <1>6, <1>7, <1>8 DEF BrowserInv

LEMMA BootKeeps == BrowserInv /\ Boot => BrowserInv'
<1> SUFFICES ASSUME BrowserInv, Boot PROVE BrowserInv'
  OBVIOUS
<1>1. /\ phase = "booting" /\ phase' = "up" /\ UNCHANGED <<tabVars, commands, waiting, uiVars>>
  BY DEF Boot
<1>2. NetTypes' /\ UNCHANGED tabVars
  BY <1>1, BootReports DEF BrowserInv
<1>3. PICK m : Report(m) /\ ~Quiet(m, {"Tabs"}) /\ ~Quiet(m, {"Status"})
  BY <1>1, BootReports DEF BrowserInv
<1>4. TabInv' /\ next' = next /\ next \in Nat
  BY <1>1 DEF BrowserInv, tabVars, TabInv, ActiveInv, ActiveIsOpen
<1>5. commands' \in Seq(Command(next)) /\ Len(commands') <= ChannelSize
  BY <1>1 DEF BrowserInv, QueueTypes
<1>6. next <= next' /\ next' <= MaxTabs
  BY <1>4 DEF BrowserInv
<1> QED BY <1>1, <1>2, <1>3, <1>4, <1>5, <1>6, ReportedStep

\* A core that does not come up has said nothing, or what it said of the network
\* is true; nobody takes commands any more.
LEMMA BootFailsKeeps == BrowserInv /\ BootFails => BrowserInv'
<1> SUFFICES ASSUME BrowserInv, BootFails PROVE BrowserInv'
  OBVIOUS
<1> DEFINE M == Message(next')
<1>1. /\ phase = "booting" /\ phase' = "dead" /\ commands' = <<>> /\ waiting' = None
      /\ UNCHANGED <<tabs, active, next, protocol, heard, level, strip, shown, label, uiPort, pool, bar>>
      /\ UNCHANGED tabVars
  BY DEF BootFails, tabVars, uiVars, viewVars
<1>2. TabInv' /\ BootInv'
  BY <1>1 DEF BrowserInv, TabInv, ActiveInv, ActiveIsOpen, BootInv
<1>3. TabsChanged \in M /\ TabsChanged \in RightTabs' /\ TabsChanged.kind = "Tabs"
  BY <1>2, TrueMessages
<1>4. events = <<>>
  BY <1>1 DEF BrowserInv, BootInv
<1> HIDE DEF M
<1>5. /\ NetTypes' /\ (port' = None => port = None)
      /\ \E m : /\ News(m) /\ events' = m
                /\ Quiet(m, {"Socks"}) => port' = None
                /\ port' = None => Quiet(m, {"Socks"})
  <2>1. CASE UNCHANGED <<linkVars, events>>
    <3>1. torUp' = torUp /\ port' = port
      BY <2>1 DEF linkVars
    <3>2. NetTypes' /\ (port' = None => port = None)
      BY <1>1, <3>1 DEF BrowserInv, NetTypes
    <3>3. events' = <<>>
      BY <1>4, <2>1
    <3>4. News(events') /\ Quiet(events', {"Socks"})
      BY <3>3, NoNewsYet
    <3>5. port' = None
      BY <1>1, <3>1 DEF BrowserInv, BootInv
    <3> QED BY <3>2, <3>4, <3>5
  <2>2. ASSUME NEW sent \in {<<>>, <<TabsChanged>>}, StartsNetwork(sent)
        PROVE  /\ NetTypes' /\ (port' = None => port = None)
               /\ \E m : /\ News(m) /\ events' = m
                         /\ Quiet(m, {"Socks"}) => port' = None
                         /\ port' = None => Quiet(m, {"Socks"})
    <3>1. sent \in Seq(M)
      <4>1. <<>> \in Seq(M) /\ <<TabsChanged>> \in Seq(M)
        BY <1>3
      <4> QED BY <4>1
    <3>2. /\ NetTypes' /\ (port' = None => port = None)
          /\ \E d : /\ News(d) /\ Send(d \o sent) /\ ~Quiet(d, {"Status"})
                    /\ Quiet(d, {"Socks"}) <=> port' = None
      BY <1>1, <1>2, <2>2, <3>1, StartNews DEF BrowserInv, M
    <3>3. PICK d : /\ News(d) /\ Send(d \o sent) /\ ~Quiet(d, {"Status"})
                   /\ Quiet(d, {"Socks"}) <=> port' = None
      BY <3>2
    <3>4. d \in Seq(M)
      BY <3>3 DEF News, M
    <3>5. events' = d \o sent
      <4>1. d \o sent \in Seq(M)
        BY <3>1, <3>4
      <4> QED BY <1>4, <3>3, <4>1 DEF Send
    <3>6. CASE sent = <<>>
      <4>1. events' = d
        BY <3>4, <3>5, <3>6
      <4> QED BY <3>2, <3>3, <4>1
    <3>7. CASE sent = <<TabsChanged>>
      <4> DEFINE m == Append(d, TabsChanged)
      <4>1. events' = m
        BY <1>3, <3>4, <3>5, <3>7, Concats
      <4>2. News(m) /\ \A kinds : Quiet(m, kinds) <=> Quiet(d, kinds) /\ "Tabs" \notin kinds
        BY <1>3, <3>3, NewsGrows DEF PageKinds, M
      <4> HIDE DEF m
      <4>3. Quiet(m, {"Socks"}) <=> port' = None
        BY <3>3, <4>2
      <4> QED BY <3>2, <4>1, <4>2, <4>3
    <3> QED BY <3>6, <3>7
  <2> QED BY <2>1, <2>2 DEF BootFails
<1>6. News(events') /\ (Quiet(events', {"Socks"}) <=> port' = None)
  BY <1>5
<1>7. QueueTypes'
  BY <1>1, <1>6, ModeAssumption DEF BrowserInv, QueueTypes, News
<1>8. UiTypes'
  <2>1. PoolOK(pool)'
    BY <1>1, PoolOKPrimed DEF BrowserInv, UiTypes, PoolOK
  <2> QED BY <1>1, <2>1 DEF BrowserInv, UiTypes, PoolOK
<1>9. ScreenInv'
  <2>1. events' \in Seq(M) /\ Announced(events', active')
    BY <1>6 DEF News, M
  <2>2. events \in Seq(M) /\ events \o events' = events'
    BY <1>4, <2>1
  <2>3. Arrives(events, shown)
    BY DEF BrowserInv, ScreenInv
  <2>4. Arrives(events', shown)
    BY <2>1, <2>2, <2>3, SentArrives
  <2> QED BY <1>1, <2>4 DEF BrowserInv, ScreenInv, Views!Cached
<1>10. LevelInv'
  <2>1. pool.setup.level \in LevelOf(level)
    BY <1>4 DEF BrowserInv, NewsInv, LevelInv, Quiet
  <2>2. Told(events', {"Privacy"}, {PrivacyUpdated(level')})
    BY <1>6 DEF News
  <2> QED BY <1>1, <2>1, <2>2 DEF LevelInv, LevelOf
<1>11. PortInv'
  <2>1. port = None => uiPort = None
    BY DEF BrowserInv, NewsInv, PortInv
  <2>2. Told(events', {"Socks"}, {SocksReady(port')})
    BY <1>6 DEF News
  <2> QED BY <1>1, <1>5, <1>6, <2>1, <2>2 DEF PortInv, SocksReady
<1>12. NewsInv'
  BY <1>1, <1>10, <1>11 DEF NewsInv, StripInv, BadgeInv, PageInv, ProxyInv
<1>13. next' <= MaxTabs
  BY <1>1 DEF BrowserInv
<1> QED BY <1>1, <1>2, <1>5, <1>7, <1>8, <1>9, <1>12, <1>13 DEF BrowserInv

LEMMA HandleCommandKeeps == BrowserInv /\ HandleCommand => BrowserInv'
<1> SUFFICES ASSUME BrowserInv, HandleCommand PROVE BrowserInv'
  OBVIOUS
<1> DEFINE c == Head(commands)
<1>1. /\ phase = "up" /\ phase' = "up" /\ commands # <<>> /\ Handled(c)
      /\ commands' = Tail(commands) /\ UNCHANGED <<waiting, uiVars>>
  BY DEF HandleCommand
<1>2. commands \in Seq(Command(next)) /\ Len(commands) <= ChannelSize
  BY DEF BrowserInv, QueueTypes
<1>3. /\ c \in Command(next) /\ Tail(commands) \in Seq(Command(next))
      /\ Len(Tail(commands)) <= ChannelSize
  <2>1. Len(commands) \in Nat /\ Len(Tail(commands)) = Len(commands) - 1
    BY <1>1, <1>2
  <2> QED BY <1>1, <1>2, <2>1, ModeAssumption
<1> HIDE DEF c
<1>4. TabInv /\ next <= MaxTabs /\ NetTypes
  BY DEF BrowserInv
<1>5. [TabNext]_tabVars
  BY <1>1, <1>3, <1>4, HandledTabs
<1>6. TabInv' /\ next' <= MaxTabs /\ next <= next' /\ next \in Nat /\ next' \in Nat
  BY <1>4, <1>5, TabsAdvance
<1>7. /\ NetTypes'
      /\ (\E m : Report(m)) \/ UNCHANGED <<tabVars, modeVars, level, events>>
  BY <1>1, <1>3, <1>4, HandledReports
<1>8. ASSUME NEW m, Report(m) PROVE BrowserInv'
  BY <1>1, <1>3, <1>6, <1>7, <1>8, ReportedStep
<1>9. CASE UNCHANGED <<tabVars, modeVars, level, events>>
  <2>1. UNCHANGED <<tabs, active, next, protocol, torUp, port, heard, level, events, phase, waiting,
                    strip, shown, label, uiPort, pool, bar>>
    BY <1>1, <1>9 DEF tabVars, modeVars, netVars, linkVars, uiVars, viewVars
  <2>2. QueueTypes'
    BY <1>1, <1>3, <2>1 DEF BrowserInv, QueueTypes
  <2>3. UiTypes'
    <3>1. PoolOK(pool)'
      BY <2>1, PoolOKPrimed DEF BrowserInv, UiTypes, PoolOK
    <3> QED BY <2>1, <3>1 DEF BrowserInv, UiTypes, PoolOK
  <2>4. ScreenInv' /\ BootInv'
    BY <2>1 DEF BrowserInv, ScreenInv, BootInv, Views!Cached
  <2>5. NewsInv'
    BY <2>1 DEF BrowserInv, NewsInv, StripInv, LevelInv, PortInv, BadgeInv, PageInv, ProxyInv, PortFor, RightTabs,
      RightPage, SamePage, Pages, PrivacyUpdated, LevelOf, SocksReady, StatusChanged, LabelOf, Views!Cached, MayGetNoPage
  <2> QED BY <1>1, <1>6, <1>7, <2>2, <2>3, <2>4, <2>5 DEF BrowserInv
<1> QED BY <1>7, <1>8, <1>9

-----------------------------------------------------------------------------
(* The UI makes of each message what the invariant says. *)

\* What has to be shown of the handler of message e.
Drawn(e) ==
  /\ UiTypes'
  /\ pool'.visible \subseteq {shown'}
  /\ shown' \in Views!Cached(pool') => pool'.current = shown'
  /\ Views!Cached(pool') \subseteq strip' \union {shown'}
  /\ ~BuildMayFail => pool'.current = shown' /\ pool'.visible = {shown'}
  /\ IF e.kind = "Tabs" THEN strip' = DOMAIN e.urls /\ shown' = e.active ELSE strip' = strip /\ shown' = shown
  /\ pool'.setup.level = IF e.kind = "Privacy" THEN e.level ELSE pool.setup.level
  /\ uiPort' = IF e.kind = "Socks" THEN e.port ELSE uiPort
  /\ label' = IF e.kind = "Status" THEN LabelOf(e.protocol) ELSE label
  /\ e.kind \in PageKinds /\ shown \in Views!Cached(pool') => pool'.slots[shown].page = e.url
  /\ e.kind = "Bar" => pool' = pool
  /\ e.kind = "Tabs" => pool'.setup = pool.setup
  /\ e.kind = "Url" => pool'.setup.socks = PortFor(e.url)
  /\ e.kind = "Tabs" /\ e.active = shown /\ shown \in Views!Cached(pool') =>
       \/ shown \in Views!Cached(pool) /\ pool'.slots[shown] = pool.slots[shown]
       \/ BuildMayFail /\ pool'.slots[shown].page \in {e.urls[shown], Blank}

LEMMA DrawnKeeps ==
  ASSUME BrowserInv, events # <<>>, events' = Tail(events), Drawn(Head(events)),
         UNCHANGED <<coreVars, commands, waiting>>
  PROVE  BrowserInv'
<1> DEFINE e == Head(events)
           M == Message(next)
<1>1. UNCHANGED <<tabs, active, next, phase, protocol, torUp, port, heard, level, commands, waiting>>
  BY DEF coreVars, tabVars, modeVars, netVars, linkVars
<1>2. events \in Seq(M)
  BY DEF BrowserInv, QueueTypes
<1>3. Arrives(events, shown)
  BY DEF BrowserInv, ScreenInv
<1>4. /\ e \in M /\ events' \in Seq(M)
      /\ e.kind \in PageKinds => e.tab = shown
      /\ Arrives(events', IF e.kind = "Tabs" THEN e.active ELSE shown)
  <2>1. Tail(events) \in Seq(M) /\ Head(events) \in M
    BY <1>2
  <2> QED BY <1>2, <1>3, <2>1, TakenArrives
<1>5. ASSUME NEW kinds
      PROVE  /\ Quiet(events, kinds) <=> Quiet(events', kinds) /\ e.kind \notin kinds
             /\ \A E : Told(events, kinds, E) => Told(events', kinds, E)
             /\ \A E : Told(events, kinds, E) /\ Quiet(events', kinds) /\ e.kind \in kinds => e \in E
             /\ \A E : Trailing(events, kinds, E) => Trailing(events', kinds, E)
             /\ \A E : Trailing(events, kinds, E) /\ Quiet(events', kinds) /\ e.kind = "Tabs" => e \in E
  BY <1>2, TakenTold
<1> HIDE DEF e, M
<1>6. Drawn(e)
  BY DEF e
<1>7. TabInv' /\ next' <= MaxTabs /\ phase' \in {"booting", "up", "dead"} /\ NetTypes'
  BY <1>1 DEF BrowserInv, TabInv, ActiveInv, ActiveIsOpen, NetTypes
<1>8. QueueTypes'
  BY <1>1, <1>4 DEF BrowserInv, QueueTypes, M
<1>9. UiTypes'
  BY <1>6 DEF Drawn
<1>10. ScreenInv'
  BY <1>4, <1>6 DEF ScreenInv, Drawn, Views!Cached
<1>11. BootInv'
  BY <1>1 DEF BrowserInv, BootInv
<1>12. StripInv'
  <2> SUFFICES ASSUME phase = "up"
               PROVE  /\ Told(events', {"Tabs"}, RightTabs)
                      /\ Quiet(events', {"Tabs"}) => strip' = DOMAIN tabs /\ shown' = active
    BY <1>1 DEF StripInv, RightTabs
  <2>1. /\ Told(events, {"Tabs"}, RightTabs)
        /\ Quiet(events, {"Tabs"}) => strip = DOMAIN tabs /\ shown = active
    BY DEF BrowserInv, NewsInv, StripInv
  <2>2. Told(events', {"Tabs"}, RightTabs)
    BY <1>5, <2>1
  <2>3. ASSUME Quiet(events', {"Tabs"}), e.kind = "Tabs" PROVE strip' = DOMAIN tabs /\ shown' = active
    <3>1. e \in RightTabs
      BY <1>5, <2>1, <2>3
    <3> QED BY <1>6, <2>3, <3>1 DEF RightTabs, Drawn
  <2>4. ASSUME Quiet(events', {"Tabs"}), e.kind # "Tabs" PROVE strip' = DOMAIN tabs /\ shown' = active
    BY <1>5, <1>6, <2>1, <2>4 DEF Drawn
  <2> QED BY <2>2, <2>3, <2>4
<1>13. LevelInv'
  <2> SUFFICES /\ Told(events', {"Privacy"}, {PrivacyUpdated(level)})
               /\ Quiet(events', {"Privacy"}) => pool'.setup.level \in LevelOf(level)
    BY <1>1 DEF LevelInv, PrivacyUpdated, LevelOf
  <2>1. /\ Told(events, {"Privacy"}, {PrivacyUpdated(level)})
        /\ Quiet(events, {"Privacy"}) => pool.setup.level \in LevelOf(level)
    BY DEF BrowserInv, NewsInv, LevelInv
  <2>2. ASSUME Quiet(events', {"Privacy"}), e.kind = "Privacy" PROVE pool'.setup.level \in LevelOf(level)
    <3>1. e = PrivacyUpdated(level)
      BY <1>5, <2>1, <2>2
    <3> QED BY <1>6, <2>2, <3>1 DEF PrivacyUpdated, Drawn, LevelOf
  <2>3. ASSUME Quiet(events', {"Privacy"}), e.kind # "Privacy" PROVE pool'.setup.level \in LevelOf(level)
    BY <1>5, <1>6, <2>1, <2>3 DEF Drawn
  <2> QED BY <1>5, <2>1, <2>2, <2>3
<1>14. PortInv'
  <2>1. /\ port = None => uiPort = None /\ Quiet(events, {"Socks"})
        /\ heard # "nothing" =>
             /\ Told(events, {"Socks"}, {SocksReady(port)})
             /\ Quiet(events, {"Socks"}) => uiPort = port
    BY DEF BrowserInv, NewsInv, PortInv
  <2>2. port = None => uiPort' = None /\ Quiet(events', {"Socks"})
    BY <1>5, <1>6, <2>1 DEF Drawn
  <2>3. ASSUME heard # "nothing", Quiet(events', {"Socks"}), e.kind = "Socks" PROVE uiPort' = port
    <3>1. e = SocksReady(port)
      BY <1>5, <2>1, <2>3
    <3> QED BY <1>6, <2>3, <3>1 DEF SocksReady, Drawn
  <2>4. ASSUME heard # "nothing", Quiet(events', {"Socks"}), e.kind # "Socks" PROVE uiPort' = port
    BY <1>5, <1>6, <2>1, <2>4 DEF Drawn
  <2>5. heard # "nothing" => Told(events', {"Socks"}, {SocksReady(port)})
    BY <1>5, <2>1
  <2> QED BY <1>1, <2>2, <2>3, <2>4, <2>5 DEF PortInv, SocksReady
<1>15. BadgeInv'
  <2> SUFFICES ASSUME phase = "up", heard = "mode"
               PROVE  /\ Told(events', {"Status"}, {StatusChanged(protocol)})
                      /\ Quiet(events', {"Status"}) => label' = LabelOf(protocol)
    BY <1>1 DEF BadgeInv, StatusChanged, LabelOf
  <2>1. /\ Told(events, {"Status"}, {StatusChanged(protocol)})
        /\ Quiet(events, {"Status"}) => label = LabelOf(protocol)
    BY DEF BrowserInv, NewsInv, BadgeInv
  <2>2. ASSUME Quiet(events', {"Status"}), e.kind = "Status" PROVE label' = LabelOf(protocol)
    <3>1. e = StatusChanged(protocol)
      BY <1>5, <2>1, <2>2
    <3> QED BY <1>6, <2>2, <3>1 DEF StatusChanged, Drawn
  <2>3. ASSUME Quiet(events', {"Status"}), e.kind # "Status" PROVE label' = LabelOf(protocol)
    BY <1>5, <1>6, <2>1, <2>3 DEF Drawn
  <2> QED BY <1>5, <2>1, <2>2, <2>3
<1>16. PageInv'
  <2> SUFFICES ASSUME phase = "up", tabs[active].url \notin MayGetNoPage
               PROVE  /\ Told(events', Touching, RightPage)
                      /\ Trailing(events', Touching, SamePage)
                      /\ Quiet(events', Touching) =>
                           shown' = active /\ (shown' \in Views!Cached(pool') => pool'.slots[shown'].page \in Pages)
    BY <1>1 DEF PageInv, RightPage, SamePage, RightTabs, Pages, MayGetNoPage, Views!Cached
  <2>1. /\ Told(events, Touching, RightPage)
        /\ Trailing(events, Touching, SamePage)
        /\ Quiet(events, Touching) =>
             shown = active /\ (shown \in Views!Cached(pool) => pool.slots[shown].page \in Pages)
    BY DEF BrowserInv, NewsInv, PageInv
  <2>2. Told(events', Touching, RightPage) /\ Trailing(events', Touching, SamePage)
    BY <1>5, <2>1
  <2> DEFINE Good == shown' = active /\ (shown' \in Views!Cached(pool') => pool'.slots[shown'].page \in Pages)
  <2>3. ASSUME Quiet(events', Touching), e.kind \in Touching PROVE Good
    <3>1. e \in RightPage
      BY <1>5, <2>1, <2>3
    <3>2. e.kind \in PageKinds /\ e.url = tabs[active].url /\ e.tab = active /\ e.kind # "Tabs"
      BY <3>1 DEF RightPage, PageKinds
    <3>3. shown = active
      BY <1>4, <3>2
    <3> QED BY <1>6, <3>2, <3>3 DEF Drawn, Pages
  <2>4. ASSUME Quiet(events', Touching), e.kind = "Tabs" PROVE Good
    <3>1. "Tabs" \notin Touching
      BY DEF Touching, PageKinds
    <3>2. /\ e \in SamePage
          /\ shown = active /\ (shown \in Views!Cached(pool) => pool.slots[shown].page \in Pages)
      BY <1>5, <2>1, <2>4, <3>1
    <3>3. e.active = active /\ e.urls[active] = tabs[active].url
      BY <3>2 DEF SamePage, RightTabs
    <3> QED BY <1>6, <2>4, <3>2, <3>3 DEF Drawn, Pages
  <2>5. ASSUME Quiet(events', Touching), e.kind \notin Touching, e.kind # "Tabs" PROVE Good
    <3>1. e.kind = "Bar"
      BY <1>4, <2>5, MessageParts DEF M, Touching, PageKinds
    <3>2. shown = active /\ (shown \in Views!Cached(pool) => pool.slots[shown].page \in Pages)
      BY <1>5, <2>1, <2>5
    <3> QED BY <1>6, <2>5, <3>1, <3>2 DEF Drawn
  <2> QED BY <2>2, <2>3, <2>4, <2>5
<1>17. ProxyInv'
  <2> SUFFICES ASSUME phase = "up", tabs[active].url \in Web \ MayGetNoPage, Quiet(events', Touching)
               PROVE  pool'.setup.socks = PortFor(tabs[active].url)'
    BY <1>1 DEF ProxyInv, MayGetNoPage
  <2>1. /\ Told(events, Touching, RightPage)
        /\ Quiet(events, Touching) => pool.setup.socks = PortFor(tabs[active].url)
    BY DEF BrowserInv, NewsInv, PageInv, ProxyInv
  <2>2. ASSUME e.kind \notin {"Status", "Socks"} PROVE PortFor(tabs[active].url)' = PortFor(tabs[active].url)
    BY <1>1, <1>6, <2>2 DEF Drawn, PortFor
  <2>3. CASE e.kind \in Touching
    <3>1. e \in RightPage
      BY <1>5, <2>1, <2>3
    <3>2. e.kind \in PageKinds /\ e.url = tabs[active].url
      BY <3>1 DEF RightPage
    <3>3. e.kind = "Url"
      BY <1>4, <3>2, MessageParts DEF M, PageKinds
    <3> QED BY <1>6, <2>2, <3>2, <3>3 DEF Drawn
  <2>4. CASE e.kind \notin Touching
    <3>1. e.kind \in {"Tabs", "Bar"}
      BY <1>4, <2>4, MessageParts DEF M, Touching, PageKinds
    <3>2. pool'.setup = pool.setup
      BY <1>6, <3>1 DEF Drawn
    <3>3. Quiet(events, Touching)
      BY <1>5, <2>4
    <3> QED BY <2>1, <2>2, <3>1, <3>2, <3>3
  <2> QED BY <2>3, <2>4
<1> QED BY <1>7, <1>8, <1>9, <1>10, <1>11, <1>12, <1>13, <1>14, <1>15, <1>16, <1>17 DEF BrowserInv, NewsInv

LEMMA PoolParts ==
  ASSUME NEW p, PoolOK(p)
  PROVE  /\ p.setup.level \in Levels /\ p.setup.socks \in Ports \union {None}
         /\ p.visible \subseteq Views!Cached(p) /\ p.visible \subseteq {p.current}
         /\ \A i \in Views!Cached(p) :
              /\ p.slots[i].lastUrl \in Texts \union {Blank} /\ p.slots[i].page \in Texts \union {Blank}
              /\ p.slots[i].setup = p.setup
<1>1. p.setup \in Setups /\ p.slots \in [DOMAIN p.slots -> Cache!View] /\ p.visible \subseteq DOMAIN p.slots
  BY DEF PoolOK, Cache!WellFormed, Setups
<1>2. p.setup.level \in Levels /\ p.setup.socks \in Ports \union {None}
  BY <1>1 DEF Setups, Setup
<1>3. p.visible \subseteq {p.current} /\ \A i \in DOMAIN p.slots : p.slots[i].setup = p.setup
  BY DEF PoolOK, Cache!Sound, Cache!Cached
<1>4. \A i \in DOMAIN p.slots : /\ p.slots[i].lastUrl \in Texts \union {Blank}
                                /\ p.slots[i].page \in Texts \union {Blank}
  BY <1>1 DEF Cache!View
<1> QED BY <1>1, <1>2, <1>3, <1>4 DEF Views!Cached

\* What a handler of the UI starts from.
LEMMA UiFacts ==
  ASSUME BrowserInv
  PROVE  /\ PoolOK(pool) /\ shown \in 0 .. MaxTabs - 1 /\ shown \in 0 .. next - 1 /\ strip \subseteq 0 .. next - 1
         /\ bar \in Texts /\ uiPort \in Ports \union {None} /\ next \in Nat /\ next <= MaxTabs
         /\ LastUrl \in Texts \union {Blank}
         /\ \A s \in Ports \union {None}, l \in Levels : Setup(s, l) \in Setups /\ Setup(s, l).level = l
         /\ pool.visible \subseteq {shown}
         /\ shown \in Views!Cached(pool) => pool.current = shown
         /\ Views!Cached(pool) \subseteq strip \union {shown}
         /\ ~BuildMayFail => /\ pool.current = shown /\ pool.visible = {shown}
                             /\ shown \in Views!Cached(pool)
<1>1. PoolOK(pool) /\ shown \in 0 .. next - 1 /\ next \in Nat /\ next <= MaxTabs
  BY TabFacts DEF BrowserInv, UiTypes, PoolOK
<1>2. shown \in 0 .. MaxTabs - 1
  <2>1. 0 .. next - 1 \subseteq 0 .. MaxTabs - 1
    BY <1>1, BoundAssumption, MoreTabs
  <2> QED BY <1>1, <2>1
<1>3. LastUrl \in Texts \union {Blank}
  BY <1>1, PoolParts DEF LastUrl, Views!HasActive
<1>4. \A s \in Ports \union {None}, l \in Levels : Setup(s, l) \in Setups /\ Setup(s, l).level = l
  BY DEF Setups, Setup
<1>5. /\ pool.visible \subseteq {shown}
      /\ shown \in Views!Cached(pool) => pool.current = shown
      /\ Views!Cached(pool) \subseteq strip \union {shown}
      /\ ~BuildMayFail => pool.current = shown /\ pool.visible = {shown}
  BY DEF BrowserInv, ScreenInv
<1>6. ~BuildMayFail => shown \in Views!Cached(pool)
  BY <1>1, <1>5, PoolParts
<1> QED BY <1>1, <1>2, <1>3, <1>4, <1>5, <1>6 DEF BrowserInv, UiTypes

\* A handler that rebuilds the views for the shown tab.
LEMMA RebuildDrawn ==
  ASSUME BrowserInv, next' = next, NEW e \in Message(next), e.kind \notin {"Tabs", "Bar"},
         NEW socks \in Ports \union {None}, NEW l \in Levels, NEW url \in Texts \union {Blank},
         RebuildsPool(Setup(socks, l), url, shown),
         strip' = strip, shown' = shown, bar' \in Texts,
         l = IF e.kind = "Privacy" THEN e.level ELSE pool.setup.level,
         uiPort' = IF e.kind = "Socks" THEN e.port ELSE uiPort,
         label' = IF e.kind = "Status" THEN LabelOf(e.protocol) ELSE label,
         e.kind \in PageKinds => url \in Web /\ url = e.url,
         e.kind = "Url" => socks = PortFor(e.url)
  PROVE  Drawn(e)
<1>1. /\ PoolOK(pool) /\ shown \in 0 .. MaxTabs - 1 /\ shown \in 0 .. next - 1 /\ strip \subseteq 0 .. next - 1
      /\ uiPort \in Ports \union {None}
      /\ Setup(socks, l) \in Setups /\ Setup(socks, l).level = l /\ Setup(socks, l).socks = socks
  BY UiFacts DEF Setup
<1>2. /\ PoolOK(pool')
      /\ pool'.visible \subseteq {shown}
      /\ shown \in Views!Cached(pool') => pool'.current = shown
      /\ Views!Cached(pool') \subseteq {shown}
      /\ pool'.setup = Setup(socks, l)
      /\ ~BuildMayFail => pool'.current = shown /\ pool'.visible = {shown}
      /\ shown \in Views!Cached(pool') => pool'.slots[shown] = Views!Built(Setup(socks, l), url)
  BY <1>1, RebuildsPoolEffect
<1>3. url \in Web => Views!Built(Setup(socks, l), url).page = url
  BY DEF Views!Built, Views!ViewOf
<1>4. uiPort' \in Ports \union {None}
  BY <1>1, MessageParts
<1>5. UiTypes'
  BY <1>1, <1>2, <1>4, PoolOKPrimed DEF UiTypes, PoolOK
<1> QED BY <1>1, <1>2, <1>3, <1>5 DEF Drawn

\* A handler that shows a page in the active view.
LEMMA ShowDrawn ==
  ASSUME BrowserInv, next' = next, NEW e \in Message(next), e.kind \in {"Url", "Html", "Error"},
         NEW lastUrl \in Texts \union {Blank}, NEW page \in Texts \union {Blank},
         pool' = Views!Show(pool, lastUrl, page),
         strip' = strip, shown' = shown, bar' \in Texts, uiPort' = uiPort, label' = label,
         e.kind \in PageKinds => page = e.url,
         e.kind = "Url" => pool.setup.socks = PortFor(e.url)
  PROVE  Drawn(e)
<1>1. /\ PoolOK(pool) /\ shown \in 0 .. MaxTabs - 1 /\ shown \in 0 .. next - 1 /\ strip \subseteq 0 .. next - 1
      /\ uiPort \in Ports \union {None}
      /\ pool.visible \subseteq {shown}
      /\ shown \in Views!Cached(pool) => pool.current = shown
      /\ Views!Cached(pool) \subseteq strip \union {shown}
      /\ ~BuildMayFail => pool.current = shown /\ pool.visible = {shown}
  BY UiFacts
<1>2. /\ PoolOK(pool')
      /\ pool'.current = pool.current /\ pool'.visible = pool.visible /\ pool'.setup = pool.setup
      /\ Views!Cached(pool') = Views!Cached(pool)
      /\ Views!HasActive(pool) =>
           pool'.slots[pool.current] = Views!Showing(pool.slots[pool.current], lastUrl, page)
  BY <1>1, ShowEffect
<1>3. shown \in Views!Cached(pool') => pool'.slots[shown].page = page
  BY <1>1, <1>2 DEF Views!HasActive, Views!Showing, Views!ViewOf
<1>4. UiTypes'
  BY <1>1, <1>2, PoolOKPrimed DEF UiTypes, PoolOK
<1> QED BY <1>1, <1>2, <1>3, <1>4 DEF Drawn, PageKinds

\* The list of tabs: views of closed tabs go, the active tab's view is shown.
LEMMA TabsDrawn ==
  ASSUME BrowserInv, next' = next, NEW e \in Message(next), OnTabs(e)
  PROVE  Drawn(e)
<1> DEFINE gone == Views!Cached(pool) \ DOMAIN e.urls
           p == Views!Closed(pool, gone)
           id == e.active
           url == e.urls[e.active]
<1>1. /\ PoolOK(pool) /\ next \in Nat /\ next <= MaxTabs /\ uiPort \in Ports \union {None}
      /\ pool.visible \subseteq {shown}
      /\ shown \in Views!Cached(pool) => pool.current = shown
      /\ ~BuildMayFail => shown \in Views!Cached(pool)
  BY UiFacts
<1>2. /\ e.kind = "Tabs" /\ strip' = DOMAIN e.urls /\ bar' = url /\ shown' = id
      /\ SwitchesPool(p, id, url) /\ label' = label /\ uiPort' = uiPort
  BY DEF OnTabs
<1>3. /\ DOMAIN e.urls \in SUBSET (0 .. next - 1)
      /\ e.urls \in [DOMAIN e.urls -> Urls]
      /\ id \in DOMAIN e.urls /\ id \in 0 .. next - 1
  BY <1>2, MessageParts
<1>4. url \in Urls /\ url \in Texts
  BY <1>3 DEF Texts
<1>5. id \in 0 .. MaxTabs - 1
  <2>1. 0 .. next - 1 \subseteq 0 .. MaxTabs - 1
    BY <1>1, BoundAssumption, MoreTabs
  <2> QED BY <1>3, <2>1
<1>6. /\ PoolOK(p)
      /\ Views!Cached(p) = Views!Cached(pool) \ gone
      /\ p.setup = pool.setup
      /\ \A i \in Views!Cached(pool) \ gone : p.slots[i] = pool.slots[i]
      /\ pool.current \notin gone => p.current = pool.current
  BY <1>1, ClosedEffect
<1>7. Views!Cached(p) \subseteq DOMAIN e.urls
  BY <1>6
<1> HIDE DEF p, url, gone, id
<1>8. /\ PoolOK(pool')
      /\ pool'.visible \subseteq {id}
      /\ id \in Views!Cached(pool') => pool'.current = id
      /\ Views!Cached(pool') \subseteq Views!Cached(p) \union {id}
      /\ pool'.setup = p.setup
      /\ ~BuildMayFail => pool'.current = id /\ pool'.visible = {id}
      /\ id \in Views!Cached(p) /\ p.current = id => pool'.slots = p.slots
      /\ id \notin Views!Cached(p) /\ id \in Views!Cached(pool')
           => pool'.slots[id].page \in {url, Blank}
  BY <1>2, <1>4, <1>5, <1>6, SwitchesPoolEffect
<1>9. ASSUME id = shown, shown \in Views!Cached(pool')
      PROVE  \/ shown \in Views!Cached(pool) /\ pool'.slots[shown] = pool.slots[shown]
             \/ BuildMayFail /\ pool'.slots[shown].page \in {url, Blank}
  <2>1. shown \notin gone
    BY <1>3, <1>9 DEF gone, id
  <2>2. CASE shown \in Views!Cached(pool)
    <3>1. shown \in Views!Cached(p) /\ p.current = shown /\ p.slots[shown] = pool.slots[shown]
      BY <1>1, <1>6, <2>1, <2>2
    <3> QED BY <1>8, <1>9, <2>2, <3>1
  <2>3. CASE shown \notin Views!Cached(pool)
    <3>1. BuildMayFail /\ shown \notin Views!Cached(p)
      BY <1>1, <1>6, <2>3
    <3> QED BY <1>8, <1>9, <3>1
  <2> QED BY <2>2, <2>3
<1>10. UiTypes'
  BY <1>1, <1>2, <1>3, <1>4, <1>8, PoolOKPrimed DEF UiTypes, PoolOK, id
<1>11. Views!Cached(pool') \subseteq strip' \union {shown'}
  BY <1>2, <1>7, <1>8
<1>12. e.kind \notin PageKinds
  BY <1>2 DEF PageKinds
<1>13. /\ pool'.visible \subseteq {shown'}
       /\ shown' \in Views!Cached(pool') => pool'.current = shown'
       /\ ~BuildMayFail => pool'.current = shown' /\ pool'.visible = {shown'}
       /\ pool'.setup = pool.setup
  BY <1>2, <1>6, <1>8
<1>14. strip' = DOMAIN e.urls /\ shown' = e.active
  BY <1>2 DEF id
<1>15. e.active = shown /\ shown \in Views!Cached(pool') =>
       \/ shown \in Views!Cached(pool) /\ pool'.slots[shown] = pool.slots[shown]
       \/ BuildMayFail /\ pool'.slots[shown].page \in {e.urls[shown], Blank}
  BY <1>9 DEF id, url
<1> QED BY <1>2, <1>10, <1>11, <1>12, <1>13, <1>14, <1>15 DEF Drawn

LEMMA EventDrawn ==
  ASSUME BrowserInv, next' = next, NEW e \in Message(next),
         OnTabs(e) \/ OnBar(e) \/ OnUrl(e) \/ OnHtml(e)
           \/ OnStatus(e) \/ OnSocks(e) \/ OnPrivacy(e) \/ OnError(e)
  PROVE  Drawn(e)
<1>1. /\ PoolOK(pool) /\ bar \in Texts /\ uiPort \in Ports \union {None} /\ LastUrl \in Texts \union {Blank}
      /\ pool.setup.level \in Levels
  BY UiFacts, PoolParts
<1>2. /\ e.kind = "Url" => e.url \in Web
      /\ e.kind = "Html" => e.url \in Urls
      /\ e.kind = "Bar" => e.url \in Texts
      /\ e.kind = "Socks" => e.port \in Ports
      /\ e.kind = "Privacy" => e.level \in Levels
  BY MessageParts
<1>3. Urls \subseteq Texts /\ Web \subseteq Texts
  BY AddressAssumption DEF Texts
<1>4. "Status" \notin PageKinds /\ "Socks" \notin PageKinds /\ "Privacy" \notin PageKinds /\ "Error" \notin PageKinds
  BY DEF PageKinds
<1>5. CASE OnTabs(e)
  BY <1>5, TabsDrawn
<1>6. CASE OnBar(e)
  <2>1. /\ e.kind = "Bar" /\ bar' = e.url /\ UNCHANGED <<strip, shown, label, uiPort, pool>>
    BY <1>6 DEF OnBar
  <2>2. UiTypes'
    <3>1. PoolOK(pool)'
      BY <1>1, <2>1, PoolOKPrimed
    <3> QED BY <1>2, <2>1, <3>1 DEF BrowserInv, UiTypes, PoolOK
  <2>3. /\ pool'.visible \subseteq {shown'}
        /\ shown' \in Views!Cached(pool') => pool'.current = shown'
        /\ Views!Cached(pool') \subseteq strip' \union {shown'}
        /\ ~BuildMayFail => pool'.current = shown' /\ pool'.visible = {shown'}
    BY <2>1, UiFacts
  <2> QED BY <2>1, <2>2, <2>3 DEF Drawn, PageKinds
<1>7. CASE OnUrl(e)
  <2> DEFINE want == IF e.url \in Onion \/ label \in Proxied THEN uiPort ELSE None
  <2>1. e.kind = "Url" /\ bar' = e.url /\ UNCHANGED <<strip, shown, label, uiPort>>
    BY <1>7 DEF OnUrl
  <2>a. want = PortFor(e.url)
    BY DEF PortFor
  <2>2. CASE pool.setup.socks # want
    <3>1. RebuildsPool(Setup(want, pool.setup.level), e.url, shown)
      BY <1>7, <2>2 DEF OnUrl
    <3>2. want \in Ports \union {None}
      BY <1>1
    <3> HIDE DEF want
    <3> QED BY <1>1, <1>2, <1>3, <2>1, <2>a, <3>1, <3>2, RebuildDrawn
  <2>3. CASE pool.setup.socks = want
    <3>1. pool' = Views!Show(pool, e.url, e.url)
      BY <1>7, <2>3 DEF OnUrl
    <3> QED BY <1>1, <1>2, <1>3, <2>1, <2>3, <2>a, <3>1, ShowDrawn
  <2> QED BY <2>2, <2>3
<1>8. CASE OnHtml(e)
  <2>1. e.kind = "Html" /\ pool' = Views!Show(pool, bar, e.url)
        /\ UNCHANGED <<strip, shown, bar, label, uiPort>>
    BY <1>8 DEF OnHtml
  <2> QED BY <1>1, <1>2, <1>3, <2>1, ShowDrawn
<1>9. CASE OnStatus(e)
  <2> DEFINE want == IF label' \in Proxied \/ LastUrl \in Onion THEN uiPort ELSE None
  <2>1. /\ e.kind = "Status" /\ label' = LabelOf(e.protocol)
        /\ RebuildsPool(Setup(want, pool.setup.level), LastUrl, shown)
        /\ UNCHANGED <<strip, shown, bar, uiPort>>
    BY <1>9 DEF OnStatus
  <2>2. want \in Ports \union {None}
    BY <1>1
  <2> HIDE DEF want
  <2> QED BY <1>1, <1>4, <2>1, <2>2, RebuildDrawn
<1>10. CASE OnSocks(e)
  <2> DEFINE want == IF label = "Tor" \/ LastUrl \in Onion THEN e.port ELSE None
  <2>1. /\ e.kind = "Socks" /\ uiPort' = e.port
        /\ RebuildsPool(Setup(want, pool.setup.level), LastUrl, shown)
        /\ UNCHANGED <<strip, shown, bar, label>>
    BY <1>10 DEF OnSocks
  <2>2. want \in Ports \union {None}
    BY <1>2, <2>1
  <2> HIDE DEF want
  <2> QED BY <1>1, <1>4, <2>1, <2>2, RebuildDrawn
<1>11. CASE OnPrivacy(e)
  <2> DEFINE want == IF UsingProxy THEN uiPort ELSE None
  <2>1. /\ e.kind = "Privacy"
        /\ RebuildsPool(Setup(want, e.level), LastUrl, shown)
        /\ UNCHANGED <<strip, shown, bar, label, uiPort>>
    BY <1>11 DEF OnPrivacy
  <2>2. want \in Ports \union {None}
    BY <1>1
  <2> HIDE DEF want
  <2> QED BY <1>1, <1>2, <1>4, <2>1, <2>2, RebuildDrawn
<1>12. CASE OnError(e)
  <2>1. e.kind = "Error" /\ pool' = Views!Show(pool, LastUrl, Blank)
        /\ UNCHANGED <<strip, shown, bar, label, uiPort>>
    BY <1>12 DEF OnError
  <2> QED BY <1>1, <1>4, <2>1, ShowDrawn
<1> QED BY <1>5, <1>6, <1>7, <1>8, <1>9, <1>10, <1>11, <1>12

LEMMA HandleEventKeeps == BrowserInv /\ HandleEvent => BrowserInv'
<1> SUFFICES ASSUME BrowserInv, HandleEvent PROVE BrowserInv'
  OBVIOUS
<1> DEFINE e == Head(events)
<1>1. /\ events # <<>> /\ events' = Tail(events) /\ UNCHANGED <<coreVars, commands, waiting>>
      /\ OnTabs(e) \/ OnBar(e) \/ OnUrl(e) \/ OnHtml(e)
           \/ OnStatus(e) \/ OnSocks(e) \/ OnPrivacy(e) \/ OnError(e)
  BY DEF HandleEvent
<1>2. e \in Message(next)
  BY <1>1 DEF BrowserInv, QueueTypes
<1>3. next' = next
  BY <1>1 DEF coreVars, tabVars
<1>4. Drawn(e)
  BY <1>1, <1>2, <1>3, EventDrawn
<1> QED BY <1>1, <1>4, DrawnKeeps

-----------------------------------------------------------------------------
(* The user and the channel. *)

\* The core and the chrome stay as they are, and no message is sent or taken:
\* the views are what is left to look at.
LEMMA QuietStep ==
  ASSUME BrowserInv, UNCHANGED <<coreVars, events, strip, shown, label, uiPort>>,
         commands' \in Seq(Command(next)), Len(commands') <= ChannelSize,
         waiting' \in Command(next) \union {None}, bar' \in Texts,
         PoolOK(pool'), pool'.current = pool.current, pool'.visible = pool.visible,
         pool'.setup = pool.setup, Views!Cached(pool') = Views!Cached(pool),
         shown \in Views!Cached(pool) =>
           pool'.slots[shown] = pool.slots[shown] \/ pool'.slots[shown].page \in Links
  PROVE  BrowserInv'
<1>1. UNCHANGED <<tabs, active, next, phase, protocol, torUp, port, heard, level, events,
                  strip, shown, label, uiPort>>
  BY DEF coreVars, tabVars, modeVars, netVars, linkVars
<1>2. TabInv' /\ next' <= MaxTabs /\ phase' \in {"booting", "up", "dead"} /\ NetTypes' /\ BootInv'
  BY <1>1 DEF BrowserInv, TabInv, ActiveInv, ActiveIsOpen, NetTypes, BootInv
<1>3. QueueTypes'
  BY <1>1 DEF BrowserInv, QueueTypes
<1>4. UiTypes'
  <2>1. PoolOK(pool)'
    BY PoolOKPrimed
  <2> QED BY <1>1, <2>1 DEF BrowserInv, UiTypes, PoolOK
<1>5. ScreenInv'
  <2>1. Views!Cached(pool)' = Views!Cached(pool')
    BY DEF Views!Cached
  <2> QED BY <1>1, <2>1 DEF BrowserInv, ScreenInv
<1>6. StripInv' /\ LevelInv' /\ PortInv' /\ BadgeInv'
  BY <1>1 DEF BrowserInv, NewsInv, StripInv, LevelInv, PortInv, BadgeInv, RightTabs,
    PrivacyUpdated, LevelOf, SocksReady, StatusChanged, LabelOf
<1>7. PageInv'
  <2> SUFFICES ASSUME phase = "up", tabs[active].url \notin MayGetNoPage
               PROVE  /\ Told(events, Touching, RightPage)
                      /\ Trailing(events, Touching, SamePage)
                      /\ Quiet(events, Touching) =>
                           shown = active /\ (shown \in Views!Cached(pool') => pool'.slots[shown].page \in Pages)
    BY <1>1 DEF PageInv, RightPage, SamePage, RightTabs, Pages, MayGetNoPage, Views!Cached
  <2>1. /\ Told(events, Touching, RightPage)
        /\ Trailing(events, Touching, SamePage)
        /\ Quiet(events, Touching) =>
             shown = active /\ (shown \in Views!Cached(pool) => pool.slots[shown].page \in Pages)
    BY DEF BrowserInv, NewsInv, PageInv
  <2>2. Links \subseteq Pages
    BY DEF Pages
  <2> QED BY <2>1, <2>2
<1>8. ProxyInv'
  BY <1>1 DEF BrowserInv, NewsInv, ProxyInv, PortFor, MayGetNoPage
<1> QED BY <1>2, <1>3, <1>4, <1>5, <1>6, <1>7, <1>8 DEF BrowserInv, NewsInv

\* A step that leaves the views alone, too.
LEMMA ChannelStep ==
  ASSUME BrowserInv, UNCHANGED <<coreVars, events, viewVars>>,
         commands' \in Seq(Command(next)), Len(commands') <= ChannelSize,
         waiting' \in Command(next) \union {None}, bar' \in Texts
  PROVE  BrowserInv'
<1>1. UNCHANGED <<strip, shown, label, uiPort, pool>>
  BY DEF viewVars
<1>2. PoolOK(pool')
  BY <1>1, UiFacts
<1> QED BY <1>1, <1>2, QuietStep

\* A command finds room in the channel, or its sender waits for it.
LEMMA DispatchKeeps ==
  ASSUME BrowserInv, NEW c \in Command(next), Dispatch(c), bar' \in Texts
  PROVE  BrowserInv'
<1>1. /\ commands' = IF HasRoom /\ phase # "dead" THEN Append(commands, c) ELSE commands
      /\ waiting' \in {None, c}
      /\ UNCHANGED <<coreVars, events, viewVars>>
  BY DEF Dispatch
<1>2. commands \in Seq(Command(next)) /\ Len(commands) <= ChannelSize /\ Len(commands) \in Nat
  BY DEF BrowserInv, QueueTypes
<1>3. HasRoom => /\ Append(commands, c) \in Seq(Command(next))
                 /\ Len(Append(commands, c)) <= ChannelSize
  <2>1. Append(commands, c) \in Seq(Command(next)) /\ Len(Append(commands, c)) = Len(commands) + 1
    BY <1>2, AppendParts
  <2> QED BY <1>2, <2>1, ModeAssumption DEF HasRoom
<1>4. commands' \in Seq(Command(next)) /\ Len(commands') <= ChannelSize
  BY <1>1, <1>2, <1>3
<1> QED BY <1>1, <1>4, ChannelStep

LEMMA UnblockKeeps == BrowserInv /\ Unblock => BrowserInv'
<1> SUFFICES ASSUME BrowserInv, Unblock PROVE BrowserInv'
  OBVIOUS
<1>1. /\ waiting # None /\ HasRoom /\ commands' = Append(commands, waiting) /\ waiting' = None
      /\ UNCHANGED <<coreVars, events, viewVars, bar>>
  BY DEF Unblock, uiVars
<1>2. commands \in Seq(Command(next)) /\ Len(commands) \in Nat /\ waiting \in Command(next)
  BY <1>1 DEF BrowserInv, QueueTypes
<1>3. commands' \in Seq(Command(next)) /\ Len(commands') <= ChannelSize
  <2>1. commands' \in Seq(Command(next)) /\ Len(commands') = Len(commands) + 1
    BY <1>1, <1>2, AppendParts
  <2> QED BY <1>1, <1>2, <2>1, ModeAssumption DEF HasRoom
<1>4. bar' \in Texts
  BY <1>1, UiFacts
<1> QED BY <1>1, <1>3, <1>4, ChannelStep

\* The view on screen shows another page; nobody is told.
LEMMA FollowLinkKeeps ==
  ASSUME BrowserInv, NEW u \in Links, FollowLink(u)
  PROVE  BrowserInv'
<1> DEFINE v == pool.slots[pool.current]
<1>1. /\ pool.current \in pool.visible
      /\ pool' = Views!Pool(Views!WithView(pool.slots, pool.current, Views!Showing(v, v.lastUrl, u)),
                            pool.lru, pool.current, pool.setup, pool.visible)
      /\ UNCHANGED <<coreVars, commands, waiting, events, strip, shown, bar, label, uiPort>>
  BY DEF FollowLink
<1>2. PoolOK(pool) /\ (shown \in Views!Cached(pool) => pool.current = shown) /\ bar \in Texts
  BY UiFacts
<1>3. Views!HasActive(pool) /\ v.lastUrl \in Texts \union {Blank}
  BY <1>1, <1>2, PoolParts DEF Views!HasActive
<1>4. pool' = Views!Show(pool, v.lastUrl, u)
  BY <1>1, <1>3 DEF Views!Show
<1>5. u \in Texts
  BY AddressAssumption
<1> HIDE DEF v
<1>6. /\ PoolOK(pool')
      /\ pool'.current = pool.current /\ pool'.visible = pool.visible /\ pool'.setup = pool.setup
      /\ Views!Cached(pool') = Views!Cached(pool)
      /\ pool'.slots[pool.current] = Views!Showing(pool.slots[pool.current], v.lastUrl, u)
  BY <1>2, <1>3, <1>4, <1>5, ShowEffect
<1>7. pool'.slots[pool.current].page = u
  BY <1>6 DEF Views!Showing, Views!ViewOf
<1>8. /\ commands' \in Seq(Command(next)) /\ Len(commands') <= ChannelSize
      /\ waiting' \in Command(next) \union {None}
  BY <1>1 DEF BrowserInv, QueueTypes
<1> QED BY <1>1, <1>2, <1>6, <1>7, <1>8, QuietStep

LEMMA UserKeeps == BrowserInv /\ User => BrowserInv'
<1> SUFFICES ASSUME BrowserInv, User PROVE BrowserInv'
  OBVIOUS
<1>1. bar \in Texts /\ strip \subseteq 0 .. next - 1
  BY UiFacts
<1>2. /\ \A do \in {"Back", "Forward", "Refresh", "NewTab"} : [do |-> do] \in Command(next)
      /\ \A do \in {"SwitchTab", "CloseTab"}, id \in 0 .. next - 1 : [do |-> do, id |-> id] \in Command(next)
      /\ \A u \in Urls : [do |-> "Navigate", url |-> u] \in Command(next)
  BY CommandsMade
<1>3. ASSUME Click PROVE BrowserInv'
  <2>1. bar' \in Texts
    BY <1>1, <1>3 DEF Click
  <2>2. ASSUME NEW do \in {"Back", "Forward", "Refresh", "NewTab"}, Dispatch([do |-> do]) PROVE BrowserInv'
    BY <1>2, <2>1, <2>2, DispatchKeeps
  <2>3. ASSUME NEW hit \in TabStripHits, Dispatch([do |-> hit[1], id |-> hit[2]]) PROVE BrowserInv'
    <3>1. hit[1] \in {"SwitchTab", "CloseTab"} /\ hit[2] \in 0 .. next - 1
      BY <1>1 DEF TabStripHits
    <3> QED BY <1>2, <2>1, <2>3, <3>1, DispatchKeeps
  <2>4. ASSUME NEW u \in Buttons, Dispatch([do |-> "Navigate", url |-> u]) PROVE BrowserInv'
    <3>1. u \in Urls
      BY AddressAssumption
    <3> QED BY <1>2, <2>1, <2>4, <3>1, DispatchKeeps
  <2> QED BY <1>3, <2>2, <2>3, <2>4 DEF Click
<1>4. ASSUME NEW text \in Texts, Enters(text) PROVE BrowserInv'
  <2>1. ResolveInput(text) \in Urls /\ bar' \in Texts /\ Dispatch([do |-> "Navigate", url |-> ResolveInput(text)])
    BY <1>4 DEF Enters
  <2> HIDE DEF ResolveInput
  <2> QED BY <1>2, <2>1, DispatchKeeps
<1>5. ASSUME NEW u \in Typed, Type(u) PROVE BrowserInv'
  <2>1. UNCHANGED <<coreVars, commands, waiting, events, viewVars>> /\ bar' \in Texts
    BY <1>5, AddressAssumption DEF Type
  <2>2. /\ commands' \in Seq(Command(next)) /\ Len(commands') <= ChannelSize
        /\ waiting' \in Command(next) \union {None}
    BY <2>1 DEF BrowserInv, QueueTypes
  <2> QED BY <2>1, <2>2, ChannelStep
<1>6. \A u \in Entered : u \in Texts
  BY AddressAssumption
<1> QED BY <1>1, <1>3, <1>4, <1>5, <1>6, FollowLinkKeeps DEF User

-----------------------------------------------------------------------------
(* The invariant holds initially and every step keeps it. *)

LEMMA BrowserInitHolds == Init => BrowserInv
<1> SUFFICES ASSUME Init PROVE BrowserInv
  OBVIOUS
<1>1. TabInv /\ next = 1 /\ active = 0 /\ tabs[active].url = Home
  <2>1. TabInit
    BY DEF Init
  <2>2. tabs[0] = PushHistory(Opened(Welcome), Home)
    BY <2>1 DEF TabInit
  <2>3. PushHistory(Opened(Welcome), Home).url = Home
    BY OpenedIsGood, PushIsGood, UrlAssumption
  <2> QED BY <2>1, <2>2, <2>3, InitHolds DEF TabInit
<1>2. /\ phase = "booting" /\ protocol = StoredMode /\ torUp = FALSE /\ port = None /\ heard = "mode"
      /\ level = StoredLevel /\ commands = <<>> /\ waiting = None /\ events = <<>>
      /\ strip = {} /\ shown = 0 /\ bar = Home /\ label = "Tor" /\ uiPort = None
      /\ pool = Views!NewPool(0)
  BY DEF Init
<1>3. NetTypes
  BY <1>2, ModeAssumption DEF NetTypes
<1>4. QueueTypes
  BY <1>2, ModeAssumption DEF QueueTypes
<1> DEFINE first == Setup(None, "Standard")
<1>5. pool = Cache!Rebuilt(first, Blank, 0) /\ first \in Setups /\ first.level = "Standard"
  <2>1. Views!NewPool(0) = Views!Rebuilt(first, Blank, 0)
    BY DEF Views!NewPool, Views!Rebuilt
  <2>2. first.level = "Standard"
    BY DEF Setup
  <2> QED BY <1>2, <2>1, <2>2, SameMethods, PoolConstants DEF Setups
<1>6. 0 \in 0 .. MaxTabs - 1
  BY BoundAssumption
<1>7. /\ Cache!WellFormed(pool) /\ Cache!Sound(pool)
      /\ pool.current = 0 /\ pool.visible = {0} /\ pool.setup = first
      /\ Cache!Cached(pool) = {0}
  BY <1>5, <1>6, Cache!RebuiltWellFormed, Cache!RebuiltSound, Cache!RebuiltShows, PoolConstants
    DEF Setups, Cache!Shown
<1>a. Cache!Small(pool)
  BY <1>5, Cache!RebuiltSmall, PoolConstants
<1> HIDE DEF first
<1>8. UiTypes
  BY <1>1, <1>2, <1>7, <1>a, UrlAssumption DEF UiTypes, Texts
<1>9. ScreenInv
  <2>1. Arrives(events, shown)
    BY <1>2 DEF Arrives
  <2>2. Views!Cached(pool) = {0}
    BY <1>7, SameMethods
  <2> QED BY <1>2, <1>7, <2>1, <2>2 DEF ScreenInv
<1>10. BootInv
  BY <1>1, <1>2 DEF BootInv
<1>11. \A kinds, E : Quiet(events, kinds) /\ Told(events, kinds, E)
  BY <1>2 DEF Quiet, Told
<1>12. NewsInv
  BY <1>2, <1>5, <1>7, <1>11 DEF NewsInv, StripInv, LevelInv, LevelOf, PortInv, BadgeInv, PageInv, ProxyInv
<1>13. next <= MaxTabs
  BY <1>1, BoundAssumption
<1> QED BY <1>1, <1>2, <1>3, <1>4, <1>8, <1>9, <1>10, <1>12, <1>13 DEF BrowserInv

LEMMA BrowserStep == BrowserInv /\ [Next]_vars => BrowserInv'
<1> SUFFICES ASSUME BrowserInv, [Next]_vars PROVE BrowserInv'
  OBVIOUS
<1>1. CASE UNCHANGED vars
  <2>1. UNCHANGED <<coreVars, events, viewVars>> /\ commands' = commands /\ waiting' = waiting /\ bar' = bar
    BY <1>1 DEF vars, uiVars
  <2>2. /\ commands' \in Seq(Command(next)) /\ Len(commands') <= ChannelSize
        /\ waiting' \in Command(next) \union {None} /\ bar' \in Texts
    BY <2>1 DEF BrowserInv, QueueTypes, UiTypes
  <2> QED BY <2>1, <2>2, ChannelStep
<1> QED BY <1>1, BootKeeps, BootFailsKeeps, HandleCommandKeeps, HandleEventKeeps, UnblockKeeps, UserKeeps
  DEF Next, Core

LEMMA BrowserInvariant == Spec => []BrowserInv
BY BrowserInitHolds, BrowserStep, PTL DEF Spec

\* The tabs move only as the TabManager moves them.
LEMMA BrowserTabStep == BrowserInv /\ [Next]_vars => [TabNext]_tabVars
<1> SUFFICES ASSUME BrowserInv, [Next]_vars PROVE [TabNext]_tabVars
  OBVIOUS
<1>1. CASE HandleCommand
  <2>1. Handled(Head(commands)) /\ commands # <<>>
    BY <1>1 DEF HandleCommand
  <2>2. Head(commands) \in Command(next) /\ TabInv
    BY <2>1 DEF BrowserInv, QueueTypes
  <2> QED BY <2>1, <2>2, HandledTabs
<1>2. CASE Boot \/ BootFails
  BY <1>2 DEF Boot, BootFails
<1>3. ASSUME UNCHANGED coreVars PROVE UNCHANGED tabVars
  BY <1>3 DEF coreVars
<1>4. CASE HandleEvent \/ Unblock
  BY <1>3, <1>4 DEF HandleEvent, Unblock
<1>5. CASE User
  BY <1>3, <1>5 DEF User, Click, Enters, Type, FollowLink, Dispatch
<1>6. CASE UNCHANGED vars
  BY <1>3, <1>6 DEF vars
<1> QED BY <1>1, <1>2, <1>4, <1>5, <1>6 DEF Next, Core

-----------------------------------------------------------------------------
(* What the core, the queues and the UI guarantee together. *)

\* Every variable of the two threads has its type, the channel is never over its
\* capacity, and the UI names no tab that was never opened.
THEOREM BrowserTypesHold == Spec => []BrowserTypeOK
<1>1. BrowserInv => BrowserTypeOK
  <2> SUFFICES ASSUME BrowserInv PROVE BrowserTypeOK
    OBVIOUS
  <2>1. TypeOK
    BY DEF BrowserInv, TabInv, TypeOK, ActiveInv, ActiveIsOpen, GoodTab
  <2>2. waiting = None \/ "do" \in DOMAIN waiting
    BY CommandParts DEF BrowserInv, QueueTypes
  <2>3. Views!PoolTypeOK
    BY DEF BrowserInv, UiTypes, Cache!WellFormed, Views!PoolTypeOK, Cache!View, Views!View, Texts
  <2> QED BY <2>1, <2>2, <2>3 DEF BrowserInv, NetTypes, QueueTypes, UiTypes, BrowserTypeOK, Texts
<1> QED BY <1>1, BrowserInvariant, PTL

\* When nothing is under way the UI draws the core's tabs, takes the core's active
\* tab for the active one, and shows and keeps no view of a tab that was closed.
THEOREM ChromeAgrees == Spec => []ChromeAgreesInv
<1>1. BrowserInv => ChromeAgreesInv
  <2> SUFFICES ASSUME BrowserInv, Settled
               PROVE  /\ strip = DOMAIN tabs /\ shown = active
                      /\ Views!Cached(pool) \subseteq DOMAIN tabs /\ pool.visible \subseteq {active}
    BY DEF ChromeAgreesInv
  <2>1. strip = DOMAIN tabs /\ shown = active
    BY DEF BrowserInv, NewsInv, StripInv, Settled, Quiet
  <2>2. active \in DOMAIN tabs
    BY TabFacts DEF BrowserInv
  <2> QED BY <2>1, <2>2, UiFacts
<1> QED BY <1>1, BrowserInvariant, PTL

\* As long as views can be built, the active tab's view is the one on screen and
\* the one the next page goes to.
THEOREM ActiveTabIsOnScreen == Spec => []OnScreenInv
<1>1. BrowserInv => OnScreenInv
  <2> SUFFICES ASSUME BrowserInv, ~BuildMayFail, Settled
               PROVE  pool.current = active /\ pool.visible = {active}
    BY DEF OnScreenInv
  <2>1. shown = active
    BY DEF BrowserInv, NewsInv, StripInv, Settled, Quiet
  <2> QED BY <2>1, UiFacts
<1> QED BY <1>1, BrowserInvariant, PTL

\* The view on screen shows the page of the active tab, whatever was rebuilt,
\* evicted or toggled on the way.
THEOREM PageAgrees == Spec => []PageAgreesInv
<1>1. BrowserInv => PageAgreesInv
  <2> SUFFICES ASSUME BrowserInv, Settled, active \in pool.visible, tabs[active].url \notin MayGetNoPage
               PROVE  pool.slots[active].page \in Pages
    BY DEF PageAgreesInv, Pages
  <2>1. active \in Views!Cached(pool)
    BY UiFacts, PoolParts
  <2> QED BY <2>1 DEF BrowserInv, NewsInv, PageInv, Settled, Quiet
<1> QED BY <1>1, BrowserInvariant, PTL

\* The views have the privacy level that was chosen; the UI knows the port unless a
\* profile was switched to since it was last told; and the badge names the core's
\* mode, of whatever kind, unless that or a failed change came last.
THEOREM ModeAgrees == Spec => []ModeAgreesInv
<1>1. BrowserInv => ModeAgreesInv
  <2> SUFFICES ASSUME BrowserInv, Settled
               PROVE  /\ pool.setup.level = level \/ (level = StoredLevel /\ pool.setup.level = "Standard")
                      /\ heard # "nothing" => uiPort = port
                      /\ heard = "mode" => label = LabelOf(protocol)
    BY DEF ModeAgreesInv
  <2>1. phase = "up" /\ \A kinds : Quiet(events, kinds)
    BY DEF Settled, Quiet
  <2> QED BY <2>1 DEF BrowserInv, NewsInv, LevelInv, LevelOf, PortInv, BadgeInv
<1> QED BY <1>1, BrowserInvariant, PTL

\* The badges of the modes that go through SOCKS are those the views look at.
LEMMA ProxiedModes ==
  ASSUME NEW p \in Net!Protocols
  PROVE  LabelOf(p) \in Proxied <=> p \in {Tor} \union Configs
<1>1. /\ Tor # Clear /\ Tor # Unsupported /\ Clear # Unsupported
      /\ {Tor, Clear, Unsupported} \intersect Configs = {}
  BY ModeAssumption
<1>2. CASE p = Tor
  <2>1. LabelOf(p) = "Tor"
    BY <1>1, <1>2 DEF LabelOf
  <2> QED BY <1>2, <2>1 DEF Proxied
<1>3. CASE p = Clear
  <2>1. LabelOf(p) = "Direct"
    BY <1>1, <1>3 DEF LabelOf
  <2> QED BY <1>1, <1>3, <2>1 DEF Proxied
<1>4. CASE p \in Configs
  <2>1. LabelOf(p) = "V2Ray"
    BY <1>1, <1>4 DEF LabelOf
  <2> QED BY <1>4, <2>1 DEF Proxied
<1>5. CASE p = Unsupported
  <2>1. LabelOf(p) = "I2P"
    BY <1>1, <1>5 DEF LabelOf
  <2> QED BY <1>1, <1>5, <2>1 DEF Proxied
<1> QED BY <1>2, <1>3, <1>4, <1>5 DEF Net!Protocols, Net!TorModes

\* The view of a tab at a web address goes through the port the core published
\* exactly when the core's mode, or the mode announced last if a change failed, or
\* the address asks for it, and directly otherwise; only a profile switched to on
\* the connect page is not followed.
THEOREM ProxyAgrees == Spec => []ProxyAgreesInv
<1>1. BrowserInv => ProxyAgreesInv
  <2> SUFFICES ASSUME BrowserInv, Settled, heard # "nothing", active \in pool.visible,
                      tabs[active].url \in Web \ MayGetNoPage
               PROVE  pool.slots[active].setup.socks =
                        IF AsksForSocks \/ tabs[active].url \in Onion THEN port ELSE None
    BY DEF ProxyAgreesInv
  <2>1. pool.slots[active].setup = pool.setup
    BY UiFacts, PoolParts
  <2>2. phase = "up" /\ \A kinds : Quiet(events, kinds)
    BY DEF Settled, Quiet
  <2>3. pool.setup.socks = PortFor(tabs[active].url)
    BY <2>2 DEF BrowserInv, NewsInv, ProxyInv
  <2>4. uiPort = port /\ (heard = "mode" => label = LabelOf(protocol)) /\ protocol \in Net!Protocols
    BY <2>2 DEF BrowserInv, NewsInv, PortInv, BadgeInv, NetTypes
  <2>5. AsksForSocks <=> label \in Proxied
    BY <2>4, ProxiedModes DEF AsksForSocks
  <2> QED BY <2>1, <2>3, <2>4, <2>5 DEF PortFor
<1> QED BY <1>1, BrowserInvariant, PTL

\* A page the core made for a tab is put into that tab's view, though the messages
\* name no tab and any number of them may be under way.
THEOREM PagesArrive == Spec => PagesReachTheirTab
<1>1. BrowserInv /\ BrowserInv' /\ [Next]_vars =>
        [~BuildMayFail /\ HandleEvent /\ Head(events).kind \in {"Url", "Html"} =>
           pool'.current = Head(events).tab]_vars
  <2> SUFFICES ASSUME BrowserInv, BrowserInv', ~BuildMayFail, HandleEvent,
                      Head(events).kind \in {"Url", "Html"}
               PROVE  pool'.current = Head(events).tab
    OBVIOUS
  <2>1. events # <<>> /\ events \in Seq(Message(next)) /\ Arrives(events, shown)
    BY DEF HandleEvent, BrowserInv, QueueTypes, ScreenInv
  <2>2. Head(events).tab = shown
    BY <2>1, TakenArrives DEF PageKinds
  <2>3. shown' = shown
    BY DEF HandleEvent, OnTabs, OnBar, OnUrl, OnHtml, OnStatus, OnSocks, OnPrivacy, OnError
  <2>4. pool'.current = shown'
    BY DEF BrowserInv, ScreenInv
  <2> QED BY <2>2, <2>3, <2>4
<1> QED BY <1>1, BrowserInvariant, PTL DEF Spec, PagesReachTheirTab

\* What was shown of the pool alone holds of it in the hands of the UI, whose
\* handlers call several methods at once and go on after some of them failed: the
\* queue names the live views, there are never more than MAX_CACHED, one at most is
\* seen, and none has an old proxy or privacy level (ui/src/lib.rs lines 196-330).
THEOREM PoolIsKept ==
  Spec => [](Views!QueueInv /\ Views!CapacityInv /\ Views!OneVisibleInv /\ Views!SameSetupInv)
<1>1. BrowserInv => Cache!QueueInv /\ Cache!CapacityInv /\ Cache!OneVisibleInv /\ Cache!SameSetupInv
  BY Cache!PoolPromises, PoolConstants DEF BrowserInv, UiTypes, Cache!PoolInv
<1>2. Views!Cached(pool) = Cache!Cached(pool)
  BY SameMethods
<1>3. \A S : Views!Cardinality(S) = Cache!Cardinality(S) /\ Views!ToSet(S) = Cache!ToSet(S)
  BY DEF Views!Cardinality, Cache!Cardinality, Views!ToSet, Cache!ToSet
<1>4. Cache!QueueInv => Views!QueueInv
  BY <1>2, <1>3 DEF Cache!QueueInv, Views!QueueInv
<1>5. Cache!CapacityInv => Views!CapacityInv
  BY <1>2, <1>3 DEF Cache!CapacityInv, Views!CapacityInv
<1>6. Cache!OneVisibleInv => Views!OneVisibleInv
  BY DEF Cache!OneVisibleInv, Views!OneVisibleInv
<1>7. Cache!SameSetupInv => Views!SameSetupInv
  BY <1>2 DEF Cache!SameSetupInv, Views!SameSetupInv
<1> QED BY <1>1, <1>4, <1>5, <1>6, <1>7, BrowserInvariant, PTL

\* What was shown of the TabManager alone holds of it inside the browser, where
\* commands name tabs the UI heard of some time ago.
THEOREM BrowserCursorIsValid == Spec => []CursorInv
<1>1. BrowserInv => CursorInv
  BY DEF BrowserInv, TabInv, CursorInv, GoodTab
<1> QED BY <1>1, BrowserInvariant, PTL

\* No history entry repeats the one before it, whatever the user clicks.
THEOREM BrowserNeverRepeats == Spec => []NoRepeatInv
<1>1. BrowserInv => NoRepeatInv
  BY DEF BrowserInv, TabInv, NoRepeatInv, GoodTab
<1> QED BY <1>1, BrowserInvariant, PTL

\* The whole browser implements the abstract session of BrowsingSession: a step
\* of the core is one of the session's or leaves it alone.
THEOREM BrowserIsASession == Spec => ImplementsSession
<1>1. Init => Session!Init
  BY InitRefines DEF Init
<1>2. BrowserInv /\ [Next]_vars => [Session!Next]_(Session!vars)
  BY BrowserTabStep, StepRefines DEF BrowserInv
<1> QED BY <1>1, <1>2, BrowserInvariant, PTL DEF Spec, ImplementsSession
=============================================================================

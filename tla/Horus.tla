-------------------------------- MODULE Horus --------------------------------
(***************************************************************************)
(* search/src: a search through the local index, Ahmia, the user's SearXNG *)
(* and the DHT (lib.rs, ahmia.rs, index.rs), the DHT task with its table   *)
(* of pending queries, and index_page, which nothing in the program calls  *)
(* yet.  A search is awaited by the core, so there is one at a time.       *)
(*                                                                         *)
(* No shard on disk is ever found by a search: index() files it under the  *)
(* bytes of its address, and a search asks for the hash of its word.  So   *)
(* the disk is left out, and every Get goes to the network.                *)
(***************************************************************************)
EXTENDS Naturals, Sequences, FiniteSets, SequencesExt

CONSTANTS
  Words,         \* what is searched for
  NoWord,        \* the empty one
  LocalHits, OnionHits, SearxHits, Shards,   \* what each source may answer: lists of results
  HasSearx,      \* SENTINEL_SEARX_URL is set
  Cap,           \* results shown at most, 40
  ChannelSize,   \* capacity of the DHT task's channel, 100
  MaxSearches,   \* bound: searches
  None

Results == UNION {Range(hits) : hits \in LocalHits \union OnionHits \union SearxHits \union Shards}

ASSUME HorusAssumption ==
  /\ NoWord \in Words /\ None \notin Words
  /\ <<>> \in LocalHits \intersect OnionHits \intersect SearxHits \intersect Shards
  /\ LocalHits \union OnionHits \union SearxHits \union Shards \subseteq Seq(Results)
  /\ \A r \in Results : r.verified \in BOOLEAN /\ r.title \in Nat   \* titles, by their order
  /\ HasSearx \in BOOLEAN
  /\ Cap \in Nat \ {0} /\ ChannelSize \in Nat \ {0} /\ MaxSearches \in Nat

VARIABLES
  stage,     \* what the search waits for, or "idle"
  word,      \* what it looks for
  serial,    \* searches so far; names the receiver of the last one's answer
  all,       \* what it has found
  heard,     \* history: the word whose shard it took, or None
  shown,     \* what the search returned, once it has
  socks,     \* socks_port is Some
  page,      \* what index_page waits for, holding the index, or "idle"
  channel,   \* commands for the DHT task
  table,     \* pending_queries
  live       \* Get queries that Kademlia still works on (external)

searchVars == <<stage, word, serial, all, heard, shown>>
dhtVars    == <<channel, table, live>>
horusVars  == <<searchVars, socks, page, dhtVars>>

Query == [word : Words, to : 1 .. MaxSearches]
Put   == [word |-> NoWord, to |-> 0]   \* of index_page's, the page left out

HorusTypeOK ==
  /\ stage \in {"idle", "lock", "onion", "clear", "searx", "send", "answer"}
  /\ word \in Words
  /\ serial \in 0 .. MaxSearches
  /\ Range(all) \union Range(shown) \subseteq Results
  /\ heard \in Words \union {None}
  /\ socks \in BOOLEAN
  /\ page \in {"idle", "send", "ack"}
  /\ Range(channel) \subseteq Query \union {Put}
  /\ Len(channel) <= ChannelSize
  /\ table \subseteq Query /\ live \subseteq Query

-----------------------------------------------------------------------------
(* The list of results. *)

Score(r) == (IF r.verified THEN 2 ELSE 0)
          + (CASE r.badge = "Onion" -> 1 [] r.badge = "Local" -> 3 [] OTHER -> 0)

\* sort_by: the higher score first, then the smaller title.
Precedes(r, s) ==
  \/ Score(r) > Score(s)
  \/ Score(r) = Score(s) /\ r.title < s.title

\* The members of S in the order R, a set of pairs.
Rank(S, R, i) == Cardinality({j \in S : j = i \/ <<j, i>> \in R})

InOrder(S, R) == [k \in 1 .. Cardinality(S) |-> CHOOSE i \in S : Rank(S, R, i) = k]

\* The sort is stable: what is found first stays first among equals.
GoesFirst(found) ==
  {p \in (DOMAIN found) \X (DOMAIN found) :
     \/ Precedes(found[p[1]], found[p[2]])
     \/ ~Precedes(found[p[2]], found[p[1]]) /\ p[1] < p[2]}

Sorted(found) ==
  LET order == InOrder(DOMAIN found, GoesFirst(found))
  IN  [k \in DOMAIN found |-> found[order[k]]]

\* dedup_by: of neighbours with the same address the first stays.
WithoutNeighbours(found) ==
  LET kept  == {k \in DOMAIN found : k > 1 => found[k].url # found[k - 1].url}
      order == InOrder(kept, {p \in kept \X kept : p[1] < p[2]})
  IN  [k \in 1 .. Cardinality(kept) |-> found[order[k]]]

Truncated(found) == SubSeq(found, 1, IF Len(found) > Cap THEN Cap ELSE Len(found))

\* A faulty order: the cap counts results that are then dropped.
MergedCapFirst(found) == WithoutNeighbours(Truncated(Sorted(found)))

Merged(found) == Truncated(WithoutNeighbours(Sorted(found)))

-----------------------------------------------------------------------------
(* HorusEngine::search.  A source that fails adds nothing. *)

Search(w) ==
  /\ stage = "idle"
  /\ serial < MaxSearches
  /\ stage' = "lock" /\ word' = w /\ serial' = serial + 1
  /\ all' = <<>> /\ heard' = None /\ shown' = <<>>
  /\ UNCHANGED <<socks, page, dhtVars>>

Found(hits, then) ==
  /\ all' = all \o hits
  /\ stage' = then
  /\ UNCHANGED <<word, serial, heard, shown, socks, page, dhtVars>>

AfterAhmia == IF HasSearx THEN "searx" ELSE "send"

\* The index is locked for this step only.  An empty word finds nothing in it,
\* and Ahmia is not asked for it.
SearchLocal ==
  /\ stage = "lock"
  /\ page = "idle"
  /\ \/ word # NoWord /\ \E hits \in LocalHits : Found(hits, IF socks THEN "onion" ELSE "clear")
     \/ word = NoWord /\ Found(<<>>, AfterAhmia)

\* Ahmia's onion service through our port; when that fails, or finds nothing,
\* ahmia.fi over the clear net.  (The Tor client that would be tried in between
\* is captured before Tor is bootstrapped, and so is always None.)
AhmiaOverSocks ==
  /\ stage = "onion"
  /\ \E hits \in OnionHits : Found(hits, IF hits = <<>> THEN "clear" ELSE AfterAhmia)

AhmiaOverClearnet ==
  /\ stage = "clear"
  /\ \E hits \in OnionHits : Found(hits, AfterAhmia)

SearchSearx ==
  /\ stage = "searx"
  /\ \E hits \in SearxHits : Found(hits, "send")

\* A faulty send: it does not wait for room.
SendGetUnbounded ==
  /\ stage = "send"
  /\ channel' = Append(channel, [word |-> word, to |-> serial])
  /\ stage' = "answer"
  /\ UNCHANGED <<word, serial, all, heard, shown, socks, page, table, live>>

SendGet ==
  /\ stage = "send"
  /\ Len(channel) < ChannelSize
  /\ channel' = Append(channel, [word |-> word, to |-> serial])
  /\ stage' = "answer"
  /\ UNCHANGED <<word, serial, all, heard, shown, socks, page, table, live>>

Finish(found) ==
  /\ stage' = "idle"
  /\ all' = found
  /\ shown' = Merged(found)
  /\ UNCHANGED <<word, serial>>

\* 600 ms for the whole of the DHT: the command may still be in the channel, or
\* its query under way.
DhtTimeout ==
  /\ stage \in {"send", "answer"}
  /\ Finish(all)
  /\ UNCHANGED <<heard, socks, page, dhtVars>>

SearchStep ==
  SearchLocal \/ AhmiaOverSocks \/ AhmiaOverClearnet \/ SearchSearx \/ SendGet \/ DhtTimeout

\* set_socks_port: the core calls it between two searches.
SetSocksPort ==
  /\ stage = "idle"
  /\ socks' = ~socks
  /\ UNCHANGED <<searchVars, page, dhtVars>>

-----------------------------------------------------------------------------
(* index_page: holds the index until the DHT task has acknowledged the Put,  *)
(* without a timeout.                                                        *)

\* The mutex is fair: a search that waits for it goes first.  Nothing is sent
\* when the document cannot be written, for another writer is at work.
IndexPage ==
  /\ page = "idle"
  /\ stage # "lock"
  /\ page' = "send"
  /\ UNCHANGED <<searchVars, socks, dhtVars>>

SendPut ==
  /\ page = "send"
  /\ Len(channel) < ChannelSize
  /\ channel' = Append(channel, Put)
  /\ page' = "ack"
  /\ UNCHANGED <<searchVars, socks, table, live>>

-----------------------------------------------------------------------------
(* The DHT task: one command or one event of Kademlia's at a time. *)

\* Acknowledged at once: that it was not written to disk is only logged, and
\* whether the memory store took it is all the answer says.
TakePut ==
  /\ channel # <<>> /\ Head(channel) = Put
  /\ channel' = Tail(channel)
  /\ page' = "idle"
  /\ UNCHANGED <<searchVars, socks, table, live>>

\* A faulty task: it has one query at a time.
TakeGetAlone ==
  /\ channel # <<>> /\ Head(channel) # Put
  /\ table = {}
  /\ channel' = Tail(channel)
  /\ live' = live \union {Head(channel)}
  /\ table' = table \union {Head(channel)}
  /\ UNCHANGED <<searchVars, socks, page>>

TakeGet ==
  /\ channel # <<>> /\ Head(channel) # Put
  /\ channel' = Tail(channel)
  /\ live' = live \union {Head(channel)}
  /\ table' = table \union {Head(channel)}
  /\ UNCHANGED <<searchVars, socks, page>>

\* The receiver is gone once its search went on.
Deliver(q, hits) ==
  IF stage = "answer" /\ serial = q.to
    THEN Finish(all \o hits) /\ heard' = q.word
    ELSE UNCHANGED searchVars

\* Faulty tables: of one sender, that of the search that waits now; or a query
\* leaves it only with a record.
ProgressedToWaiting(q, hits) ==
  /\ table' = table \ {q}
  /\ IF q \in table THEN Deliver([q EXCEPT !.to = serial], hits) ELSE UNCHANGED searchVars

ProgressedIfRecord(q, hits) ==
  /\ table' = IF hits # <<>> THEN table \ {q} ELSE table
  /\ IF q \in table THEN Deliver(q, hits) ELSE UNCHANGED searchVars

\* OutboundQueryProgressed: a record, an error, or that there are no more; a
\* shard that cannot be read is as good as none.  A query may progress often,
\* only the first time counts.
Progressed(q, hits) ==
  /\ table' = table \ {q}
  /\ IF q \in table THEN Deliver(q, hits) ELSE UNCHANGED searchVars

QueryProgresses ==
  \E q \in live, hits \in Shards :
    /\ Progressed(q, hits)
    /\ live' \in {live, live \ {q}}
    /\ UNCHANGED <<socks, page, channel>>

-----------------------------------------------------------------------------
HorusInit ==
  /\ stage = "idle" /\ word = NoWord /\ serial = 0
  /\ all = <<>> /\ heard = None /\ shown = <<>>
  /\ socks \in BOOLEAN
  /\ page = "idle"
  /\ channel = <<>> /\ table = {} /\ live = {}

HorusNext ==
  \/ \E w \in Words : Search(w)
  \/ SearchStep
  \/ SetSocksPort
  \/ IndexPage \/ SendPut
  \/ TakePut \/ TakeGet
  \/ QueryProgresses

\* Every request has a timeout and the task is always polled; Kademlia need not
\* answer.
HorusFairness ==
  /\ WF_horusVars(SearchStep)
  /\ WF_horusVars(SendPut)
  /\ WF_horusVars(TakePut \/ TakeGet)

HorusSpec == HorusInit /\ [][HorusNext]_horusVars /\ HorusFairness

-----------------------------------------------------------------------------
\* A search takes no shard but one its own word was looked up for, though the
\* queries of searches that timed out are answered later, in any order, or more
\* than once (lib.rs lines 399-411).
OwnAnswerInv == heard \in {None, word}

\* The table of pending queries leaks nothing: each of its entries belongs to
\* a query that Kademlia still works on, and the entry or the command of a search
\* that waits for an answer is never lost.
PendingIsLiveInv ==
  /\ table \subseteq live
  /\ stage = "answer" => [word |-> word, to |-> serial] \in table \union Range(channel)

\* What a search returns is ranked, has no two neighbours of one address, and
\* leaves out an address that was found only when the list is full.
MergedInv ==
  /\ \A i, j \in DOMAIN shown : i < j => ~Precedes(shown[j], shown[i])
  /\ \A i \in DOMAIN shown : i > 1 => shown[i].url # shown[i - 1].url
  /\ stage = "idle" =>
       \/ Len(shown) = Cap
       \/ {r.url : r \in Range(shown)} = {r.url : r \in Range(all)}

\* Every search ends, so the core takes its next command: though the channel may be
\* full of the Gets of searches that gave up, and whatever the network does.  It
\* would also end while index_page holds the index; nothing calls that one yet.
SearchEnds == stage # "idle" ~> stage = "idle"
=============================================================================

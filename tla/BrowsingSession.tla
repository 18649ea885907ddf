-------------------------- MODULE BrowsingSession --------------------------
(***************************************************************************)
(* What the tab strip promises the user, with no array and no cursor: a    *)
(* session is a set of open tabs, each with the pages behind the one on    *)
(* screen, the page on screen, and the pages ahead of it.                  *)
(*                                                                         *)
(* This is the abstract specification; TabManager implements it.           *)
(***************************************************************************)
EXTENDS Naturals, Sequences

CONSTANTS
  Ids,      \* identities a tab can have
  Urls,     \* every address a tab can hold
  Home,     \* sentinel://home
  Welcome   \* sentinel://welcome, the first page of the first tab

VARIABLES
  pages,    \* open tab -> [behind, onScreen, ahead]
  shown,    \* the tab the user looks at
  used      \* every tab identity handed out so far

vars == <<pages, shown, used>>

Page(behind, u, ahead) == [behind |-> behind, onScreen |-> u, ahead |-> ahead]

Init ==
  /\ pages = [i \in {0} |-> Page(<<Welcome>>, Home, <<>>)]
  /\ shown = 0
  /\ used  = {0}

\* The tab on screen is replaced; every other tab keeps its pages.
Turn(p) ==
  /\ pages' = [pages EXCEPT ![shown] = p]
  /\ UNCHANGED <<shown, used>>

\* A visit forgets the pages ahead; visiting the page on screen adds nothing.
Visit(u) ==
  LET p == pages[shown] IN
  Turn(IF u = p.onScreen THEN Page(p.behind, u, <<>>)
                         ELSE Page(Append(p.behind, p.onScreen), u, <<>>))

Back ==
  LET p == pages[shown]
      n == Len(p.behind)
  IN  /\ n > 0
      /\ Turn(Page(SubSeq(p.behind, 1, n - 1), p.behind[n], <<p.onScreen>> \o p.ahead))

Forward ==
  LET p == pages[shown] IN
  /\ p.ahead # <<>>
  /\ Turn(Page(Append(p.behind, p.onScreen), Head(p.ahead), Tail(p.ahead)))

\* A new tab shows Home and has an identity no tab ever had.  The tabs kept
\* beside it are all the open ones, or none when it replaces the last one.
Open(kept, i) ==
  /\ i \notin used
  /\ pages' = [j \in kept \union {i} |-> IF j = i THEN Page(<<>>, Home, <<>>) ELSE pages[j]]
  /\ shown' = i
  /\ used'  = used \union {i}

Select(i) ==
  /\ shown' = i
  /\ UNCHANGED <<pages, used>>

\* Closing leaves at least one tab; what is shown stays shown if it can.
Close(i) ==
  /\ DOMAIN pages # {i}
  /\ pages' = [j \in DOMAIN pages \ {i} |-> pages[j]]
  /\ shown' \in DOMAIN pages'
  /\ shown # i => shown' = shown
  /\ UNCHANGED used

Next ==
  \/ \E u \in Urls : Visit(u)
  \/ Back
  \/ Forward
  \/ \E i \in Ids \ used : Open(DOMAIN pages, i)
  \/ \E i \in DOMAIN pages : Select(i)
  \/ \E i \in DOMAIN pages : Close(i)
  \/ \E i \in Ids \ used : DOMAIN pages = {shown} /\ Open({}, i)

Spec == Init /\ [][Next]_vars
=============================================================================

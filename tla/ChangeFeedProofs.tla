-------------------------- MODULE ChangeFeedProofs --------------------------
(***************************************************************************)
(* Theorems about ChangeFeed, on both adapters, for every number of pages, *)
(* changes, waiting queries and faults, and every batch limit.             *)
(***************************************************************************)
EXTENDS ChangeFeed, FiniteSetTheorems, SequenceTheorems, TLAPS

-----------------------------------------------------------------------------
(***************************************************************************)
(* The invariant: no cursor is ahead of the changes, and none of a page's  *)
(* catch-ups is ahead of the page.                                         *)
(***************************************************************************)

CursorsOK ==
    /\ hub.cursor =< drawn
    /\ \A p \in Pages :
        /\ page[p].cursor =< drawn
        /\ \A from \in page[p].pulls : from =< page[p].cursor
        /\ page[p].link = "open" => \A from \in page[p].stream : from =< page[p].cursor

\* A query that has been answered has rows that are drawn.
Drawn(n) == {r \in Request : r.rows \subseteq 1 .. n}

RequestsOK == requests \in Seq(Drawn(drawn))

IInv == TypeOK /\ CursorsOK /\ RequestsOK /\ NothingIsForgotten

LEMMA AwayType == /\ Away \in Page
                  /\ Away.link = "away" /\ Away.cursor = 0 /\ Away.pulls = {} /\ Away.stream = {}
BY ChangeFeedConstants DEF Away, Page

LEMMA AskType ==
    ASSUME NEW kind \in {"max", "rows", "versionQuiet", "versionFound", "versionNone"},
           NEW from \in 0 .. MaxChanges, NEW n \in Nat
    PROVE  Ask(kind, from) \in Drawn(n)
BY DEF Ask, Request, Drawn

LEMMA InitInv == Init => IInv
<1> SUFFICES ASSUME Init PROVE IInv
  OBVIOUS
<1> USE ChangeFeedConstants
<1>1. Ask("max", 0) \in Drawn(0) /\ Ask("max", 0) \in Request
  BY AskType DEF Drawn
<1>2. requests \in Seq(Drawn(0)) /\ requests \in Seq(Request)
  BY <1>1 DEF Init
<1>3. TypeOK
  BY <1>2, AwayType DEF Init, TypeOK
<1>4. CursorsOK
  BY AwayType DEF Init, CursorsOK
<1>5. NothingIsForgotten
  BY DEF Init, NothingIsForgotten
<1> QED BY <1>2, <1>3, <1>4, <1>5 DEF IInv, RequestsOK, Init

-----------------------------------------------------------------------------
(***************************************************************************)
(* A batch has no holes: it is the changes from a cursor up to its last.   *)
(***************************************************************************)

LEMMA BatchIsDense ==
    ASSUME TypeOK, NEW from \in Nat, NEW last \in Batch(from), NEW s \in feed,
           from < s, s =< last
    PROVE  s \in Batch(from)
<1> DEFINE Upto(x) == {t \in feed : from < t /\ t =< x}
<1>1. feed \subseteq 1 .. drawn /\ drawn \in Nat /\ last \in feed
  BY ChangeFeedConstants DEF TypeOK, Batch
<1>2. Upto(s) \subseteq Upto(last)
  <2>1. s \in Nat /\ last \in Nat /\ \A t \in feed : t \in Nat
    BY <1>1
  <2>2. \A t \in feed : t =< s => t =< last
    BY <2>1
  <2> QED BY <2>2
<1>3. IsFiniteSet(Upto(last))
  <2>1. IsFiniteSet(1 .. drawn)
    BY <1>1, FS_Interval
  <2>2. Upto(last) \subseteq 1 .. drawn
    BY <1>1
  <2> QED BY <2>1, <2>2, FS_Subset
<1>4. Cardinality(Upto(s)) =< Cardinality(Upto(last))
  BY <1>2, <1>3, FS_Subset
<1>5. Cardinality(Upto(s)) \in Nat /\ Cardinality(Upto(last)) \in Nat
  BY <1>2, <1>3, FS_Subset, FS_CardinalityType
<1>6. Cardinality(Upto(last)) =< BatchLimit
  BY DEF Batch
<1> QED BY <1>4, <1>5, <1>6, ChangeFeedConstants DEF Batch

\* A catch-up that has read a batch has covered what is not beyond its last.
LEMMA BatchCovers ==
    ASSUME TypeOK, NEW from \in Nat, NEW last \in Batch(from) \cup {from},
           NEW s \in feed, from < s
    PROVE  s \in Batch(from) \/ (HasMore(from) /\ last < s)
<1> SUFFICES ASSUME s \notin Batch(from) PROVE HasMore(from) /\ last < s
  OBVIOUS
<1>1. HasMore(from)
  BY DEF HasMore
<1>2. s \in Nat /\ last \in Nat
  BY ChangeFeedConstants DEF TypeOK, Batch
<1>3. ~(s =< last)
  BY <1>2, BatchIsDense
<1> QED BY <1>1, <1>2, <1>3

-----------------------------------------------------------------------------
(***************************************************************************)
(* A poll goes on.                                                         *)
(***************************************************************************)

LEMMA SkipKeeps ==
    ASSUME TypeOK, CursorsOK, NothingIsForgotten, NEW rows \in SUBSET (1 .. drawn),
           Skip(rows), drawn' = drawn, feed' = feed
    PROVE  /\ hub' \in [cursor : 0 .. MaxChanges, behind : BOOLEAN]
           /\ page' \in [Pages -> Page]
           /\ CursorsOK'
           /\ NothingIsForgotten'
<1>1. PICK last \in rows \cup {0} :
          /\ hub' = [hub EXCEPT !.cursor = last]
          /\ page' = [p \in Pages |-> IF page[p].link = "open"
                 THEN [page[p] EXCEPT !.missed = @ \cup Passed(p, last, {})] ELSE page[p]]
  BY DEF Skip
<1>2. /\ hub \in [cursor : 0 .. MaxChanges, behind : BOOLEAN]
      /\ drawn \in 0 .. MaxChanges /\ feed \subseteq Changes
      /\ \A p \in Pages : page[p] \in Page
  BY ChangeFeedConstants DEF TypeOK, Changes
<1>3. /\ last \in 0 .. drawn /\ last \in 0 .. MaxChanges
      /\ hub' \in [cursor : 0 .. MaxChanges, behind : BOOLEAN] /\ hub'.cursor = last
  BY <1>1, <1>2, ChangeFeedConstants
<1>4. \A p \in Pages : Passed(p, last, {}) \subseteq feed
  BY DEF Passed
<1>5. ASSUME NEW p \in Pages
      PROVE  /\ page'[p] \in Page
             /\ page'[p].link = page[p].link /\ page'[p].cursor = page[p].cursor
             /\ page'[p].pulls = page[p].pulls /\ page'[p].stream = page[p].stream
             /\ page'[p].known = page[p].known /\ page[p].missed \subseteq page'[p].missed
             /\ page'[p].adopted = page[p].adopted
             /\ page[p].link = "open" => Passed(p, last, {}) \subseteq page'[p].missed
  BY <1>1, <1>2, <1>4 DEF Page
<1>6. page' \in [Pages -> Page]
  BY <1>1, <1>5
<1>7. CursorsOK'
  BY <1>2, <1>3, <1>5 DEF CursorsOK
<1>8. ASSUME NEW p \in Pages, NEW s \in feed, page[p].link = "open", s =< last
      PROVE  Covered(p, s)'
  <2>1. CASE s =< hub.cursor
    BY <1>5, <1>8, <2>1 DEF NothingIsForgotten, Covered, Excused
  <2>2. CASE ~(s =< hub.cursor)
    <3>1. s \in Passed(p, last, {}) \cup page[p].known
      BY <1>2, <1>8, <2>2 DEF Passed, Changes
    <3> QED BY <1>5, <1>8, <3>1 DEF Covered, Excused
  <2> QED BY <2>1, <2>2
<1>9. NothingIsForgotten'
  BY <1>3, <1>5, <1>8 DEF NothingIsForgotten, Covered, Excused
<1> QED BY <1>3, <1>6, <1>7, <1>9

LEMMA BatchChanges ==
    ASSUME TypeOK, NEW from
    PROVE  Batch(from) \subseteq Changes
<1>1. feed \subseteq 1 .. drawn /\ drawn \in Nat /\ MaxChanges \in Nat /\ drawn =< MaxChanges
  BY ChangeFeedConstants DEF TypeOK
<1>2. 1 .. drawn \subseteq 1 .. MaxChanges
  BY <1>1
<1> QED BY <1>1, <1>2 DEF Batch, Changes

\* What a page knows and what it is not owed only change places.
LEMMA ToldPage ==
    ASSUME NEW p \in Pages, page[p] \in Page, NEW rows \in SUBSET Changes
    PROVE  /\ Told(p, rows) \in Page
           /\ Told(p, rows).link = page[p].link /\ Told(p, rows).cursor = page[p].cursor
           /\ Told(p, rows).pulls = page[p].pulls /\ Told(p, rows).stream = page[p].stream
           /\ Told(p, rows).known = page[p].known \cup rows
           /\ Told(p, rows).missed = page[p].missed \ rows
           /\ Told(p, rows).adopted = page[p].adopted \ rows
BY DEF Told, Page

LEMMA BroadcastKeeps ==
    ASSUME TypeOK, CursorsOK, NothingIsForgotten, NEW rows \in SUBSET (1 .. drawn),
           Broadcast(rows), drawn' = drawn, feed' = feed
    PROVE  /\ hub' \in [cursor : 0 .. MaxChanges, behind : BOOLEAN]
           /\ page' \in [Pages -> Page]
           /\ CursorsOK'
           /\ NothingIsForgotten'
<1>1. PICK last \in rows :
          /\ hub' = [hub EXCEPT !.cursor = last]
          /\ page' = [p \in Pages |-> IF page[p].link = "open"
                 THEN [Told(p, rows) EXCEPT !.cursor = Greater(@, last),
                                            !.missed = @ \cup Passed(p, last, rows)]
                 ELSE page[p]]
  BY DEF Broadcast
<1>2. /\ hub \in [cursor : 0 .. MaxChanges, behind : BOOLEAN]
      /\ drawn \in 0 .. MaxChanges /\ feed \subseteq Changes /\ 1 .. drawn \subseteq Changes
      /\ \A p \in Pages : page[p] \in Page
  BY ChangeFeedConstants DEF TypeOK, Changes
<1>3. /\ last \in 0 .. drawn /\ last \in 0 .. MaxChanges
      /\ hub' \in [cursor : 0 .. MaxChanges, behind : BOOLEAN] /\ hub'.cursor = last
  <2>1. last \in 1 .. drawn /\ drawn \in Nat /\ drawn =< MaxChanges /\ MaxChanges \in Nat
    BY <1>2, ChangeFeedConstants
  <2>2. last \in 0 .. drawn /\ last \in 0 .. MaxChanges
    BY <2>1
  <2> QED BY <1>1, <1>2, <2>2
<1>4. (\A p \in Pages : Passed(p, last, rows) \subseteq Changes) /\ rows \subseteq Changes
  BY <1>2 DEF Passed
<1>5. ASSUME NEW p \in Pages, page[p].link = "open"
      PROVE  /\ page'[p] \in Page
             /\ page'[p].link = "open" /\ page'[p].cursor = Greater(page[p].cursor, last)
             /\ page'[p].pulls = page[p].pulls /\ page'[p].stream = page[p].stream
             /\ page'[p].known = page[p].known \cup rows
             /\ page'[p].missed = (page[p].missed \ rows) \cup Passed(p, last, rows)
             /\ page'[p].adopted = page[p].adopted \ rows
  <2>1. page[p].cursor \in 0 .. MaxChanges
    BY <1>2 DEF Page
  <2>2. Greater(page[p].cursor, last) \in 0 .. MaxChanges
    BY <1>3, <2>1 DEF Greater
  <2>3. page'[p] = [Told(p, rows) EXCEPT !.cursor = Greater(page[p].cursor, last),
                                         !.missed = @ \cup Passed(p, last, rows)]
    BY <1>1, <1>2, <1>4, <1>5, ToldPage
  <2>4. Told(p, rows) \in Page
    BY <1>2, <1>4, ToldPage
  <2>5. /\ page'[p] \in Page
        /\ page'[p].link = Told(p, rows).link /\ page'[p].cursor = Greater(page[p].cursor, last)
        /\ page'[p].pulls = Told(p, rows).pulls /\ page'[p].stream = Told(p, rows).stream
        /\ page'[p].known = Told(p, rows).known
        /\ page'[p].missed = Told(p, rows).missed \cup Passed(p, last, rows)
        /\ page'[p].adopted = Told(p, rows).adopted
    BY <1>4, <2>2, <2>3, <2>4 DEF Page
  <2> QED BY <1>2, <1>4, <1>5, <2>5, ToldPage
<1>6. ASSUME NEW p \in Pages, page[p].link # "open" PROVE page'[p] = page[p]
  BY <1>1, <1>6
<1>7. page' \in [Pages -> Page]
  BY <1>1, <1>2, <1>5, <1>6
<1>8. CursorsOK'
  <2>1. hub'.cursor =< drawn'
    BY <1>2, <1>3
  <2>2. ASSUME NEW p \in Pages, page[p].link = "open"
        PROVE  /\ page'[p].cursor =< drawn' /\ page[p].cursor =< page'[p].cursor
               /\ page[p].cursor \in Nat /\ page'[p].cursor \in Nat
    <3>1. page[p].cursor \in Nat /\ page[p].cursor =< drawn /\ last \in Nat /\ last =< drawn
      BY <1>2, <1>3 DEF Page, CursorsOK
    <3> QED BY <1>2, <1>5, <2>2, <3>1 DEF Greater
  <2>3. ASSUME NEW p \in Pages, page[p].link = "open",
               NEW from \in page[p].pulls \cup page[p].stream
        PROVE  from =< page'[p].cursor
    <3>1. from \in Nat /\ from =< page[p].cursor
      BY <1>2, <2>3 DEF Page, CursorsOK
    <3> QED BY <2>2, <2>3, <3>1
  <2> QED BY <1>5, <1>6, <2>1, <2>2, <2>3 DEF CursorsOK
<1>9. ASSUME NEW p \in Pages, NEW s \in feed, page[p].link = "open",
             s =< last \/ s =< page[p].cursor
      PROVE  Covered(p, s)'
  <2>1. CASE s =< hub.cursor \/ s =< page[p].cursor
    BY <1>5, <1>9, <2>1 DEF NothingIsForgotten, Covered, Excused
  <2>2. CASE ~(s =< hub.cursor) /\ s =< last
    <3>1. s \in rows \cup page[p].known \cup Passed(p, last, rows)
      BY <1>2, <1>9, <2>2 DEF Passed, Changes
    <3> QED BY <1>5, <1>9, <3>1 DEF Covered, Excused
  <2> QED BY <1>9, <2>1, <2>2
<1>10. ASSUME NEW p \in Pages, NEW s \in feed, page[p].link = "open",
              s =< page'[p].cursor \/ s =< hub'.cursor
       PROVE  Covered(p, s)'
  <2>1. s =< last \/ s =< page[p].cursor
    BY <1>3, <1>5, <1>10 DEF Greater
  <2> QED BY <1>9, <1>10, <2>1
<1>11. ASSUME NEW p \in Pages, NEW s \in feed, page[p].link # "open", page[p].link # "away",
              s =< page[p].cursor
       PROVE  Covered(p, s)'
  BY <1>6, <1>11 DEF NothingIsForgotten, Covered, Excused
<1>12. NothingIsForgotten'
  BY <1>5, <1>6, <1>10, <1>11 DEF NothingIsForgotten
<1> QED BY <1>3, <1>7, <1>8, <1>12

\* A page that has refetched everything knows every change.
LEMMA RefetchedPage ==
    ASSUME TypeOK, NEW p \in Pages
    PROVE  /\ Refetched(p) \in Page /\ Refetched(p).known = feed
           /\ Refetched(p).link = page[p].link /\ Refetched(p).cursor = page[p].cursor
           /\ Refetched(p).pulls = page[p].pulls /\ Refetched(p).stream = page[p].stream
<1>1. page[p] \in Page /\ feed \subseteq Changes
  BY ChangeFeedConstants DEF TypeOK, Changes
<1> QED BY <1>1 DEF Refetched, Page

LEMMA VersionSeenKeeps ==
    ASSUME TypeOK, CursorsOK, NothingIsForgotten, NEW kind, VersionSeen(kind),
           drawn' = drawn, feed' = feed
    PROVE  /\ hub' \in [cursor : 0 .. MaxChanges, behind : BOOLEAN]
           /\ page' \in [Pages -> Page]
           /\ CursorsOK'
           /\ NothingIsForgotten'
<1>1. hub' \in [cursor : 0 .. MaxChanges, behind : BOOLEAN] /\ hub'.cursor = hub.cursor
  BY DEF VersionSeen, TypeOK
<1>2. ASSUME NEW p \in Pages
      PROVE  /\ page'[p] \in Page
             /\ page'[p].link = page[p].link /\ page'[p].cursor = page[p].cursor
             /\ page'[p].pulls = page[p].pulls /\ page'[p].stream = page[p].stream
             /\ \/ page'[p].known = feed
                \/ /\ page'[p].known = page[p].known /\ page'[p].missed = page[p].missed
                   /\ page'[p].adopted = page[p].adopted
  <2>1. page[p] \in Page /\ page[p].stale \in BOOLEAN
    BY DEF TypeOK, Page
  <2>2. page'[p] \in {page[p], Refetched(p), [page[p] EXCEPT !.masked = page[p].stale]}
    BY DEF VersionSeen
  <2>3. CASE page'[p] = [page[p] EXCEPT !.masked = page[p].stale]
    BY <2>1, <2>3 DEF Page
  <2> QED BY <2>1, <2>2, <2>3, RefetchedPage
<1>3. page' \in [Pages -> Page]
  BY <1>2 DEF VersionSeen
<1>4. CursorsOK'
  BY <1>1, <1>2 DEF CursorsOK
<1>5. NothingIsForgotten'
  BY <1>1, <1>2 DEF NothingIsForgotten, Covered, Excused
<1> QED BY <1>1, <1>3, <1>4, <1>5

LEMMA ResumeKeeps ==
    ASSUME TypeOK, CursorsOK, NothingIsForgotten, NEW request \in Request,
           NEW rows \in SUBSET (1 .. drawn),
           Resume(request, rows), drawn' = drawn, feed' = feed
    PROVE  /\ hub' \in [cursor : 0 .. MaxChanges, behind : BOOLEAN]
           /\ page' \in [Pages -> Page]
           /\ CursorsOK'
           /\ NothingIsForgotten'
<1>1. CASE UNCHANGED <<hub, page>>
  BY <1>1 DEF TypeOK, CursorsOK, NothingIsForgotten, Covered, Excused
<1> QED BY <1>1, SkipKeeps, BroadcastKeeps, VersionSeenKeeps DEF Resume

-----------------------------------------------------------------------------
(***************************************************************************)
(* A step of one page.                                                     *)
(***************************************************************************)

\* The part of the invariant that is about one page, when it is x.
PageOK(x) ==
    /\ x \in Page
    /\ x.cursor =< drawn
    /\ \A from \in x.pulls : from =< x.cursor
    /\ x.link = "open" => \A from \in x.stream : from =< x.cursor
    /\ \A s \in feed :
        (x.link # "away" /\ s =< x.cursor) \/ (x.link = "open" /\ s =< hub.cursor)
        => \/ s \in x.known \cup x.missed \cup x.adopted
           \/ \E from \in x.pulls : from < s

PagesOK == /\ page \in [Pages -> Page]
           /\ CursorsOK
           /\ NothingIsForgotten

LEMMA PagesArePagesOK ==
    PagesOK <=> /\ page \in [Pages -> Page]
                /\ hub.cursor =< drawn
                /\ \A p \in Pages : PageOK(page[p])
BY DEF PagesOK, PageOK, CursorsOK, NothingIsForgotten, Covered, Excused

LEMMA PageStepKeeps ==
    ASSUME PagesOK, NEW p \in Pages, NEW x, PageOK(x), page' = [page EXCEPT ![p] = x],
           UNCHANGED <<drawn, feed, hub>>
    PROVE  PagesOK'
<1>1. /\ page \in [Pages -> Page]
      /\ hub.cursor =< drawn
      /\ \A q \in Pages : PageOK(page[q])
  BY PagesArePagesOK
<1>2. page' \in [Pages -> Page] /\ \A q \in Pages : page'[q] = IF q = p THEN x ELSE page[q]
  BY <1>1 DEF PageOK
<1>3. \A q \in Pages :
        /\ page'[q].cursor =< drawn
        /\ \A from \in page'[q].pulls : from =< page'[q].cursor
        /\ page'[q].link = "open" => \A from \in page'[q].stream : from =< page'[q].cursor
  BY <1>1, <1>2 DEF PageOK
<1>4. CursorsOK'
  BY <1>1, <1>3 DEF CursorsOK
<1>5. \A q \in Pages : \A s \in feed :
        /\ page'[q].link # "away" /\ s =< page'[q].cursor => Covered(q, s)'
        /\ page'[q].link = "open" /\ s =< hub.cursor => Covered(q, s)'
  BY <1>1, <1>2 DEF PageOK, Covered, Excused
<1>6. NothingIsForgotten'
  BY <1>5 DEF NothingIsForgotten
<1> QED BY <1>2, <1>4, <1>6 DEF PagesOK

LEMMA LoadKeeps ==
    ASSUME TypeOK, PagesOK, NEW p \in Pages, Load(p)
    PROVE  PagesOK'
<1> DEFINE x == [Away EXCEPT !.link = "closed", !.known = feed]
<1>1. feed \subseteq Changes /\ drawn \in Nat
  BY ChangeFeedConstants DEF TypeOK, Changes
<1>2. /\ x \in Page /\ x.cursor = 0 /\ x.pulls = {} /\ x.link = "closed" /\ x.known = feed
  BY <1>1, AwayType DEF Page
<1>3. PageOK(x)
  BY <1>1, <1>2 DEF PageOK
<1>4. page' = [page EXCEPT ![p] = x] /\ UNCHANGED <<drawn, feed, hub>>
  BY DEF Load
<1> HIDE DEF x
<1> QED BY <1>3, <1>4, PageStepKeeps

LEMMA ConnectKeeps ==
    ASSUME TypeOK, PagesOK, NEW p \in Pages, Connect(p)
    PROVE  PagesOK'
<1> DEFINE first == page[p].cursor = 0
           x == [page[p] EXCEPT
               !.link = "open",
               !.cursor = IF first THEN hub.cursor ELSE @,
               !.adopted = IF first THEN @ \cup ({s \in feed : s =< hub.cursor} \ page[p].known)
                           ELSE @,
               !.pulls = PullsOfOpen(p),
               !.stream = IF ~first /\ page[p].cursor < hub.cursor
                          THEN {page[p].cursor} ELSE {}]
<1>1. /\ feed \subseteq Changes /\ drawn \in Nat /\ \A s \in feed : s \in Nat
      /\ hub.cursor \in 0 .. MaxChanges /\ hub.cursor \in Nat /\ hub.cursor =< drawn
  BY ChangeFeedConstants DEF TypeOK, Changes, PagesOK, CursorsOK
<1>2. /\ page[p] \in Page /\ page[p].cursor \in 0 .. MaxChanges /\ page[p].cursor \in Nat
      /\ PageOK(page[p]) /\ page[p].link = "closed"
  <2>1. PageOK(page[p])
    BY PagesArePagesOK
  <2>2. page[p] \in Page
    BY <2>1 DEF PageOK
  <2>3. page[p].cursor \in 0 .. MaxChanges
    BY <2>2 DEF Page
  <2>4. page[p].cursor \in Nat
    BY <2>3, ChangeFeedConstants
  <2>5. page[p].link = "closed"
    BY DEF Connect
  <2> QED BY <2>1, <2>2, <2>3, <2>4, <2>5
<1>3. PullsOfOpen(p) \subseteq 0 .. MaxChanges
  BY <1>2 DEF PullsOfOpen, Page
<1>4. /\ x \in Page /\ x.link = "open"
      /\ x.cursor = IF first THEN hub.cursor ELSE page[p].cursor
      /\ x.pulls = PullsOfOpen(p) /\ x.known = page[p].known
      /\ x.missed = page[p].missed
      /\ x.adopted = IF first
                     THEN page[p].adopted \cup ({s \in feed : s =< hub.cursor} \ page[p].known)
                     ELSE page[p].adopted
      /\ x.stream \subseteq {page[p].cursor} /\ (first => x.stream = {})
  BY <1>1, <1>2, <1>3 DEF Page
<1>5. x.cursor =< drawn
  BY <1>1, <1>2, <1>4 DEF PageOK
<1>6. page' = [page EXCEPT ![p] = x] /\ UNCHANGED <<drawn, feed, hub>>
  BY DEF Connect
<1>7. page[p].pulls \subseteq Nat
  BY <1>2, ChangeFeedConstants DEF Page
<1> HIDE DEF x
<1>8. CASE first
  <2>1. \A from \in x.pulls : from =< x.cursor
    BY <1>1, <1>2, <1>4, <1>7, <1>8 DEF PageOK, PullsOfOpen
  <2>2. PageOK(x)
    BY <1>1, <1>4, <1>5, <1>8, <2>1 DEF PageOK
  <2> QED BY <1>6, <2>2, PageStepKeeps
<1>9. CASE ~first
  <2>1. x.pulls = page[p].pulls \cup {page[p].cursor} /\ x.cursor = page[p].cursor
    BY <1>2, <1>4, <1>9 DEF PullsOfOpen
  <2>2. \A from \in x.pulls : from =< x.cursor
    BY <1>2, <2>1 DEF PageOK
  <2>3. ASSUME NEW s \in feed
        PROVE  s \in x.known \cup x.missed \cup x.adopted \/ \E from \in x.pulls : from < s
    <3>1. CASE s =< page[p].cursor
      BY <1>2, <1>4, <1>9, <2>1, <3>1 DEF PageOK
    <3>2. CASE ~(s =< page[p].cursor)
      BY <1>1, <1>2, <2>1, <3>2
    <3> QED BY <3>1, <3>2
  <2>4. PageOK(x)
    BY <1>2, <1>4, <1>5, <2>1, <2>2, <2>3 DEF PageOK
  <2> QED BY <1>6, <2>4, PageStepKeeps
<1> QED BY <1>8, <1>9

LEMMA PullKeeps ==
    ASSUME TypeOK, PagesOK, NEW p \in Pages, NEW from \in 0 .. MaxChanges, Pull(p, from)
    PROVE  PagesOK'
<1>1. PICK last \in Batch(from) \cup {from} :
          /\ IsLast(last, Batch(from) \cup {from})
          /\ page' = [page EXCEPT ![p] = [Told(p, Batch(from)) EXCEPT
                 !.cursor = Greater(@, last),
                 !.pulls = AfterPull(p, from, last)]]
  BY DEF Pull
<1> DEFINE told == Told(p, Batch(from))
           x == [told EXCEPT !.cursor = Greater(@, last),
                             !.pulls = AfterPull(p, from, last)]
<1>2. /\ feed \subseteq 1 .. drawn /\ drawn \in Nat /\ drawn =< MaxChanges /\ MaxChanges \in Nat
      /\ \A s \in feed : s \in Nat
      /\ hub.cursor \in Nat /\ hub.cursor =< drawn
  BY ChangeFeedConstants DEF TypeOK, PagesOK, CursorsOK
<1>3. /\ page[p] \in Page /\ page[p].cursor \in Nat /\ PageOK(page[p])
      /\ from \in page[p].pulls /\ from \in Nat /\ page[p].pulls \subseteq 0 .. MaxChanges
  BY PagesArePagesOK, ChangeFeedConstants DEF Pull, Page
<1>4. from =< page[p].cursor /\ page[p].cursor =< drawn
  BY <1>3 DEF PageOK
<1>5. Batch(from) \subseteq feed /\ Batch(from) \subseteq Changes
  <2>1. Batch(from) \subseteq feed
    BY DEF Batch
  <2>2. 1 .. drawn \subseteq Changes
    BY <1>2 DEF Changes
  <2> QED BY <1>2, <2>1, <2>2
<1>6. last \in Nat /\ last =< drawn
  <2>1. CASE last \in Batch(from)
    <3>1. last \in 1 .. drawn /\ drawn \in Nat
      BY <1>2, <1>5, <2>1
    <3> QED BY <3>1
  <2>2. CASE last = from
    <3>1. from \in Nat /\ page[p].cursor \in Nat /\ drawn \in Nat
      BY <1>2, <1>3
    <3> QED BY <1>4, <2>2, <3>1
  <2> QED BY <2>1, <2>2
<1>7. /\ Greater(page[p].cursor, last) \in 0 .. MaxChanges
      /\ Greater(page[p].cursor, last) =< drawn
      /\ page[p].cursor =< Greater(page[p].cursor, last)
      /\ last =< Greater(page[p].cursor, last)
  BY <1>2, <1>3, <1>4, <1>6 DEF Greater
<1>8. AfterPull(p, from, last) \subseteq 0 .. MaxChanges
  BY <1>2, <1>3, <1>6 DEF AfterPull
<1>9. /\ x \in Page /\ x.link = page[p].link /\ x.cursor = Greater(page[p].cursor, last)
      /\ x.pulls = AfterPull(p, from, last) /\ x.stream = page[p].stream
      /\ x.known = page[p].known \cup Batch(from) /\ x.missed = page[p].missed \ Batch(from)
      /\ x.adopted = page[p].adopted \ Batch(from)
  <2>1. /\ told \in Page /\ told.link = page[p].link /\ told.cursor = page[p].cursor
        /\ told.stream = page[p].stream /\ told.known = page[p].known \cup Batch(from)
        /\ told.missed = page[p].missed \ Batch(from)
        /\ told.adopted = page[p].adopted \ Batch(from)
    BY <1>3, <1>5, ToldPage
  <2> HIDE DEF told
  <2> QED BY <1>7, <1>8, <2>1 DEF Page
<1>10. page' = [page EXCEPT ![p] = x] /\ UNCHANGED <<drawn, feed, hub>>
  BY <1>1 DEF Pull
<1> HIDE DEF x
<1>11. ASSUME NEW f \in page[p].pulls \cup {last} PROVE f =< x.cursor /\ f \in Nat
  <2>1. CASE f \in page[p].pulls
    <3>1. f \in Nat /\ f =< page[p].cursor
      BY <1>3, <2>1 DEF PageOK
    <3> QED BY <1>3, <1>7, <1>9, <3>1
  <2> QED BY <1>6, <1>7, <1>9, <1>11, <2>1
<1>12. \A f \in x.pulls : f =< x.cursor
  BY <1>9, <1>11 DEF AfterPull
<1>13. x.link = "open" => \A f \in x.stream : f =< x.cursor
  <2>1. SUFFICES ASSUME page[p].link = "open", NEW f \in page[p].stream PROVE f =< x.cursor
    BY <1>9
  <2>2. f \in Nat /\ f =< page[p].cursor
    BY <1>3, <2>1 DEF PageOK, Page
  <2> QED BY <1>3, <1>7, <1>9, <2>2
\* The catch-up went past s only with s in the batch.
<1>14. ASSUME NEW s \in feed, from < s
       PROVE  s \in x.known \/ \E f \in x.pulls : f < s
  <2>1. s \in Batch(from) \/ (HasMore(from) /\ last < s)
    BY <1>3, <1>14, BatchCovers
  <2> QED BY <1>9, <2>1 DEF AfterPull
<1>15. ASSUME NEW s \in feed,
              (x.link # "away" /\ s =< x.cursor) \/ (x.link = "open" /\ s =< hub.cursor)
       PROVE  s \in x.known \cup x.missed \cup x.adopted \/ \E f \in x.pulls : f < s
  <2>1. CASE from < s
    BY <1>14, <2>1
  <2>2. CASE ~(from < s)
    <3>1. s =< page[p].cursor
      BY <1>2, <1>3, <1>4, <2>2
    <3>2. x.link # "away"
      BY <1>15
    <3>3. s \in page[p].known \cup page[p].missed \cup page[p].adopted \/ \E f \in page[p].pulls : f < s
      BY <1>3, <1>9, <3>1, <3>2 DEF PageOK
    <3>4. ASSUME NEW f \in page[p].pulls, f < s PROVE f \in x.pulls
      <4>1. f # from
        BY <2>2, <3>4
      <4> QED BY <1>9, <4>1 DEF AfterPull
    <3> QED BY <1>9, <3>3, <3>4
  <2> QED BY <2>1, <2>2
<1>16. PageOK(x)
  BY <1>7, <1>9, <1>12, <1>13, <1>15 DEF PageOK
<1> QED BY <1>10, <1>16, PageStepKeeps

LEMMA PullFailsKeeps ==
    ASSUME TypeOK, PagesOK, NEW p \in Pages, NEW from, PullFails(p, from)
    PROVE  PagesOK'
<1> DEFINE x == [Refetched(p) EXCEPT !.pulls = @ \ {from}]
<1>1. PageOK(page[p])
  BY PagesArePagesOK
<1>2. /\ x \in Page /\ x.link = page[p].link /\ x.cursor = page[p].cursor
      /\ x.pulls = page[p].pulls \ {from} /\ x.stream = page[p].stream /\ x.known = feed
  BY RefetchedPage DEF Page
<1>3. page' = [page EXCEPT ![p] = x] /\ UNCHANGED <<drawn, feed, hub>>
  BY DEF PullFails
<1> HIDE DEF x
<1>4. PageOK(x)
  BY <1>1, <1>2 DEF PageOK
<1> QED BY <1>3, <1>4, PageStepKeeps

LEMMA CatchUpKeeps ==
    ASSUME TypeOK, PagesOK, NEW p \in Pages, NEW from \in 0 .. MaxChanges, CatchUp(p, from)
    PROVE  PagesOK'
<1>1. PICK last \in Batch(from) \cup {from} :
          /\ IsLast(last, Batch(from) \cup {from})
          /\ LET read == IF page[p].link = "open"
                         THEN [Told(p, Batch(from)) EXCEPT !.cursor = Greater(@, last)]
                         ELSE page[p]
             IN  page' = [page EXCEPT ![p] = [read EXCEPT
                     !.stream = IF HasMore(from) THEN {last} ELSE {}]]
  BY DEF CatchUp
<1> DEFINE told == Told(p, Batch(from))
           read == IF page[p].link = "open" THEN [told EXCEPT !.cursor = Greater(@, last)]
                   ELSE page[p]
           x == [read EXCEPT !.stream = IF HasMore(from) THEN {last} ELSE {}]
<1>2. /\ feed \subseteq 1 .. drawn /\ drawn \in Nat /\ drawn =< MaxChanges /\ MaxChanges \in Nat
      /\ \A s \in feed : s \in Nat
      /\ hub.cursor \in Nat /\ hub.cursor =< drawn
  BY ChangeFeedConstants DEF TypeOK, PagesOK, CursorsOK
<1>3. /\ page[p] \in Page /\ page[p].cursor \in Nat /\ PageOK(page[p])
      /\ from \in page[p].stream /\ from \in Nat
  BY PagesArePagesOK, ChangeFeedConstants DEF CatchUp, Page
<1>4. page[p].cursor =< drawn /\ (page[p].link = "open" => from =< page[p].cursor)
  BY <1>3 DEF PageOK
<1>5. Batch(from) \subseteq feed /\ Batch(from) \subseteq Changes
  <2>1. Batch(from) \subseteq feed
    BY DEF Batch
  <2>2. 1 .. drawn \subseteq Changes
    BY <1>2 DEF Changes
  <2> QED BY <1>2, <2>1, <2>2
<1>6. page' = [page EXCEPT ![p] = x] /\ UNCHANGED <<drawn, feed, hub>>
  <2>1. UNCHANGED <<drawn, feed, hub>>
    BY DEF CatchUp
  <2>2. page' = [page EXCEPT ![p] = x]
    BY <1>1
  <2> QED BY <2>1, <2>2
<1>7. last \in 0 .. MaxChanges /\ last \in Nat
  <2>1. last \in 1 .. MaxChanges \/ last = from
    BY <1>5 DEF Changes
  <2> QED BY <2>1, <1>2
\* A stream that broke: the batch is lost.
<1>8. CASE page[p].link # "open"
  <2>1. /\ x \in Page /\ x.link = page[p].link /\ x.cursor = page[p].cursor
        /\ x.pulls = page[p].pulls /\ x.known = page[p].known
        /\ x.missed = page[p].missed /\ x.adopted = page[p].adopted
    BY <1>3, <1>7, <1>8 DEF Page
  <2> HIDE DEF x
  <2>2. PageOK(x)
    BY <1>3, <1>8, <2>1 DEF PageOK
  <2> QED BY <1>6, <2>2, PageStepKeeps
\* One that did not: what was below the cursor was covered before.
<1>9. CASE page[p].link = "open"
  <2>1. last =< drawn
    <3>1. CASE last \in Batch(from)
      <4>1. last \in 1 .. drawn /\ drawn \in Nat
        BY <1>2, <1>5, <3>1
      <4> QED BY <4>1
    <3>2. CASE last = from
      <4>1. from \in Nat /\ page[p].cursor \in Nat /\ drawn \in Nat
        BY <1>2, <1>3
      <4> QED BY <1>4, <1>9, <3>2, <4>1
    <3> QED BY <3>1, <3>2
  <2>2. /\ Greater(page[p].cursor, last) \in 0 .. MaxChanges
        /\ Greater(page[p].cursor, last) =< drawn
        /\ page[p].cursor =< Greater(page[p].cursor, last)
        /\ last =< Greater(page[p].cursor, last)
    BY <1>2, <1>3, <1>4, <1>7, <2>1 DEF Greater
  <2>3. /\ x \in Page /\ x.link = "open" /\ x.cursor = Greater(page[p].cursor, last)
        /\ x.pulls = page[p].pulls /\ x.stream \subseteq {last}
        /\ x.known = page[p].known \cup Batch(from)
        /\ x.missed = page[p].missed \ Batch(from)
        /\ x.adopted = page[p].adopted \ Batch(from)
    <3>1. /\ told \in Page /\ told.link = page[p].link /\ told.cursor = page[p].cursor
          /\ told.pulls = page[p].pulls /\ told.known = page[p].known \cup Batch(from)
          /\ told.missed = page[p].missed \ Batch(from)
          /\ told.adopted = page[p].adopted \ Batch(from)
      BY <1>3, <1>5, ToldPage
    <3> HIDE DEF told
    <3> QED BY <1>7, <1>9, <2>2, <3>1 DEF Page
  <2> HIDE DEF x
  <2>4. \A f \in x.pulls : f =< x.cursor
    <3>1. SUFFICES ASSUME NEW f \in page[p].pulls PROVE f =< x.cursor
      BY <2>3
    <3>2. f \in Nat /\ f =< page[p].cursor
      BY <1>3, <3>1 DEF PageOK, Page
    <3> QED BY <1>3, <2>2, <2>3, <3>2
  <2>5. ASSUME NEW s \in feed, s =< x.cursor \/ s =< hub.cursor
        PROVE  s \in x.known \cup x.missed \cup x.adopted \/ \E f \in x.pulls : f < s
    <3>1. CASE s =< page[p].cursor \/ s =< hub.cursor
      BY <1>3, <1>9, <2>3, <3>1 DEF PageOK
    <3>2. CASE ~(s =< page[p].cursor) /\ s =< x.cursor
      <4>1. from < s
        BY <1>2, <1>3, <1>4, <1>9, <3>2
      <4>2. s =< last
        BY <1>2, <1>3, <1>7, <2>3, <3>2 DEF Greater
      <4>3. s \in Batch(from)
        <5>1. s \in Batch(from) \/ (HasMore(from) /\ last < s)
          BY <1>3, <4>1, BatchCovers
        <5> QED BY <1>2, <1>7, <4>2, <5>1
      <4> QED BY <2>3, <4>3
    <3> QED BY <2>5, <3>1, <3>2
  <2>6. PageOK(x)
    BY <2>2, <2>3, <2>4, <2>5 DEF PageOK
  <2> QED BY <1>6, <2>6, PageStepKeeps
<1> QED BY <1>8, <1>9

LEMMA BreakKeeps ==
    ASSUME TypeOK, PagesOK, NEW p \in Pages, Break(p)
    PROVE  PagesOK'
<1> DEFINE x == [page[p] EXCEPT !.link = "broken", !.stale = FALSE]
<1>1. PageOK(page[p]) /\ page[p].link = "open"
  BY PagesArePagesOK DEF Break
<1>2. /\ x \in Page /\ x.link = "broken" /\ x.cursor = page[p].cursor
      /\ x.pulls = page[p].pulls /\ x.known = page[p].known
      /\ x.missed = page[p].missed /\ x.adopted = page[p].adopted
  BY <1>1 DEF PageOK, Page
<1>3. page' = [page EXCEPT ![p] = x] /\ UNCHANGED <<drawn, feed, hub>>
  BY DEF Break
<1> HIDE DEF x
<1>4. PageOK(x)
  BY <1>1, <1>2 DEF PageOK
<1> QED BY <1>3, <1>4, PageStepKeeps

LEMMA CloseKeeps ==
    ASSUME TypeOK, PagesOK, NEW p \in Pages, Close(p)
    PROVE  PagesOK'
<1> DEFINE x == [page[p] EXCEPT !.link = "closed", !.stream = {}]
<1>1. PageOK(page[p]) /\ page[p].link = "broken"
  BY PagesArePagesOK DEF Close
<1>2. /\ x \in Page /\ x.link = "closed" /\ x.cursor = page[p].cursor
      /\ x.pulls = page[p].pulls /\ x.known = page[p].known
      /\ x.missed = page[p].missed /\ x.adopted = page[p].adopted
  BY <1>1 DEF PageOK, Page
<1>3. page' = [page EXCEPT ![p] = x] /\ UNCHANGED <<drawn, feed, hub>>
  BY DEF Close
<1> HIDE DEF x
<1>4. PageOK(x)
  BY <1>1, <1>2 DEF PageOK
<1> QED BY <1>3, <1>4, PageStepKeeps

-----------------------------------------------------------------------------
(***************************************************************************)
(* Steps of the writers and of the backend.                                *)
(***************************************************************************)

LEMMA Naturals ==
    ASSUME TypeOK, PagesOK
    PROVE  /\ drawn \in Nat /\ hub.cursor \in Nat /\ hub.cursor =< drawn
           /\ MaxChanges \in Nat /\ drawn =< MaxChanges
           /\ feed \subseteq 1 .. drawn /\ \A s \in feed : s \in Nat
           /\ \A p \in Pages : page[p].cursor \in Nat /\ page[p].cursor =< drawn
<1>1. drawn \in Nat /\ MaxChanges \in Nat /\ drawn =< MaxChanges
  BY ChangeFeedConstants DEF TypeOK
<1>2. feed \subseteq 1 .. drawn /\ \A s \in feed : s \in Nat
  BY <1>1 DEF TypeOK
<1>3. hub.cursor \in Nat /\ hub.cursor =< drawn
  BY <1>1 DEF TypeOK, PagesOK, CursorsOK
<1>4. ASSUME NEW p \in Pages PROVE page[p].cursor \in Nat /\ page[p].cursor =< drawn
  <2>1. page[p] \in Page /\ page[p].cursor =< drawn
    BY PagesArePagesOK DEF PageOK
  <2> QED BY <1>1, <2>1 DEF Page
<1> QED BY <1>1, <1>2, <1>3, <1>4

\* A change takes a number that no cursor has reached.
LEMMA WriteKeeps ==
    ASSUME TypeOK, PagesOK, NEW external \in BOOLEAN, Write(external)
    PROVE  /\ PagesOK'
           /\ drawn' \in 0 .. MaxChanges
           /\ open' \in SUBSET (1 .. drawn')
           /\ feed' \in SUBSET ((1 .. drawn') \ open')
           /\ hub' \in [cursor : 0 .. MaxChanges, behind : BOOLEAN]
<1>1. drawn' = drawn + 1 /\ drawn < MaxChanges /\ feed' = feed \cup {drawn + 1}
  BY DEF Write
<1>2. page' = page /\ open' = open
  BY DEF Write
<1>3. hub' \in [cursor : 0 .. MaxChanges, behind : BOOLEAN] /\ hub'.cursor = hub.cursor
  BY DEF Write, Noticed, TypeOK
<1>4. drawn' \in Nat /\ drawn' =< MaxChanges /\ drawn < drawn'
  BY <1>1, Naturals
<1>5. open \in SUBSET (1 .. drawn) /\ feed \in SUBSET ((1 .. drawn) \ open)
  BY DEF TypeOK
<1>6. \A i \in 1 .. drawn : i \in 1 .. drawn' /\ i # drawn + 1
  BY <1>4, Naturals
<1>7. drawn + 1 \in 1 .. drawn'
  BY <1>1, <1>4, Naturals
<1>8. open' \in SUBSET (1 .. drawn') /\ feed' \in SUBSET ((1 .. drawn') \ open')
  BY <1>1, <1>2, <1>5, <1>6, <1>7
<1>9. ASSUME NEW p \in Pages PROVE ~(drawn + 1 =< page[p].cursor) /\ ~(drawn + 1 =< hub.cursor)
  BY Naturals
<1>10. hub'.cursor =< drawn'
  BY <1>3, <1>4, Naturals
<1>11. ASSUME NEW p \in Pages PROVE page[p].cursor =< drawn'
  BY <1>4, Naturals
<1>12. CursorsOK'
  BY <1>2, <1>10, <1>11 DEF PagesOK, CursorsOK
<1>13. NothingIsForgotten'
  BY <1>1, <1>2, <1>3, <1>9 DEF PagesOK, NothingIsForgotten, Covered, Excused
<1> QED BY <1>2, <1>3, <1>4, <1>8, <1>12, <1>13, Naturals DEF PagesOK

LEMMA DrawKeeps ==
    ASSUME TypeOK, PagesOK, Draw
    PROVE  /\ PagesOK'
           /\ drawn' \in 0 .. MaxChanges
           /\ open' \in SUBSET (1 .. drawn')
           /\ feed' \in SUBSET ((1 .. drawn') \ open')
<1>1. /\ drawn' = drawn + 1 /\ drawn < MaxChanges /\ open' = open \cup {drawn + 1}
      /\ feed' = feed /\ hub' = hub /\ page' = page
  BY DEF Draw
<1>2. drawn' \in Nat /\ drawn' =< MaxChanges /\ drawn < drawn'
  BY <1>1, Naturals
<1>3. open \in SUBSET (1 .. drawn) /\ feed \in SUBSET ((1 .. drawn) \ open)
  BY DEF TypeOK
<1>4. \A i \in 1 .. drawn : i \in 1 .. drawn' /\ i # drawn + 1
  BY <1>2, Naturals
<1>5. drawn + 1 \in 1 .. drawn'
  BY <1>1, <1>2, Naturals
<1>6. open' \in SUBSET (1 .. drawn') /\ feed' \in SUBSET ((1 .. drawn') \ open')
  BY <1>1, <1>3, <1>4, <1>5
<1>7. hub.cursor =< drawn' /\ \A p \in Pages : page[p].cursor =< drawn'
  BY <1>2, Naturals
<1>8. CursorsOK'
  BY <1>1, <1>7 DEF PagesOK, CursorsOK
<1>9. NothingIsForgotten'
  BY <1>1 DEF PagesOK, NothingIsForgotten, Covered, Excused
<1> QED BY <1>1, <1>2, <1>6, <1>8, <1>9, Naturals DEF PagesOK

\* A change that commits below a cursor is missed.
LEMMA EndTransactionKeeps ==
    ASSUME TypeOK, PagesOK, NEW s \in Changes, NEW commits \in BOOLEAN,
           EndTransaction(s, commits)
    PROVE  /\ PagesOK'
           /\ open' \in SUBSET (1 .. drawn')
           /\ feed' \in SUBSET ((1 .. drawn') \ open')
<1>1. /\ s \in open /\ open' = open \ {s} /\ drawn' = drawn /\ hub' = hub
      /\ feed' = IF commits THEN feed \cup {s} ELSE feed
      /\ page' = [p \in Pages |->
             IF /\ commits
                /\ s =< page[p].cursor \/ (page[p].link = "open" /\ s =< hub.cursor)
             THEN [page[p] EXCEPT !.missed = @ \cup {s}] ELSE page[p]]
  BY DEF EndTransaction
<1>2. open \in SUBSET (1 .. drawn) /\ feed \in SUBSET ((1 .. drawn) \ open)
  BY DEF TypeOK
<1>3. open' \in SUBSET (1 .. drawn') /\ feed' \in SUBSET ((1 .. drawn') \ open')
  BY <1>1, <1>2
<1>4. ASSUME NEW p \in Pages
      PROVE  /\ page'[p] \in Page
             /\ page'[p].link = page[p].link /\ page'[p].cursor = page[p].cursor
             /\ page'[p].pulls = page[p].pulls /\ page'[p].stream = page[p].stream
             /\ page'[p].known = page[p].known /\ page[p].missed \subseteq page'[p].missed
             /\ page'[p].adopted = page[p].adopted
             /\ /\ commits
                /\ s =< page[p].cursor \/ (page[p].link = "open" /\ s =< hub.cursor)
                => s \in page'[p].missed
  <2>1. page[p] \in Page
    BY DEF PagesOK
  <2> QED BY <1>1, <2>1 DEF Page
<1>5. page' \in [Pages -> Page]
  BY <1>1, <1>4
<1>6. CursorsOK'
  BY <1>1, <1>4 DEF PagesOK, CursorsOK
<1>7. feed' \subseteq feed \cup {s} /\ (feed' # feed => commits)
  BY <1>1
<1>8. ASSUME NEW p \in Pages, NEW t \in feed',
             \/ page'[p].link # "away" /\ t =< page'[p].cursor
             \/ page'[p].link = "open" /\ t =< hub'.cursor
      PROVE  Covered(p, t)'
  <2>1. CASE t \in feed
    BY <1>1, <1>4, <1>8, <2>1 DEF PagesOK, NothingIsForgotten, Covered, Excused
  <2>2. CASE t \notin feed
    <3>1. t = s /\ commits
      BY <1>7, <2>2
    <3>2. s \in page'[p].missed
      BY <1>1, <1>4, <1>8, <3>1
    <3> QED BY <3>1, <3>2 DEF Covered, Excused
  <2> QED BY <2>1, <2>2
<1>9. NothingIsForgotten'
  BY <1>8 DEF NothingIsForgotten
<1> QED BY <1>3, <1>5, <1>6, <1>9 DEF PagesOK

LEMMA ToolWritesKeeps ==
    ASSUME TypeOK, PagesOK, ToolWrites
    PROVE  PagesOK' /\ hub' \in [cursor : 0 .. MaxChanges, behind : BOOLEAN]
<1>1. drawn' = drawn /\ feed' = feed
  BY DEF ToolWrites
<1>2. hub' \in [cursor : 0 .. MaxChanges, behind : BOOLEAN] /\ hub'.cursor = hub.cursor
  BY DEF ToolWrites, Noticed, TypeOK
<1>3. page' = [p \in Pages |-> IF page[p].link = "open"
           THEN [page[p] EXCEPT !.stale = TRUE, !.masked = FALSE] ELSE page[p]]
  BY DEF ToolWrites
<1>4. ASSUME NEW p \in Pages
      PROVE  /\ page'[p] \in Page
             /\ page'[p].link = page[p].link /\ page'[p].cursor = page[p].cursor
             /\ page'[p].pulls = page[p].pulls /\ page'[p].stream = page[p].stream
             /\ page'[p].known = page[p].known
             /\ page'[p].missed = page[p].missed /\ page'[p].adopted = page[p].adopted
  <2>1. page[p] \in Page
    BY DEF PagesOK
  <2> QED BY <1>3, <2>1 DEF Page
<1>5. page' \in [Pages -> Page]
  BY <1>3, <1>4
<1>6. CursorsOK'
  BY <1>1, <1>2, <1>4 DEF PagesOK, CursorsOK
<1>7. NothingIsForgotten'
  BY <1>1, <1>2, <1>4 DEF PagesOK, NothingIsForgotten, Covered, Excused
<1> QED BY <1>2, <1>5, <1>6, <1>7 DEF PagesOK

LEMMA RestartKeeps ==
    ASSUME TypeOK, PagesOK, Restart
    PROVE  PagesOK' /\ hub' \in [cursor : 0 .. MaxChanges, behind : BOOLEAN]
<1>1. /\ drawn' = drawn /\ feed' = feed /\ hub' = [cursor |-> 0, behind |-> TRUE]
      /\ page' = [p \in Pages |-> IF Subscribed(p)
             THEN [page[p] EXCEPT !.link = "closed", !.stream = {}, !.stale = FALSE]
             ELSE page[p]]
  BY DEF Restart
<1>2. hub' \in [cursor : 0 .. MaxChanges, behind : BOOLEAN] /\ hub'.cursor =< drawn'
  <2>1. drawn \in Nat /\ MaxChanges \in Nat
    BY Naturals
  <2>2. 0 \in 0 .. MaxChanges /\ 0 =< drawn
    BY <2>1
  <2> QED BY <1>1, <2>2
<1>3. ASSUME NEW p \in Pages
      PROVE  /\ page'[p] \in Page
             /\ page'[p].link # "open"
             /\ page'[p].link # "away" => page[p].link # "away"
             /\ page'[p].cursor = page[p].cursor /\ page'[p].pulls = page[p].pulls
             /\ page'[p].known = page[p].known
             /\ page'[p].missed = page[p].missed /\ page'[p].adopted = page[p].adopted
  <2>1. page[p] \in Page
    BY DEF PagesOK
  <2> QED BY <1>1, <2>1 DEF Page, Subscribed
<1>4. page' \in [Pages -> Page]
  BY <1>1, <1>3
<1>5. CursorsOK'
  BY <1>1, <1>2, <1>3 DEF PagesOK, CursorsOK
<1>6. NothingIsForgotten'
  BY <1>1, <1>3 DEF PagesOK, NothingIsForgotten, Covered, Excused
<1> QED BY <1>2, <1>4, <1>5, <1>6 DEF PagesOK

LEMMA UnchangedKeeps ==
    ASSUME PagesOK, UNCHANGED <<drawn, feed, hub, page>>
    PROVE  PagesOK'
BY DEF PagesOK, CursorsOK, NothingIsForgotten, Covered, Excused

-----------------------------------------------------------------------------
(***************************************************************************)
(* The queries of the hub's polls.                                         *)
(***************************************************************************)

LEMMA AskOK ==
    ASSUME TypeOK, NEW kind \in {"max", "rows", "versionQuiet", "versionFound", "versionNone"},
           NEW from \in 0 .. MaxChanges
    PROVE  Ask(kind, from) \in Drawn(drawn)
<1>1. drawn \in Nat
  BY ChangeFeedConstants DEF TypeOK
<1> QED BY <1>1, AskType

LEMMA NoFrom == 0 \in 0 .. MaxChanges
BY ChangeFeedConstants

\* Later there are only more changes.
LEMMA RequestsGrow ==
    ASSUME NEW m \in Nat, NEW n \in Nat, m =< n, NEW seq \in Seq(Drawn(m))
    PROVE  seq \in Seq(Drawn(n)) /\ seq \in Seq(Request)
<1>1. 1 .. m \subseteq 1 .. n
  OBVIOUS
<1>2. Drawn(m) \subseteq Drawn(n) /\ Drawn(m) \subseteq Request
  BY <1>1 DEF Drawn
<1> QED BY <1>2, SeqMonotonic

LEMMA PollRequests ==
    ASSUME TypeOK, RequestsOK, Poll
    PROVE  requests' \in Seq(Drawn(drawn))
<1>1. hub.cursor \in 0 .. MaxChanges
  BY DEF TypeOK
<1>2. Ask("max", 0) \in Drawn(drawn) /\ Ask("rows", hub.cursor) \in Drawn(drawn)
  BY <1>1, NoFrom, AskOK
<1>3. PICK r \in Drawn(drawn) : requests' = Append(requests, r)
  BY <1>2 DEF Poll
<1> QED BY <1>3, AppendProperties DEF RequestsOK

LEMMA AnswerDrawn ==
    ASSUME TypeOK, NEW r \in Request
    PROVE  Answer(r) \subseteq 1 .. drawn
<1>1. feed \subseteq 1 .. drawn
  BY DEF TypeOK
<1>2. Batch(r.from) \subseteq feed
  BY DEF Batch
<1> QED BY <1>1, <1>2 DEF Answer

LEMMA ServeRequests ==
    ASSUME TypeOK, RequestsOK, Serve
    PROVE  /\ requests' \in Seq(Drawn(drawn))
           /\ Head(requests) \in Request
           /\ Resume(Head(requests), Answer(Head(requests)))
<1>1. requests \in Seq(Drawn(drawn)) /\ requests # <<>>
  BY DEF RequestsOK, Serve
<1>2. Head(requests) \in Drawn(drawn) /\ Tail(requests) \in Seq(Drawn(drawn))
  BY <1>1, HeadTailProperties
<1> DEFINE rest == NextRequest(Head(requests), Answer(Head(requests)))
<1>3. rest \in Seq(Drawn(drawn))
  <2>1. /\ Ask("versionQuiet", 0) \in Drawn(drawn) /\ Ask("versionNone", 0) \in Drawn(drawn)
        /\ Ask("versionFound", 0) \in Drawn(drawn)
    BY NoFrom, AskOK
  <2>2. rest \in {<<>>, <<Ask("versionQuiet", 0)>>, <<Ask("versionNone", 0)>>,
                  <<Ask("versionFound", 0)>>}
    BY DEF NextRequest
  <2>3. \A e \in Drawn(drawn) : <<e>> \in Seq(Drawn(drawn))
    OBVIOUS
  <2> HIDE DEF rest
  <2> QED BY <2>1, <2>2, <2>3, EmptySeq
<1>4. requests' = Tail(requests) \o rest
  BY DEF Serve
<1>5. Resume(Head(requests), Answer(Head(requests)))
  BY DEF Serve
<1> HIDE DEF rest
<1> QED BY <1>2, <1>3, <1>4, <1>5, ConcatProperties DEF Drawn

LEMMA ServeLaterRequests ==
    ASSUME TypeOK, RequestsOK, NEW i \in DOMAIN requests, ServeLater(i)
    PROVE  requests' \in Seq(Drawn(drawn))
<1>1. requests \in Seq(Drawn(drawn)) /\ i \in 1 .. Len(requests)
  BY DEF RequestsOK
<1>2. requests[i] \in Drawn(drawn)
  BY <1>1, ElementOfSeq
<1>3. Answer(requests[i]) \subseteq 1 .. drawn /\ 1 .. drawn \subseteq Changes
  BY <1>2, AnswerDrawn, ChangeFeedConstants DEF Drawn, TypeOK, Changes
<1> DEFINE x == [requests[i] EXCEPT !.answered = TRUE, !.rows = Answer(requests[i])]
<1>4. x \in Drawn(drawn)
  BY <1>2, <1>3 DEF Drawn, Request
<1>5. requests' = [requests EXCEPT ![i] = x]
  BY <1>1 DEF ServeLater
<1> HIDE DEF x
<1> QED BY <1>1, <1>4, <1>5, ExceptSeq

LEMMA ResumeLaterRequests ==
    ASSUME TypeOK, RequestsOK, NEW i \in DOMAIN requests, ResumeLater(i)
    PROVE  /\ requests' \in Seq(Drawn(drawn))
           /\ requests[i] \in Request /\ requests[i].rows \subseteq 1 .. drawn
           /\ Resume(requests[i], requests[i].rows)
<1>1. requests \in Seq(Drawn(drawn)) /\ i \in 1 .. Len(requests) /\ Len(requests) \in Nat
  BY LenProperties DEF RequestsOK
<1>2. \A j \in 1 .. Len(requests) : requests[j] \in Drawn(drawn)
  BY <1>1, ElementOfSeq
<1>3. i - 1 \in Int /\ i + 1 \in Int /\ Len(requests) \in Int /\ 1 \in Int
  BY <1>1
<1>4. /\ \A j \in 1 .. i - 1 : j \in 1 .. Len(requests)
      /\ \A j \in i + 1 .. Len(requests) : j \in 1 .. Len(requests)
  BY <1>1
<1>5. SubSeq(requests, 1, i - 1) \in Seq(Drawn(drawn))
  BY <1>2, <1>3, <1>4, SubSeqProperties
<1>6. SubSeq(requests, i + 1, Len(requests)) \in Seq(Drawn(drawn))
  BY <1>2, <1>3, <1>4, SubSeqProperties
<1>7. requests' = SubSeq(requests, 1, i - 1) \o SubSeq(requests, i + 1, Len(requests))
  BY DEF ResumeLater, RemoveAt
<1>8. requests' \in Seq(Drawn(drawn))
  BY <1>5, <1>6, <1>7, ConcatProperties
<1>9. Resume(requests[i], requests[i].rows)
  BY DEF ResumeLater
<1> QED BY <1>1, <1>2, <1>8, <1>9 DEF Drawn

-----------------------------------------------------------------------------
(***************************************************************************)
(* The step.                                                               *)
(***************************************************************************)

\* What a step must show: the rest of IInv' follows.
LEMMA StepSuffices ==
    ASSUME PagesOK', requests' \in Seq(Drawn(drawn')), adapter' \in {"sqlite", "postgres"},
           drawn' \in 0 .. MaxChanges, open' \in SUBSET (1 .. drawn'),
           feed' \in SUBSET ((1 .. drawn') \ open'),
           hub' \in [cursor : 0 .. MaxChanges, behind : BOOLEAN],
           faults' \in Nat, tools' \in Nat
    PROVE  IInv'
<1>1. drawn' \in Nat
  BY ChangeFeedConstants
<1>2. requests' \in Seq(Request)
  BY <1>1, RequestsGrow
<1> QED BY <1>2 DEF IInv, TypeOK, RequestsOK, PagesOK

LEMMA ResumeInv ==
    ASSUME IInv, NEW request \in Request, NEW rows \in SUBSET (1 .. drawn),
           Resume(request, rows), requests' \in Seq(Drawn(drawn)),
           UNCHANGED <<adapter, drawn, open, feed, counters>>
    PROVE  IInv'
<1>1. /\ hub' \in [cursor : 0 .. MaxChanges, behind : BOOLEAN]
      /\ page' \in [Pages -> Page]
      /\ CursorsOK'
      /\ NothingIsForgotten'
  BY ResumeKeeps DEF IInv
<1> QED BY <1>1, StepSuffices DEF IInv, TypeOK, PagesOK, counters

LEMMA StepInv == IInv /\ [Next]_vars => IInv'
<1> SUFFICES ASSUME IInv, [Next]_vars PROVE IInv'
  OBVIOUS
<1> USE DEF counters
<1>1. TypeOK /\ PagesOK /\ RequestsOK /\ requests \in Seq(Drawn(drawn)) /\ drawn \in Nat
  BY ChangeFeedConstants DEF IInv, TypeOK, PagesOK, RequestsOK
<1>2. /\ adapter \in {"sqlite", "postgres"} /\ drawn \in 0 .. MaxChanges
      /\ open \in SUBSET (1 .. drawn) /\ feed \in SUBSET ((1 .. drawn) \ open)
      /\ hub \in [cursor : 0 .. MaxChanges, behind : BOOLEAN]
      /\ faults \in Nat /\ tools \in Nat
  BY <1>1 DEF TypeOK
<1>3. ASSUME drawn' = drawn + 1, requests' = requests PROVE requests' \in Seq(Drawn(drawn'))
  <2>1. drawn' \in Nat /\ drawn =< drawn'
    BY <1>1, <1>3
  <2> QED BY <1>1, <1>3, <2>1, RequestsGrow
<1>4. ASSUME NEW external \in BOOLEAN, Write(external) PROVE IInv'
  <2>1. /\ PagesOK' /\ drawn' \in 0 .. MaxChanges /\ open' \in SUBSET (1 .. drawn')
        /\ feed' \in SUBSET ((1 .. drawn') \ open')
        /\ hub' \in [cursor : 0 .. MaxChanges, behind : BOOLEAN]
    BY <1>1, <1>4, WriteKeeps
  <2>2. drawn' = drawn + 1 /\ UNCHANGED <<adapter, requests, faults, tools>>
    BY <1>4 DEF Write
  <2> QED BY <1>2, <1>3, <2>1, <2>2, StepSuffices
<1>5. CASE Draw
  <2>1. /\ PagesOK' /\ drawn' \in 0 .. MaxChanges /\ open' \in SUBSET (1 .. drawn')
        /\ feed' \in SUBSET ((1 .. drawn') \ open')
    BY <1>1, <1>5, DrawKeeps
  <2>2. drawn' = drawn + 1 /\ UNCHANGED <<adapter, hub, requests, faults, tools>>
    BY <1>5 DEF Draw
  <2> QED BY <1>2, <1>3, <2>1, <2>2, StepSuffices
<1>6. ASSUME NEW s \in Changes, NEW commits \in BOOLEAN, EndTransaction(s, commits) PROVE IInv'
  <2>1. /\ PagesOK' /\ open' \in SUBSET (1 .. drawn')
        /\ feed' \in SUBSET ((1 .. drawn') \ open')
    BY <1>1, <1>6, EndTransactionKeeps
  <2>2. UNCHANGED <<adapter, drawn, hub, requests, faults, tools>>
    BY <1>6 DEF EndTransaction
  <2> QED BY <1>1, <1>2, <2>1, <2>2, StepSuffices
<1>7. CASE ToolWrites
  <2>1. PagesOK' /\ hub' \in [cursor : 0 .. MaxChanges, behind : BOOLEAN]
    BY <1>1, <1>7, ToolWritesKeeps
  <2>2. tools' = tools + 1 /\ UNCHANGED <<adapter, drawn, open, feed, requests, faults>>
    BY <1>7 DEF ToolWrites
  <2>3. tools' \in Nat
    BY <1>2, <2>2
  <2> QED BY <1>1, <1>2, <2>1, <2>2, <2>3, StepSuffices
<1>8. CASE Poll
  <2>1. UNCHANGED <<adapter, drawn, open, feed, hub, page, faults, tools>>
    BY <1>8 DEF Poll
  <2>2. PagesOK' /\ requests' \in Seq(Drawn(drawn))
    BY <1>1, <1>8, <2>1, UnchangedKeeps, PollRequests
  <2> QED BY <1>2, <2>1, <2>2, StepSuffices
<1>9. CASE Serve
  <2>1. UNCHANGED <<adapter, drawn, open, feed, counters>>
    BY <1>9 DEF Serve
  <2>2. /\ requests' \in Seq(Drawn(drawn)) /\ Head(requests) \in Request
        /\ Resume(Head(requests), Answer(Head(requests)))
    BY <1>1, <1>9, ServeRequests
  <2>3. Answer(Head(requests)) \in SUBSET (1 .. drawn)
    BY <1>1, <2>2, AnswerDrawn
  <2> QED BY <2>1, <2>2, <2>3, ResumeInv
<1>10. ASSUME NEW i \in DOMAIN requests, ServeLater(i) PROVE IInv'
  <2>1. UNCHANGED <<adapter, drawn, open, feed, hub, page, faults, tools>>
    BY <1>10 DEF ServeLater
  <2>2. PagesOK' /\ requests' \in Seq(Drawn(drawn))
    BY <1>1, <1>10, <2>1, UnchangedKeeps, ServeLaterRequests
  <2> QED BY <1>2, <2>1, <2>2, StepSuffices
<1>11. ASSUME NEW i \in DOMAIN requests, ResumeLater(i) PROVE IInv'
  <2>1. UNCHANGED <<adapter, drawn, open, feed, counters>>
    BY <1>11 DEF ResumeLater
  <2>2. /\ requests' \in Seq(Drawn(drawn))
        /\ requests[i] \in Request /\ requests[i].rows \in SUBSET (1 .. drawn)
        /\ Resume(requests[i], requests[i].rows)
    BY <1>1, <1>11, ResumeLaterRequests
  <2> QED BY <2>1, <2>2, ResumeInv
<1>12. CASE Restart
  <2>1. PagesOK' /\ hub' \in [cursor : 0 .. MaxChanges, behind : BOOLEAN]
    BY <1>1, <1>12, RestartKeeps
  <2>2. /\ faults' = faults + 1 /\ requests' = <<Ask("max", 0)>>
        /\ UNCHANGED <<adapter, drawn, open, feed, tools>>
    BY <1>12 DEF Restart
  <2>3. Ask("max", 0) \in Drawn(drawn)
    BY <1>1, NoFrom, AskOK
  <2>4. requests' \in Seq(Drawn(drawn)) /\ faults' \in Nat
    BY <1>2, <2>2, <2>3
  <2> QED BY <1>2, <2>1, <2>2, <2>4, StepSuffices
\* The steps of a page change nothing but the page and the count of faults.
<1>13. ASSUME PagesOK', faults' \in Nat, UNCHANGED <<adapter, drawn, open, feed, hub, requests, tools>>
       PROVE  IInv'
  BY <1>1, <1>2, <1>13, StepSuffices
<1>14. ASSUME NEW p \in Pages, Connect(p) \/ Close(p) \/ Load(p) PROVE IInv'
  <2>1. PagesOK'
    BY <1>1, <1>14, ConnectKeeps, CloseKeeps, LoadKeeps
  <2>2. UNCHANGED <<adapter, drawn, open, feed, hub, requests, tools, faults>>
    BY <1>14 DEF Connect, Close, Load
  <2> QED BY <1>2, <1>13, <2>1, <2>2
<1>15. ASSUME NEW p \in Pages, NEW from \in 0 .. MaxChanges, Pull(p, from) \/ CatchUp(p, from)
       PROVE  IInv'
  <2>1. PagesOK'
    BY <1>1, <1>15, PullKeeps, CatchUpKeeps
  <2>2. UNCHANGED <<adapter, drawn, open, feed, hub, requests, tools, faults>>
    BY <1>15 DEF Pull, CatchUp
  <2> QED BY <1>2, <1>13, <2>1, <2>2
<1>16. ASSUME NEW p \in Pages, NEW from \in 0 .. MaxChanges, Break(p) \/ PullFails(p, from)
       PROVE  IInv'
  <2>1. PagesOK'
    BY <1>1, <1>16, BreakKeeps, PullFailsKeeps
  <2>2. /\ faults' = faults + 1 \/ faults' = faults
        /\ UNCHANGED <<adapter, drawn, open, feed, hub, requests, tools>>
    BY <1>16 DEF Break, PullFails, counters
  <2>3. faults' \in Nat
    BY <1>2, <2>2
  <2> QED BY <1>13, <2>1, <2>2, <2>3
<1>17. CASE UNCHANGED vars
  <2>1. UNCHANGED <<adapter, drawn, open, feed, hub, requests, page, faults, tools>>
    BY <1>17 DEF vars
  <2>2. PagesOK'
    BY <1>1, <2>1, UnchangedKeeps
  <2> QED BY <1>2, <1>13, <2>1, <2>2
<1>18. ASSUME NEW p \in Pages, PageStep(p) PROVE IInv'
  BY <1>14, <1>15, <1>18 DEF PageStep
<1>19. CASE HubStep
  BY <1>8, <1>9, <1>10, <1>11, <1>19 DEF HubStep
<1> QED
  BY <1>4, <1>5, <1>6, <1>7, <1>12, <1>14, <1>16, <1>17, <1>18, <1>19, NoFrom DEF Next

-----------------------------------------------------------------------------
\* The counters, cursors, queries and pages keep their types; the changes that
\* are seen are not those whose transaction is open.
THEOREM TypeCorrect == Spec => []TypeOK
<1>1. IInv => TypeOK
  BY DEF IInv
<1> QED BY <1>1, InitInv, StepInv, PTL DEF Spec

\* The rule that NothingIsForgotten needs: no cursor, of the hub, a page or a
\* catch-up, is ahead of the changes or of its page.
THEOREM CursorsBehind == Spec => []CursorsOK
<1>1. IInv => CursorsOK
  BY DEF IInv
<1> QED BY <1>1, InitInv, StepInv, PTL DEF Spec

\* For any number of pages, overlapping polls, faults and restarts, and any
\* batch limit: a change that a page's cursor or the hub's has passed has
\* reached the page, is on its way, or was passed over with the hub's cursor.
THEOREM Remembered == Spec => []NothingIsForgotten
<1>1. IInv => NothingIsForgotten
  BY DEF IInv
<1> QED BY <1>1, InitInv, StepInv, PTL DEF Spec

-----------------------------------------------------------------------------
(***************************************************************************)
(* What the hub passes over on SQLite.                                     *)
(***************************************************************************)

\* SQLite has one writer: no transaction is open while another step is made, and
\* every change that was drawn is a row of the feed.
OneWriter == adapter = "sqlite" => open = {} /\ feed = 1 .. drawn

LEMMA OneWriterStep == TypeOK /\ OneWriter /\ [Next]_vars => OneWriter'
<1> SUFFICES ASSUME TypeOK, OneWriter, [Next]_vars, adapter' = "sqlite"
             PROVE  open' = {} /\ feed' = 1 .. drawn'
  BY DEF OneWriter
<1>1. CASE HubStep \/ Restart \/ ToolWrites
  <2>1. UNCHANGED <<adapter, open, feed, drawn>>
    BY <1>1 DEF HubStep, Poll, Serve, ServeLater, ResumeLater, Restart, ToolWrites
  <2> QED BY <2>1 DEF OneWriter
<1>2. ASSUME NEW p \in Pages,
             PageStep(p) \/ Load(p) \/ Break(p) \/ \E from \in 0 .. MaxChanges : PullFails(p, from)
      PROVE  open' = {} /\ feed' = 1 .. drawn'
  <2>1. UNCHANGED <<adapter, open, feed, drawn>>
    BY <1>2 DEF PageStep, Connect, Close, Pull, CatchUp, Load, Break, PullFails
  <2> QED BY <2>1 DEF OneWriter
<1>3. ASSUME NEW external \in BOOLEAN, Write(external) PROVE open' = {} /\ feed' = 1 .. drawn'
  <2>1. adapter = "sqlite" /\ open' = open /\ feed' = feed \cup {drawn + 1} /\ drawn' = drawn + 1
    BY <1>3 DEF Write
  <2>2. open = {} /\ feed = 1 .. drawn /\ drawn \in Nat
    BY <2>1, ChangeFeedConstants DEF OneWriter, TypeOK
  <2>3. (1 .. drawn) \cup {drawn + 1} = 1 .. (drawn + 1)
    BY <2>2
  <2> QED BY <2>1, <2>2, <2>3
<1>4. ~Draw
  BY DEF Draw
<1>5. ASSUME NEW s \in Changes, NEW commits \in BOOLEAN, EndTransaction(s, commits)
      PROVE  FALSE
  BY <1>5 DEF EndTransaction, OneWriter
<1>6. CASE UNCHANGED vars
  BY <1>6 DEF vars, OneWriter
<1> QED BY <1>1, <1>2, <1>3, <1>4, <1>5, <1>6 DEF Next

LEMMA AlwaysOneWriter == Spec => []OneWriter
<1>1. Init => OneWriter
  BY DEF Init, OneWriter
<1>2. IInv => TypeOK
  BY DEF IInv
<1> QED BY <1>1, <1>2, OneWriterStep, InitInv, StepInv, PTL DEF Spec

\* A batch that was asked for from no further than the cursor passes nothing.
LEMMA NothingPassed ==
    ASSUME TypeOK, NEW from \in 0 .. MaxChanges, from =< hub.cursor,
           NEW last \in Batch(from), NEW p \in Pages
    PROVE  Passed(p, last, Batch(from)) = {}
<1>1. from \in Nat /\ hub.cursor \in Nat /\ feed \subseteq Nat
  BY ChangeFeedConstants DEF TypeOK
<1>2. ASSUME NEW s \in feed, hub.cursor < s, s =< last PROVE s \in Batch(from)
  <2>1. from < s
    BY <1>1, <1>2
  <2> QED BY <1>1, <1>2, <2>1, BatchIsDense
<1> QED BY <1>2 DEF Passed

\* A step that marks nothing of a page as missed.
LEMMA NoneMissed ==
    ASSUME TypeOK, Next, NEW p \in Pages, page[p].link = "open", page'[p].link = "open",
           ~Serve, \A s \in Changes, commits \in BOOLEAN : ~EndTransaction(s, commits),
           adapter = "sqlite"
    PROVE  page'[p].missed \subseteq page[p].missed
<1>1. /\ page \in [Pages -> Page]
      /\ \A q \in Pages : page[q] \in Page
  BY DEF TypeOK
<1>2. CASE page' = page
  BY <1>2
<1>3. CASE ToolWrites
  BY <1>1, <1>3 DEF ToolWrites, Page
<1>4. ~Restart
  <2>1. ASSUME Restart PROVE FALSE
    <3>1. page'[p] = [page[p] EXCEPT !.link = "closed", !.stream = {}, !.stale = FALSE]
      BY <2>1 DEF Restart, Subscribed
    <3>2. page'[p].link = "closed"
      BY <1>1, <3>1 DEF Page
    <3> QED BY <3>2
  <2> QED BY <2>1
<1>5. ASSUME NEW q \in Pages, Connect(q) \/ Close(q) \/ Load(q) \/ Break(q)
      PROVE  page'[p].missed \subseteq page[p].missed
  <2>1. CASE q = p
    <3>1. ~Connect(p) /\ ~Close(p) /\ ~Load(p)
      BY DEF Connect, Close, Load
    <3>2. ~Break(p)
      BY <1>1 DEF Break, Page
    <3> QED BY <1>5, <2>1, <3>1, <3>2
  <2>2. CASE q # p
    BY <1>1, <1>5, <2>2 DEF Connect, Close, Load, Break
  <2> QED BY <2>1, <2>2
<1>6. ASSUME NEW q \in Pages, NEW from \in 0 .. MaxChanges,
             Pull(q, from) \/ CatchUp(q, from) \/ PullFails(q, from)
      PROVE  page'[p].missed \subseteq page[p].missed
  <2>1. CASE q # p
    BY <1>1, <1>6, <2>1 DEF Pull, CatchUp, PullFails
  <2>2. CASE q = p
    <3>0. /\ Told(p, Batch(from)) \in Page
          /\ Told(p, Batch(from)).missed \subseteq page[p].missed
      <4>1. Batch(from) \in SUBSET Changes
        BY BatchChanges
      <4> QED BY <1>1, <4>1, ToldPage
    <3>1. CASE Pull(p, from)
      <4>1. PICK last : page'[p] = [Told(p, Batch(from)) EXCEPT
                                       !.cursor = Greater(@, last),
                                       !.pulls = AfterPull(p, from, last)]
        BY <1>1, <3>1 DEF Pull
      <4> QED BY <3>0, <4>1 DEF Page
    <3>2. CASE CatchUp(p, from)
      <4> DEFINE told == Told(p, Batch(from))
      <4>1. PICK cursor, stream :
                page'[p] = [[told EXCEPT !.cursor = cursor] EXCEPT !.stream = stream]
        <5>1. PICK last :
                  page' = [page EXCEPT ![p] =
                      [[told EXCEPT !.cursor = Greater(told.cursor, last)] EXCEPT
                          !.stream = IF HasMore(from) THEN {last} ELSE {}]]
          BY <3>2 DEF CatchUp
        <5> HIDE DEF told
        <5> QED BY <1>1, <5>1
      <4> HIDE DEF told
      <4>2. page'[p].missed = told.missed
        BY <3>0, <4>1 DEF told, Page
      <4> QED BY <3>0, <4>2 DEF told
    <3>3. CASE PullFails(p, from)
      <4>1. page'[p] = [Refetched(p) EXCEPT !.pulls = @ \ {from}]
        BY <1>1, <3>3 DEF PullFails
      <4> QED BY <1>1, <4>1 DEF Refetched, Page
    <3> QED BY <1>6, <2>2, <3>1, <3>2, <3>3
  <2> QED BY <2>1, <2>2
<1>7. \A external \in BOOLEAN : Write(external) => page' = page
  BY DEF Write
<1>8. Draw => page' = page
  BY DEF Draw
<1>9. HubStep => page' = page
  BY DEF HubStep, Poll, ServeLater, ResumeLater
<1>10. \A q \in Pages : PageStep(q) => page'[p].missed \subseteq page[p].missed
  BY <1>5, <1>6 DEF PageStep
<1> QED BY <1>2, <1>3, <1>4, <1>5, <1>6, <1>7, <1>8, <1>9, <1>10 DEF Next

\* An answered query marks nothing as missed, unless it is an idle poll's or the
\* cursor was put back after it was asked.
LEMMA ServeMissesNone ==
    ASSUME IInv, Serve, NEW p \in Pages, page[p].link = "open",
           Head(requests).kind # "max", ~(Head(requests).from > hub.cursor)
    PROVE  page'[p].missed \subseteq page[p].missed
<1> DEFINE request == Head(requests)
<1>1. TypeOK /\ page[p] \in Page
  BY DEF IInv, TypeOK
<1>2. request \in Request /\ Resume(request, Answer(request))
  BY ServeRequests DEF IInv, RequestsOK
<1>3. request.from \in 0 .. MaxChanges /\ request.from =< hub.cursor
  <2>1. request.from \in 0 .. MaxChanges
    BY <1>2 DEF Request
  <2>2. request.from \in Nat /\ hub.cursor \in Nat
    BY <1>1, <2>1, ChangeFeedConstants DEF TypeOK
  <2> QED BY <2>1, <2>2
<1>4. CASE request.kind = "rows" /\ Answer(request) # {} /\ Broadcast(Answer(request))
  <2>1. Answer(request) = Batch(request.from)
    BY <1>4 DEF Answer
  <2>2. PICK last \in Batch(request.from) :
           page'[p].missed \subseteq page[p].missed \cup Passed(p, last, Batch(request.from))
    <3> DEFINE rows == Batch(request.from)
    <3>1. Broadcast(rows)
      BY <1>4, <2>1
    <3> HIDE DEF rows
    <3>2. PICK last \in rows :
             page'[p] = [Told(p, rows) EXCEPT !.cursor = Greater(@, last),
                                              !.missed = @ \cup Passed(p, last, rows)]
      BY <3>1 DEF Broadcast
    <3>3. rows \in SUBSET Changes
      BY <1>1, BatchChanges DEF rows
    <3>4. Told(p, rows) \in Page /\ Told(p, rows).missed = page[p].missed \ rows
      BY <1>1, <3>3, ToldPage
    <3>5. page'[p].missed = Told(p, rows).missed \cup Passed(p, last, rows)
      BY <3>2, <3>4 DEF Page
    <3> QED BY <3>4, <3>5 DEF rows
  <2>3. Passed(p, last, Batch(request.from)) = {}
    BY <1>1, <1>3, NothingPassed
  <2> QED BY <2>2, <2>3
<1>5. CASE UNCHANGED <<hub, page>>
  BY <1>5
<1>6. CASE VersionSeen(request.kind)
  <2>1. \/ page'[p] = page[p]
        \/ page'[p] = Refetched(p)
        \/ page'[p] = [page[p] EXCEPT !.masked = page[p].stale]
    BY <1>6 DEF VersionSeen
  <2> QED BY <1>1, <2>1 DEF Refetched, Page
<1> QED BY <1>2, <1>4, <1>5, <1>6 DEF Resume

\* On SQLite, with any number of pages and overlapping polls, an open page misses a
\* change only by an idle poll, or by a batch that was asked for from beyond where
\* an older one has put the cursor back to.
THEOREM MissedByMovedCursor == Spec => MissedOnlyByMovedCursor
<1>1. IInv /\ OneWriter /\ [Next]_vars
      => [\A p \in Pages :
            /\ page[p].link = "open" /\ page'[p].link = "open"
            /\ ~(page'[p].missed \subseteq page[p].missed)
            => \/ adapter = "postgres"
               \/ Head(requests).kind = "max"
               \/ Head(requests).from > hub.cursor]_vars
  <2> SUFFICES ASSUME IInv, OneWriter, Next, NEW p \in Pages,
                      page[p].link = "open", page'[p].link = "open",
                      adapter # "postgres",
                      Head(requests).kind # "max", ~(Head(requests).from > hub.cursor)
               PROVE  page'[p].missed \subseteq page[p].missed
    OBVIOUS
  <2>1. TypeOK /\ adapter = "sqlite" /\ open = {}
    BY DEF IInv, TypeOK, OneWriter
  <2>2. \A s \in Changes, commits \in BOOLEAN : ~EndTransaction(s, commits)
    BY <2>1 DEF EndTransaction
  <2>3. CASE Serve
    BY <2>3, ServeMissesNone
  <2>4. CASE ~Serve
    BY <2>1, <2>2, <2>4, NoneMissed
  <2> QED BY <2>3, <2>4
<1> QED BY <1>1, AlwaysOneWriter, InitInv, StepInv, PTL DEF Spec, MissedOnlyByMovedCursor

\* On SQLite a poll puts the cursor back only when it has read a batch that is not
\* all there is: while a backlog is shorter than a batch, overlapping polls do no
\* harm.
CursorRetreatsOverBacklog ==
    [][(adapter = "sqlite" /\ Serve /\ hub'.cursor < hub.cursor)
       => HasMore(Head(requests).from)]_vars

THEOREM RetreatsOverBacklog == Spec => CursorRetreatsOverBacklog
<1>1. IInv /\ OneWriter /\ [Next]_vars
      => [(adapter = "sqlite" /\ Serve /\ hub'.cursor < hub.cursor)
          => HasMore(Head(requests).from)]_vars
  <2> SUFFICES ASSUME IInv, OneWriter, Serve, adapter = "sqlite",
                      ~HasMore(Head(requests).from)
               PROVE  ~(hub'.cursor < hub.cursor)
    OBVIOUS
  <2> DEFINE request == Head(requests)
  <2>1. /\ TypeOK /\ feed = 1 .. drawn /\ drawn \in Nat
        /\ hub.cursor \in Nat /\ hub.cursor =< drawn
        /\ hub \in [cursor : 0 .. MaxChanges, behind : BOOLEAN]
    BY ChangeFeedConstants DEF IInv, TypeOK, OneWriter, CursorsOK
  <2>2. request \in Request /\ Resume(request, Answer(request))
    BY ServeRequests DEF IInv, RequestsOK
  <2>3. CASE request.kind = "max" /\ Skip(Answer(request))
    <3>1. Answer(request) = 1 .. drawn
      BY <2>1, <2>3 DEF Answer
    <3>2. PICK last \in (1 .. drawn) \cup {0} :
             IsLast(last, (1 .. drawn) \cup {0}) /\ hub' = [hub EXCEPT !.cursor = last]
      BY <2>3, <3>1 DEF Skip
    <3>3. hub'.cursor = last /\ drawn \in (1 .. drawn) \cup {0}
      BY <2>1, <3>2
    <3>4. drawn =< last
      BY <3>2, <3>3 DEF IsLast
    <3> QED BY <2>1, <3>3, <3>4
  <2>4. CASE request.kind = "rows" /\ Answer(request) # {} /\ Broadcast(Answer(request))
    <3>1. Answer(request) = {s \in 1 .. drawn : s > request.from}
      <4>1. Answer(request) = Batch(request.from)
        BY <2>4 DEF Answer
      <4>2. Batch(request.from) = {s \in feed : s > request.from}
        BY DEF HasMore
      <4> QED BY <2>1, <4>1, <4>2
    <3>2. PICK last \in Answer(request) :
             IsLast(last, Answer(request)) /\ hub' = [hub EXCEPT !.cursor = last]
      BY <2>4 DEF Broadcast
    <3>3. hub'.cursor = last /\ last \in 1 .. drawn /\ last > request.from
      BY <2>1, <3>1, <3>2
    <3>4. request.from \in Nat
      BY <2>2, ChangeFeedConstants DEF Request
    <3>5. drawn \in Answer(request)
      BY <2>1, <3>1, <3>3, <3>4
    <3>6. drawn =< last
      BY <3>2, <3>5 DEF IsLast
    <3> QED BY <2>1, <3>3, <3>6
  <2>5. CASE UNCHANGED <<hub, page>>
    BY <2>1, <2>5
  <2>6. CASE VersionSeen(request.kind)
    BY <2>1, <2>6 DEF VersionSeen
  <2> QED BY <2>2, <2>3, <2>4, <2>5, <2>6 DEF Resume
<1> QED BY <1>1, AlwaysOneWriter, InitInv, StepInv, PTL DEF Spec, CursorRetreatsOverBacklog

=============================================================================

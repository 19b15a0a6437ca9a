----------------------------- MODULE ChangeFeed -----------------------------
(***************************************************************************)
(* The change feed of one backend and the pages that follow it: the rows   *)
(* of entity_changes (packages/core/service/change-feed.ts), the hub that  *)
(* polls them and sends them to every open stream (backend/realtime.ts),   *)
(* and a page's cursor, its reconnection and its own catch-up              *)
(* (webapp/web/lib/realtime.tsx and fetch-sse.ts).                         *)
(*                                                                         *)
(* The hub has one cursor for all its streams.  Polls overlap: the timer   *)
(* and every mutation start one, and each reads the cursor before its      *)
(* query and writes it after the answer.  SQLite serves the queries in     *)
(* the order they were made and resumes the caller at once; Postgres       *)
(* answers in any order and may be slow to.  SQLite has one writer at a    *)
(* time; on Postgres the sequence numbers of open transactions are already *)
(* drawn.                                                                  *)
(*                                                                         *)
(* To know of a change is to have refetched the data after it: a page's    *)
(* refetches are taken to be answered at once.                             *)
(***************************************************************************)
EXTENDS Naturals, FiniteSets, Sequences, SequencesExt

CONSTANTS Pages,       \* web pages
          BatchLimit,  \* CHANGE_BATCH_LIMIT
          MaxChanges,  \* bound on changes
          MaxRequests, \* bound on the hub's queries that are waiting
          MaxFaults,   \* bound on streams that break, and on restarts
          MaxTools     \* bound on writes of other tools

VARIABLES adapter,  \* "sqlite" or "postgres", as the backend was started with
          drawn,    \* the last seq given to a change
          open,     \* changes whose transaction has not ended
          feed,     \* rows of entity_changes
          hub,      \* RealtimeHub: its cursor, and whether lastDataVersion is stale
          requests, \* queries of the hub's polls, in the order they were made
          page,     \* the pages
          faults, tools \* counters of the bounds

counters == <<faults, tools>>
vars == <<adapter, drawn, open, feed, hub, requests, page, counters>>

ASSUME ChangeFeedConstants ==
    /\ BatchLimit \in Nat \ {0}
    /\ MaxChanges \in Nat
    /\ MaxRequests \in Nat \ {0}
    /\ MaxFaults \in Nat
    /\ MaxTools \in Nat

-----------------------------------------------------------------------------
Changes == 1 .. MaxChanges

\* A query of a poll, what its answer is for, and the answer on Postgres.
Request == [kind     : {"max", "rows", "versionQuiet", "versionFound", "versionNone"},
            from     : 0 .. MaxChanges,
            answered : BOOLEAN,
            rows     : SUBSET Changes]

Ask(kind, from) == [kind |-> kind, from |-> from, answered |-> FALSE, rows |-> {}]

Page == [link   : {"away", "closed", "open", "broken"}, \* broken: the hub does not know yet
         cursor : 0 .. MaxChanges,    \* cursorRef
         pulls  : SUBSET (0 .. MaxChanges), \* cursors of its catch-ups under way
         stream : SUBSET (0 .. MaxChanges), \* cursor of the hub's catch-up, if one is
         known  : SUBSET Changes,     \* history: changes it has refetched after
         missed : SUBSET Changes,     \* history: changes the hub passed over, not refetched since
         adopted : SUBSET Changes,    \* history: those below the cursor that it took from hello
         stale  : BOOLEAN,            \* history: a tool wrote while its stream was open
         masked : BOOLEAN]            \* history: and a poll took it for a change of the feed

Away == [link |-> "away", cursor |-> 0, pulls |-> {}, stream |-> {}, known |-> {},
         missed |-> {}, adopted |-> {}, stale |-> FALSE, masked |-> FALSE]

TypeOK ==
    /\ adapter \in {"sqlite", "postgres"}
    /\ drawn \in 0 .. MaxChanges
    /\ open \in SUBSET (1 .. drawn)
    /\ feed \in SUBSET ((1 .. drawn) \ open)
    /\ hub \in [cursor : 0 .. MaxChanges, behind : BOOLEAN]
    /\ requests \in Seq(Request)
    /\ page \in [Pages -> Page]
    /\ faults \in Nat
    /\ tools \in Nat

\* start(): initializeCursor asks as a poll without clients does.
Init ==
    /\ adapter \in {"sqlite", "postgres"}
    /\ drawn = 0
    /\ open = {}
    /\ feed = {}
    /\ hub = [cursor |-> 0, behind |-> TRUE]
    /\ requests = <<Ask("max", 0)>>
    /\ page = [p \in Pages |-> Away]
    /\ faults = 0
    /\ tools = 0

\* The hub's clients.
Subscribed(p) == page[p].link \in {"open", "broken"}

Greater(x, y) == IF x > y THEN x ELSE y

\* last is the seq of the last of the rows.
IsLast(last, rows) == last \in rows /\ \A s \in rows : s =< last

\* SELECT ... WHERE seq > from ORDER BY seq LIMIT BatchLimit
Batch(from) ==
    {s \in feed : /\ s > from
                  /\ Cardinality({t \in feed : from < t /\ t =< s}) =< BatchLimit}

HasMore(from) == Batch(from) # {s \in feed : s > from}

-----------------------------------------------------------------------------
(* Writers.                                                                *)

\* Another process has committed: PRAGMA data_version is not what it was.
Noticed(external) == [hub EXCEPT !.behind = @ \/ external]

\* SQLite: insertEntityChange in a transaction of the only writer there is, of
\* this backend or of another process.
Write(external) ==
    /\ adapter = "sqlite"
    /\ drawn < MaxChanges
    /\ drawn' = drawn + 1
    /\ feed' = feed \cup {drawn + 1}
    /\ hub' = Noticed(external)
    /\ UNCHANGED <<adapter, open, requests, page, counters>>

\* Postgres: the row takes its number when it is inserted ...
Draw ==
    /\ adapter = "postgres"
    /\ drawn < MaxChanges
    /\ drawn' = drawn + 1
    /\ open' = open \cup {drawn + 1}
    /\ UNCHANGED <<adapter, feed, hub, requests, page, counters>>

\* ... and is seen when its transaction commits, if it does.  Whoever has a
\* cursor beyond it never asks for it.
EndTransaction(s, commits) ==
    /\ s \in open
    /\ open' = open \ {s}
    /\ feed' = IF commits THEN feed \cup {s} ELSE feed
    /\ page' = [p \in Pages |->
           IF /\ commits
              /\ s =< page[p].cursor \/ (page[p].link = "open" /\ s =< hub.cursor)
           THEN [page[p] EXCEPT !.missed = @ \cup {s}] ELSE page[p]]
    /\ UNCHANGED <<adapter, drawn, hub, requests, counters>>

\* A tool writes a table and no row of the feed: Postgres has no sign of it.
ToolWrites ==
    /\ adapter = "sqlite"
    /\ tools < MaxTools
    /\ tools' = tools + 1
    /\ hub' = Noticed(TRUE)
    /\ page' = [p \in Pages |-> IF page[p].link = "open"
           THEN [page[p] EXCEPT !.stale = TRUE, !.masked = FALSE] ELSE page[p]]
    /\ UNCHANGED <<adapter, drawn, open, feed, requests, faults>>

-----------------------------------------------------------------------------
(* The hub.                                                                *)

\* poll(), up to its first query.
Poll ==
    /\ Len(requests) < MaxRequests
    /\ requests' = Append(requests,
           IF \A p \in Pages : ~Subscribed(p) THEN Ask("max", 0) ELSE Ask("rows", hub.cursor))
    /\ UNCHANGED <<adapter, drawn, open, feed, hub, page, counters>>

\* What the hub's cursor passes without sending it, and the page does not know.
Passed(p, last, sent) ==
    {s \in feed : hub.cursor < s /\ s =< last} \ (sent \cup page[p].known)

\* A page is told of rows, and refetches what they touch.
Told(p, rows) == [page[p] EXCEPT !.known = @ \cup rows,
                                 !.missed = @ \ rows,
                                 !.adopted = @ \ rows]

\* Mutation: the cursor moves to the number that the next row will have.
SkipToNext(rows) ==
    \E last \in rows \cup {0} :
        /\ IsLast(last, rows \cup {0})
        /\ hub' = [hub EXCEPT !.cursor = last + 1]
        /\ page' = [p \in Pages |-> IF page[p].link = "open"
               THEN [page[p] EXCEPT !.missed = @ \cup Passed(p, last, {})] ELSE page[p]]

\* Without clients the cursor moves to the end of the feed; clients may have
\* come since the poll began.
Skip(rows) ==
    \E last \in rows \cup {0} :
        /\ IsLast(last, rows \cup {0})
        /\ hub' = [hub EXCEPT !.cursor = last]
        /\ page' = [p \in Pages |-> IF page[p].link = "open"
               THEN [page[p] EXCEPT !.missed = @ \cup Passed(p, last, {})] ELSE page[p]]

\* Mutation: the cursor moves to the end of the feed after a batch.
BroadcastToEnd(rows) ==
    \E last \in feed :
        /\ IsLast(last, feed)
        /\ hub' = [hub EXCEPT !.cursor = last]
        /\ page' = [p \in Pages |-> IF page[p].link = "open"
               THEN [Told(p, rows) EXCEPT !.cursor = Greater(@, last),
                                          !.missed = @ \cup Passed(p, last, rows)]
               ELSE page[p]]

\* Mutation: the cursor stays, and the same batch is sent for ever.
BroadcastInPlace(rows) ==
    /\ hub' = hub
    /\ page' = [p \in Pages |-> IF page[p].link = "open"
           THEN Told(p, rows) ELSE page[p]]

\* The rows go to every client, and the cursor to the last of them.
Broadcast(rows) ==
    \E last \in rows :
        /\ IsLast(last, rows)
        /\ hub' = [hub EXCEPT !.cursor = last]
        /\ page' = [p \in Pages |-> IF page[p].link = "open"
               THEN [Told(p, rows) EXCEPT !.cursor = Greater(@, last),
                                          !.missed = @ \cup Passed(p, last, rows)]
               ELSE page[p]]

\* A page refetches everything.
Refetched(p) == [page[p] EXCEPT !.known = feed, !.missed = {}, !.adopted = {},
                                !.stale = FALSE, !.masked = FALSE]

\* Mutation: the refresh is sent when there were rows.
VersionSeenFound(kind) ==
    /\ hub' = [hub EXCEPT !.behind = FALSE]
    /\ page' = [p \in Pages |->
           IF ~hub.behind \/ page[p].link # "open" THEN page[p]
           ELSE IF kind = "versionFound" THEN Refetched(p)
           ELSE [page[p] EXCEPT !.masked = @ \/ (kind # "versionNone" /\ page[p].stale)]]

\* The end of a poll: another process has written, and if the poll found no
\* rows the clients are told to refetch.
VersionSeen(kind) ==
    /\ hub' = [hub EXCEPT !.behind = FALSE]
    /\ page' = [p \in Pages |->
           IF ~hub.behind \/ page[p].link # "open" THEN page[p]
           ELSE IF kind = "versionNone" THEN Refetched(p)
           ELSE [page[p] EXCEPT !.masked = page[p].stale]]

\* A poll goes on with the answer to its query.
Resume(request, rows) ==
    \/ request.kind = "max" /\ Skip(rows)
    \/ request.kind = "rows" /\ rows # {} /\ Broadcast(rows)
    \/ request.kind = "rows" /\ rows = {} /\ UNCHANGED <<hub, page>>
    \/ request.kind \notin {"max", "rows"} /\ VersionSeen(request.kind)

\* On SQLite a poll then asks for the data version.
NextRequest(request, rows) ==
    IF request.kind = "max" THEN <<Ask("versionQuiet", 0)>>
    ELSE IF request.kind = "rows"
         THEN <<Ask(IF rows = {} THEN "versionNone" ELSE "versionFound", 0)>>
         ELSE <<>>

Answer(request) == IF request.kind = "max" THEN feed
                   ELSE IF request.kind = "rows" THEN Batch(request.from) ELSE {}

\* SQLite: the oldest query is answered and its poll goes on.
Serve ==
    /\ adapter = "sqlite"
    /\ requests # <<>>
    /\ LET request == Head(requests)
           rows == Answer(request)
       IN  /\ Resume(request, rows)
           /\ requests' = Tail(requests) \o NextRequest(request, rows)
    /\ UNCHANGED <<adapter, drawn, open, feed, counters>>

\* Postgres: a query reads what is committed ...
ServeLater(i) ==
    /\ adapter = "postgres"
    /\ ~requests[i].answered
    /\ requests' = [requests EXCEPT ![i].answered = TRUE, ![i].rows = Answer(requests[i])]
    /\ UNCHANGED <<adapter, drawn, open, feed, hub, page, counters>>

\* ... and its poll goes on later.
ResumeLater(i) ==
    /\ adapter = "postgres"
    /\ requests[i].answered
    /\ Resume(requests[i], requests[i].rows)
    /\ requests' = RemoveAt(requests, i)
    /\ UNCHANGED <<adapter, drawn, open, feed, counters>>

\* The backend stops and starts again: its streams end.
Restart ==
    /\ faults < MaxFaults
    /\ faults' = faults + 1
    /\ hub' = [cursor |-> 0, behind |-> TRUE]
    /\ requests' = <<Ask("max", 0)>>
    /\ page' = [p \in Pages |-> IF Subscribed(p)
           THEN [page[p] EXCEPT !.link = "closed", !.stream = {}, !.stale = FALSE] ELSE page[p]]
    /\ UNCHANGED <<adapter, drawn, open, feed, tools>>

-----------------------------------------------------------------------------
(* The pages.                                                              *)

\* A page is opened and fetches its data.
Load(p) ==
    /\ page[p].link = "away"
    /\ page' = [page EXCEPT ![p] = [Away EXCEPT !.link = "closed", !.known = feed]]
    /\ UNCHANGED <<adapter, drawn, open, feed, hub, requests, counters>>

\* Mutation: the catch-up starts where hello says that the hub is.
PullsOfOpenAtHello(p) ==
    IF page[p].cursor > 0 THEN page[p].pulls \cup {Greater(page[p].cursor, hub.cursor)}
    ELSE page[p].pulls

\* onOpen: a page that has a cursor fetches what it may have missed.
PullsOfOpen(p) ==
    IF page[p].cursor > 0 THEN page[p].pulls \cup {page[p].cursor} ELSE page[p].pulls

\* addClient, and the page's onOpen and onHello: a page whose cursor is 0 takes the
\* hub's and does not catch up, even if it reconnects; another's catch-up is sent by
\* the hub too.
Connect(p) ==
    /\ page[p].link = "closed"
    /\ LET first == page[p].cursor = 0
       IN  page' = [page EXCEPT
               ![p].link = "open",
               ![p].cursor = IF first THEN hub.cursor ELSE @,
               ![p].adopted = IF first THEN @ \cup ({s \in feed : s =< hub.cursor} \ page[p].known)
                              ELSE @,
               ![p].pulls = PullsOfOpen(p),
               ![p].stream = IF ~first /\ page[p].cursor < hub.cursor
                             THEN {page[p].cursor} ELSE {}]
    /\ UNCHANGED <<adapter, drawn, open, feed, hub, requests, counters>>

\* The loop of catchUp goes on from its own cursor.
AfterPull(p, from, last) ==
    IF HasMore(from) THEN (page[p].pulls \ {from}) \cup {last} ELSE page[p].pulls \ {from}

\* One fetch of the page's catchUp: readChangesAfter.
Pull(p, from) ==
    /\ from \in page[p].pulls
    /\ \E last \in Batch(from) \cup {from} :
        /\ IsLast(last, Batch(from) \cup {from})
        /\ page' = [page EXCEPT ![p] = [Told(p, Batch(from)) EXCEPT
               !.cursor = Greater(@, last),
               !.pulls = AfterPull(p, from, last)]]
    /\ UNCHANGED <<adapter, drawn, open, feed, hub, requests, counters>>

\* The fetch fails, and the page refetches everything.
PullFails(p, from) ==
    /\ from \in page[p].pulls
    /\ page' = [page EXCEPT ![p] = [Refetched(p) EXCEPT !.pulls = @ \ {from}]]
    /\ UNCHANGED <<adapter, drawn, open, feed, hub, requests, counters>>

\* One batch of sendCatchUp, which is lost with the stream.
CatchUp(p, from) ==
    /\ from \in page[p].stream
    /\ \E last \in Batch(from) \cup {from} :
        /\ IsLast(last, Batch(from) \cup {from})
        /\ LET read == IF page[p].link = "open"
                      THEN [Told(p, Batch(from)) EXCEPT !.cursor = Greater(@, last)]
                      ELSE page[p]
           IN  page' = [page EXCEPT ![p] = [read EXCEPT
                   !.stream = IF HasMore(from) THEN {last} ELSE {}]]
    /\ UNCHANGED <<adapter, drawn, open, feed, hub, requests, counters>>

\* A stream breaks: what the hub sends on it is lost until it is closed.
Break(p) ==
    /\ faults < MaxFaults
    /\ page[p].link = "open"
    /\ faults' = faults + 1
    /\ page' = [page EXCEPT ![p].link = "broken", ![p].stale = FALSE]
    /\ UNCHANGED <<adapter, drawn, open, feed, hub, requests, tools>>

\* removeClient
Close(p) ==
    /\ page[p].link = "broken"
    /\ page' = [page EXCEPT ![p].link = "closed", ![p].stream = {}]
    /\ UNCHANGED <<adapter, drawn, open, feed, hub, requests, counters>>

-----------------------------------------------------------------------------
PageStep(p) ==
    \/ Connect(p)
    \/ Close(p)
    \/ \E from \in 0 .. MaxChanges : Pull(p, from) \/ CatchUp(p, from)

HubStep ==
    \/ Poll
    \/ Serve
    \/ \E i \in DOMAIN requests : ServeLater(i) \/ ResumeLater(i)

Next ==
    \/ \E external \in BOOLEAN : Write(external)
    \/ Draw
    \/ \E s \in Changes, commits \in BOOLEAN : EndTransaction(s, commits)
    \/ ToolWrites
    \/ HubStep
    \/ Restart
    \/ \E p \in Pages :
        \/ PageStep(p)
        \/ Load(p)
        \/ Break(p)
        \/ \E from \in 0 .. MaxChanges : PullFails(p, from)

Spec == Init /\ [][Next]_vars

\* The timer polls every 500 ms and queries are answered; a page that is open
\* reconnects every two seconds, and its fetches and the hub's batches go on.
Fairness ==
    /\ WF_vars(Poll)
    /\ WF_vars(Serve)
    /\ WF_vars(\E i \in DOMAIN requests : ServeLater(i) \/ ResumeLater(i))
    /\ \A p \in Pages : WF_vars(PageStep(p))

FairSpec == Spec /\ Fairness

-----------------------------------------------------------------------------
(* Properties.                                                             *)

\* What the page is not owed: what the hub's cursor passed by, and what was below
\* the first cursor that the page took over.
Excused(p) == page[p].missed \cup page[p].adopted

\* A change is on its way to the page: it knows it, or is not owed it, or a
\* catch-up of the page starts below it.
Covered(p, s) ==
    \/ s \in page[p].known \cup Excused(p)
    \/ \E from \in page[p].pulls : from < s

\* Whatever the cursors of the hub and of a page have passed has reached the page
\* or is on its way, through lost batches, reconnections in the middle of a
\* catch-up, overlapping polls and restarts.  Three things are lost: what the hub's
\* cursor has passed without sending it (MissedOnlyByMovedCursor says when); on
\* Postgres, what was committed late; and, by a page whose cursor is still 0, what was
\* written after it fetched its data and before it takes the hub's cursor from hello,
\* even if a stream that broke was open in between and it was sent on that one.
NothingIsForgotten ==
    \A p \in Pages, s \in feed :
        /\ page[p].link # "away" /\ s =< page[p].cursor => Covered(p, s)
        /\ page[p].link = "open" /\ s =< hub.cursor => Covered(p, s)

\* On SQLite an open page misses a change only when the cursor has moved by itself:
\* a poll that found no page moves it after the page has come, or a batch whose
\* query is older than such a move has put it back, and the next batch was asked
\* for from further on.
MissedOnlyByMovedCursor ==
    [][\A p \in Pages :
        /\ page[p].link = "open" /\ page'[p].link = "open"
        /\ ~(page'[p].missed \subseteq page[p].missed)
        => \/ adapter = "postgres"
           \/ Head(requests).kind = "max"
           \/ Head(requests).from > hub.cursor]_vars

\* What one would expect of the first cursor too: nothing is lost by taking it.
HelloLosesNothing == \A p \in Pages : page[p].adopted = {}

\* A page whose stream stays open is told of every change that it is owed, with the
\* three exceptions of NothingIsForgotten: when no more are written it has been told
\* of all.
EveryChangeIsTold ==
    \A p \in Pages :
        []<>(page[p].link # "open" \/ feed \subseteq page[p].known \cup Excused(p))

\* A tool's write is seen by a page whose stream stays open, unless a poll
\* noticed it together with rows of the feed, or without clients.
EveryToolIsSeen ==
    \A p \in Pages :
        (page[p].stale /\ page[p].link = "open")
            ~> (~page[p].stale \/ page[p].masked \/ page[p].link # "open")

\* What the documentation promises readers of the feed: no cursor passes a
\* change that has not been committed.
NoUncommittedBelowCursor == \A s \in open : s > hub.cursor

=============================================================================

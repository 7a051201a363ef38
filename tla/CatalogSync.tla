---------------------------- MODULE CatalogSync ----------------------------
(***************************************************************************)
(* GET /api/v1/sync (internal/httpapi/public.go sync over the query        *)
(* ListPublishEventsAfter) read by clients while the publication service   *)
(* and the operator write: Publishing composed with the readers of its     *)
(* event log.  The server keeps nothing for a client; the cursor and the   *)
(* local catalogue are the client's.                                       *)
(***************************************************************************)
EXTENDS Publishing, FiniteSetsExt

CONSTANTS
    Client,     \* clients that synchronise
    PageSize    \* the LIMIT of a page, 100 in the code

ASSUME PageSizeAssumption == PageSize \in Nat \ {0}

VARIABLES
    cursor,     \* cursor[c]: the sequence number the client sends next
    more,       \* more[c]: the last answer said hasMore
    known       \* known[c][i]: the last change of i the client applied

clientVars == <<cursor, more, known>>
syncVars == <<vars, cursor, more, known>>

-----------------------------------------------------------------------------
Unknown == [revision |-> 0, present |-> FALSE]

\* A published content with managed audio: what every public query requires.
Visible(i) == contents[i].status = "published" /\ contents[i].audio # None

\* ListPublishEventsAfter: WHERE sequence > $1 AND the content is visible NOW,
\* ORDER BY sequence LIMIT $2.
DeliverableAfter(sequence) ==
    {e \in events : e.sequence > sequence /\ Visible(e.item)}

\* Fault: the newest events first.
PageAfterDescending(sequence) ==
    LET due == DeliverableAfter(sequence)
    IN  {e \in due : Cardinality({f \in due : f.sequence >= e.sequence}) <= PageSize}

PageAfter(sequence) ==
    LET due == DeliverableAfter(sequence)
    IN  {e \in due : Cardinality({f \in due : f.sequence <= e.sequence}) <= PageSize}

\* Fault: the cursor jumps to the newest event there is.
NextCursorLatest(sequence, page) == Max({sequence} \cup {e.sequence : e \in events})

\* nextCursor: the sequence of the last row of the page, or the cursor as it was.
NextCursor(sequence, page) == Max({sequence} \cup {e.sequence : e \in page})

\* The client applies the changes of a page in their order.
Applied(page, i, old) ==
    LET mine == {e \in page : e.item = i}
        last == CHOOSE e \in mine : \A f \in mine : f.sequence <= e.sequence
    IN  IF mine = {} THEN old
        ELSE [revision |-> last.revision, present |-> last.operation = "upsert"]

SyncInit ==
    /\ Init
    /\ cursor = [c \in Client |-> 0]
    /\ more = [c \in Client |-> TRUE]
    /\ known = [c \in Client |-> [i \in Item |-> Unknown]]

\* One request of a client: the query is one statement, hence one snapshot.
Sync(c) ==
    LET page == PageAfter(cursor[c])
    IN  /\ cursor' = [cursor EXCEPT ![c] = NextCursor(@, page)]
        /\ more' = [more EXCEPT ![c] = Cardinality(page) = PageSize]
        /\ known' = [known EXCEPT ![c] = [i \in Item |-> Applied(page, i, @[i])]]
        /\ UNCHANGED vars

SyncNext ==
    \/ Next /\ UNCHANGED clientVars
    \/ \E c \in Client : Sync(c)

SyncSpec == SyncInit /\ [][SyncNext]_syncVars

\* The handlers and admin runs are as fair as in Publishing, and a client keeps
\* synchronising: each time it is started or brought to the foreground.
SyncFairSpec ==
    /\ SyncSpec
    /\ \A r \in Request : WF_syncVars(Handler(r) /\ UNCHANGED clientVars)
    /\ \A a \in AdminOp : WF_syncVars(AdminRun(a) /\ UNCHANGED clientVars)
    /\ \A c \in Client : WF_syncVars(Sync(c))

-----------------------------------------------------------------------------
\* A client never applies an older revision of a content over a newer one,
\* although the cursor runs over the numbers in an order commits need not follow.
NeverGoesBack ==
    [][\A c \in Client, i \in Item :
           known'[c][i].revision >= known[c][i].revision]_syncVars

\* A page that was cut at its limit loses nothing: whatever was committed and
\* visible when the page was read is applied or still lies beyond the cursor, and
\* an answer without hasMore leaves nothing there.
PagesLoseNothing ==
    [][\A c \in Client :
           cursor'[c] # cursor[c] \/ more'[c] # more[c] =>
               \A e \in DeliverableAfter(cursor[c]) :
                   \/ known'[c][e.item].revision >= e.revision
                   \/ e.sequence > cursor'[c] /\ more'[c]]_syncVars

\* The last event of content i, there being one.
LastEvent(i) ==
    CHOOSE e \in events : e.item = i /\ e.revision = contents[i].revision

\* The cursor of c has passed the last change of content i, and c has not applied it.
Missed(c, i) ==
    /\ Visible(i)
    /\ LastEvent(i).sequence <= cursor[c]
    /\ known[c][i].revision # contents[i].revision

\* There is one way to miss a change that can be seen: its transaction commits when
\* the cursor has already passed the number it drew.  Pages that are cut, and
\* contents that are hidden when a page is read and published again later, lose no
\* change, although the feed filters old events by the status of now.
OnlyLateCommitsAreMissed ==
    [][\A c \in Client, i \in Item :
           Missed(c, i)' =>
               \/ Missed(c, i)
               \/ /\ LastEvent(i)' \notin events
                  /\ (LastEvent(i).sequence)' <= cursor[c]]_syncVars

\* Once the cursor has passed the last change of a visible content, the client
\* has applied it (docs/data-model.md: the log is the monotonic cursor of the
\* incremental synchronisation).
PassedChangesAreKnown == \A c \in Client, i \in Item : ~ Missed(c, i)

\* Once the cursor has passed the delete event of a hidden content, the client
\* has dropped the content (docs/architecture.md 5.2: tombstone events tell the
\* clients that have synchronised to remove or hide the entry).
TombstonesAreDelivered ==
    \A c \in Client, i \in Item :
        /\ contents[i].status = "hidden"
        /\ LastEvent(i).sequence <= cursor[c]
        => ~known[c][i].present

\* When publishing comes to rest, a client that keeps synchronising has received
\* the newest change there is, if its content can be seen.
NewestChangeArrives ==
    <>[](\A c \in Client : \A e \in events :
             /\ \A f \in events : f.sequence <= e.sequence
             /\ Visible(e.item)
             => known[c][e.item].revision = contents[e.item].revision)
=============================================================================

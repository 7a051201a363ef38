----------------------------- MODULE Catalogue -----------------------------
(***************************************************************************)
(* The public catalogue (internal/httpapi/public.go over public.sql) and   *)
(* the personal home (recommendations.go), read by one device while the    *)
(* CMS publishes, the worker recrawls and the operator publishes and hides.*)
(* A query sees what is committed when it starts; a handler with several   *)
(* queries runs no transaction around them.                                *)
(***************************************************************************)
EXTENDS Recommendations

CONSTANTS
    Content,        \* ids of contents: numbers, in the order of their UUIDs
    Series,
    Document,       \* Document[i]: what a publication or a page may say of i
    Shelf,          \* the contents there may be at the beginning
    History,        \* what the person may have learnt at the beginning
    Writer,         \* transactions of the CMS, the worker and the operator: numbers,
                    \* in the order they begin
    PageLimit,      \* rows of a page of GET /contents, 20
    ListLimit,      \* rows of every other list, 20 or 50
    CandidateLimit, \* rows the personal home is chosen from, 100
    Unclassified,   \* the level of the CMS that is no category
    MaxNow,         \* bound: the clock of PostgreSQL
    MaxStudies,     \* bound: changes of the learning data
    Done, None

ASSUME CatalogueAssumption ==
    /\ Content \subseteq Nat /\ IsFiniteSet(Content) /\ Writer \subseteq Nat
    /\ {PageLimit, ListLimit, CandidateLimit} \subseteq Nat \ {0}
    /\ MaxNow \in Nat
ASSUME NoneAssumption ==
    None \notin Content /\ None \notin [released : Nat, id : Content]

VARIABLES
    now,        \* the clock of PostgreSQL
    contents,   \* contents[i]: its row with the rows linked to it
    tx,         \* tx[w]: the open transaction of writer w
    use,        \* what the device asks for: lists, one content, the personal home
    progress,   \* learning_progress of the person
    grammar,    \* their answers to grammar questions, in all
    words,      \* the number of entries of their word list
    studies,    \* changes of the learning data so far
    pc,         \* the query the device's request executes next
    asked,      \* the content or series it asks for
    cursor,     \* the cursor of the next page, None at the beginning
    rows,       \* the contents the request has found
    learnt,     \* the progress, grammar answers and words it has found
    listed,     \* listed[i]: how often this traversal has shown i, 2 for more than once
    copy,       \* the copy of a content the device keeps, with its ETag
    answer,     \* the status of the last answer, the contents it shows, the sections
    shown,      \* contents that were online at some time since the request began
    steady,     \* contents that stayed where they are since the traversal began
    sunk,       \* contents whose released_at went back since it began
    finished    \* contents that were finished all the time since the request began

store == <<now, contents, tx>>
learning == <<use, progress, grammar, words, studies>>
request == <<pc, asked, cursor, rows, learnt, listed, copy, answer>>
witness == <<shown, steady, sunk, finished>>
vars == <<now, contents, tx, use, progress, grammar, words, studies,
          pc, asked, cursor, rows, learnt, listed, copy, answer,
          shown, steady, sunk, finished>>

-----------------------------------------------------------------------------
Status == {"absent", "review", "published", "hidden"}
NoContent == [status |-> "absent", released |-> 0, revision |-> 0, level |-> NoLevel,
              goals |-> {}, quality |-> 0, dated |-> 0, series |-> None,
              categories |-> {}, assets |-> {}]

\* What a publication or a page says of a content, the row of a content, and a row
\* of learning_progress, the shelf and the history being made of such.  Levels and
\* topics are categories by their slugs; dated is published_at, 0 for NULL; the
\* assets are the managed audio, and the audio and other media a page links to.
Goal == {"vocabulary", "grammar"}
Doc == [level : Nat, topics : SUBSET Nat, goals : SUBSET Goal, quality : Int, dated : Nat,
        series : Series \cup {None}, media : SUBSET {"audio", "other"}]
Row == [status : Status, released : Nat, revision : Nat, level : Nat, goals : SUBSET Goal,
        quality : Int, dated : Nat, series : Series \cup {None}, categories : SUBSET Nat,
        assets : SUBSET {"cms", "audio", "other"}]
Study == [content : Content, completed : BOOLEAN, begun : BOOLEAN, updated : Int]

ASSUME StockAssumption ==
    /\ Document \in [Content -> SUBSET Doc]
    /\ Shelf \subseteq [Content -> Row]
    /\ \A h \in History : h \subseteq Study /\ \A p, q \in h :
           p.updated <= 0 /\ (p # q => p.updated # q.updated /\ p.content # q.content)

\* What the public lists ask of a content: published, with an audio in the store.
Published(row) == row.status = "published" /\ "cms" \in row.assets

\* Fault: the audio alone decides.
VisibleUnpublished(i) == "cms" \in contents[i].assets

Visible(i) == Published(contents[i])
Online == {i \in Content : Published(contents[i])}

Item(i) == [id |-> i, released |-> contents[i].released, level |-> contents[i].level,
            goals |-> contents[i].goals, quality |-> contents[i].quality]

Later(a, b) == a.released > b.released \/ (a.released = b.released /\ a.id > b.id)

\* Fault: the cursor is compared by its time alone.
BeyondByTime(position) ==
    {i \in Content : Visible(i) /\
        (position = None \/ position.released > contents[i].released)}

\* Fault: the cursor is decoded and not passed to the query.
BeyondUnset(position) == {i \in Content : Visible(i)}

\* ListPublishedContents: (released_at, id) < cursor.
Beyond(position) ==
    {i \in Content : Visible(i) /\ (position = None \/ Later(position, Item(i)))}

ListPublishedContents(position, limit) ==
    LET due == Sorted({Item(i) : i \in Beyond(position)}, Later)
    IN  FirstOf(due, limit)

\* ORDER BY published_at DESC NULLS LAST, id DESC.
DatedLater(i, j) ==
    \/ contents[i].dated > contents[j].dated
    \/ contents[i].dated = contents[j].dated /\ i > j

ListCategoryContents(slug) ==
    LET due == {i \in Content : Visible(i) /\ slug \in contents[i].categories}
    IN  {i \in due : Cardinality({j \in due : DatedLater(j, i)}) < ListLimit}

ListSeriesContents(s) == {i \in Content : Visible(i) /\ contents[i].series = s}
GetSeries(s) == \E i \in Content : Visible(i) /\ contents[i].series = s
ListCategories == UNION {contents[i].categories : i \in {j \in Content : Visible(j)}}

\* What the search words match is left open.
SearchPublishedContents ==
    {found \in SUBSET {i \in Content : Visible(i)} : Cardinality(found) <= ListLimit}

-----------------------------------------------------------------------------
\* The row a publication of the CMS leaves: it is released anew, its categories,
\* series and audio are replaced; media of another kind stay linked.
Republished(row, t) ==
    [row EXCEPT !.status = "published", !.released = t.started, !.revision = @ + 1,
        !.level = t.doc.level, !.goals = t.doc.goals, !.quality = t.doc.quality,
        !.dated = t.doc.dated, !.series = t.doc.series,
        !.categories = ({t.doc.level} \ {NoLevel, Unclassified}) \cup t.doc.topics,
        !.assets = (@ \ {"audio"}) \cup {"cms"}]

ReleasedWhen(row, status, t) ==
    IF row.status # "published" /\ status = "published" THEN t.started ELSE row.released

\* The row UpsertContent leaves: what only a publication says of it stays.
UpsertContent(row, t) ==
    [row EXCEPT !.status = t.status, !.released = ReleasedWhen(row, t.status, t),
        !.revision = @ + 1, !.level = t.doc.level, !.dated = t.doc.dated]

\* A normalised page is linked as well; nothing linked before is taken away.
Linked(row, t) ==
    [row EXCEPT !.series = IF t.doc.series = None THEN @ ELSE t.doc.series,
        !.categories = @ \cup ({t.doc.level} \ {NoLevel}),
        !.assets = @ \cup t.doc.media]

\* Fault: a page is linked and the revision stays.
RecrawledQuietly(row, t) ==
    Linked([UpsertContent(row, t) EXCEPT !.revision = row.revision], t)

Recrawled(row, t) == Linked(UpsertContent(row, t), t)

Moderated(row, t) ==
    [row EXCEPT !.status = t.status, !.released = ReleasedWhen(row, t.status, t),
        !.revision = @ + 1]

\* A publication or a normalisation that is under way.
Transaction ==
    [kind : {"publish", "crawl"}, item : Content,
     doc : UNION Range(Document), status : {"review", "published"},
     started : 1 .. MaxNow]

\* w is the next writer.
Idle(w) == tx[w] = None /\ \A v \in Writer : v < w => tx[v] # None

\* BEGIN fixes now() for the whole transaction.
Begin(w) ==
    /\ Idle(w)
    /\ \E t \in Transaction :
           /\ t.started = now
           /\ t.doc \in Document[t.item]
           /\ t.kind = "publish" => t.status = "published"
           /\ tx' = [tx EXCEPT ![w] = t]
    /\ UNCHANGED <<now, contents, learning, request, witness>>

\* Content i gets another row; the rest is bookkeeping for the properties.
Store(i, row) ==
    /\ contents' = [contents EXCEPT ![i] = row]
    /\ shown' = IF Published(row) /\ pc \notin {"idle", "answered"} THEN shown \cup {i}
                ELSE shown
    /\ steady' = IF row.released # contents[i].released \/ ~Published(row)
                 THEN steady \ {i} ELSE steady
    /\ sunk' = IF pc = "page" /\ row.released < contents[i].released
               THEN sunk \cup {i} ELSE sunk
    /\ UNCHANGED <<now, learning, request, finished>>

\* Transactions on one content wait for its row, so what each of them reads of it
\* is what the one before has committed.
Commit(w) ==
    /\ tx[w] \notin {None, Done}
    /\ LET t == tx[w]
           row == contents[t.item]
       IN  Store(t.item, IF t.kind = "publish" THEN Republished(row, t) ELSE Recrawled(row, t))
    /\ tx' = [tx EXCEPT ![w] = Done]

\* The operator's SetContentStatus.
Moderate(w) ==
    /\ Idle(w)
    /\ \E i \in Content, status \in {"published", "hidden"} :
           /\ contents[i] # NoContent
           /\ Store(i, Moderated(contents[i], [status |-> status, started |-> now]))
    /\ tx' = [tx EXCEPT ![w] = Done]

Tick ==
    /\ now < MaxNow
    /\ now' = now + 1
    /\ UNCHANGED <<contents, tx, learning, request, witness>>

-----------------------------------------------------------------------------
\* Another device of the person writes progress of a content.
Learn ==
    /\ use = "home"
    /\ studies < MaxStudies
    /\ \E i \in {j \in Content : contents[j] # NoContent}, ended, begun \in BOOLEAN :
           /\ progress' = {p \in progress : p.content # i}
                  \cup {[content |-> i, completed |-> ended, begun |-> begun,
                         updated |-> studies + 1]}
           /\ finished' = IF ended THEN finished ELSE finished \ {i}
    /\ studies' = studies + 1
    /\ UNCHANGED <<store, use, grammar, words, request, shown, steady, sunk>>

\* It saves a grammar session, of five questions and three right answers.
Practise ==
    /\ use = "home"
    /\ studies < MaxStudies
    /\ grammar' = [correct |-> grammar.correct + 3, questions |-> grammar.questions + 5]
    /\ studies' = studies + 1
    /\ UNCHANGED <<store, use, progress, words, request, witness>>

\* It saves a word that is not in the list.
SaveWord ==
    /\ use = "home"
    /\ studies < MaxStudies
    /\ words' = words + 1
    /\ studies' = studies + 1
    /\ UNCHANGED <<store, use, progress, grammar, request, witness>>

-----------------------------------------------------------------------------
Unlisted == [i \in Content |-> 0]
NothingLearnt ==
    [progress |-> <<>>, grammar |-> [correct |-> 0, questions |-> 0], words |-> 0]
NoSections == [continue |-> <<>>, forYou |-> <<>>, latest |-> <<>>]
Nothing == [status |-> 0, served |-> {}, home |-> NoSections]

\* The request begins: what is online now may be shown in its answer.
Arrive(kind) ==
    /\ pc = "idle"
    /\ use = kind
    /\ shown' = Online
    /\ finished' = {p.content : p \in {q \in progress : q.completed}}

Answer(status, served) ==
    /\ pc' = "answered"
    /\ answer' = [status |-> status, served |-> served, home |-> NoSections]

\* The device takes the answer.
Rest ==
    /\ pc = "answered"
    /\ pc' = "idle"
    /\ asked' = None /\ cursor' = None /\ rows' = <<>> /\ listed' = Unlisted
    /\ learnt' = NothingLearnt
    /\ answer' = Nothing
    /\ shown' = {} /\ steady' = {} /\ sunk' = {} /\ finished' = {}
    /\ UNCHANGED <<store, learning, copy>>

\* A query fails after the first one, or the first one of a page.  An error of
\* GetPublishedContent or GetSeries is taken for an absence (OpenContent, OpenSeries),
\* and one of ListContentAssets for an empty list (ReadAssets).
Fail ==
    /\ pc \in {"page", "items", "progress", "grammar", "words"}
    /\ Answer(500, {})
    /\ UNCHANGED <<store, learning, asked, cursor, rows, learnt, listed, copy, witness>>

\* The only query of a list fails, or the first one of the personal home.
FailFirst ==
    /\ Arrive("lists") \/ Arrive("home")
    /\ Answer(500, {})
    /\ UNCHANGED <<store, learning, asked, cursor, rows, learnt, listed, copy, steady, sunk>>

\* The device begins to page through GET /contents.
Traverse ==
    /\ Arrive("lists")
    /\ pc' = "page"
    /\ steady' = Online
    /\ UNCHANGED <<store, learning, asked, cursor, rows, learnt, listed, copy, answer, sunk>>

\* A page, with a cursor as long as it is full.
NextPage ==
    /\ pc = "page"
    /\ LET found == ListPublishedContents(cursor, PageLimit)
           last == found[Len(found)]
       IN  /\ listed' = [i \in Content |->
                  IF i \in Ids(found) THEN Min({2, listed[i] + 1}) ELSE listed[i]]
           /\ IF Len(found) = PageLimit
              THEN /\ cursor' = [released |-> last.released, id |-> last.id]
                   /\ UNCHANGED <<pc, answer>>
              ELSE Answer(200, {i \in Content : listed'[i] > 0}) /\ UNCHANGED cursor
    /\ UNCHANGED <<store, learning, asked, rows, learnt, copy, witness>>

\* The lists that are one query each.
Show(found) ==
    /\ Arrive("lists")
    /\ Answer(200, found)
    /\ UNCHANGED <<store, learning, asked, cursor, rows, learnt, listed, copy, steady, sunk>>

Home == Show(Ids(ListPublishedContents(None, ListLimit)))
CategoryContents == \E slug \in ListCategories : Show(ListCategoryContents(slug))
Search == \E found \in SearchPublishedContents : Show(found)

\* GetPublishedContent: no row and any error are a 404.
OpenContent(i) ==
    /\ Arrive("content")
    /\ \/ /\ Visible(i)
          /\ pc' = "assets"
          /\ rows' = <<contents[i]>>
          /\ UNCHANGED answer
       \/ Answer(404, {}) /\ UNCHANGED rows
    /\ asked' = i
    /\ UNCHANGED <<store, learning, cursor, learnt, listed, copy, steady, sunk>>

\* ListContentAssets, whose error is ignored; then If-None-Match is compared, when
\* the device sends the ETag of its copy.
ReadAssets ==
    /\ pc = "assets"
    /\ \E found \in {contents[asked].assets, {}}, conditional \in BOOLEAN :
           IF conditional /\ copy.content = asked /\ copy.row.revision = rows[1].revision
           THEN Answer(304, {asked}) /\ UNCHANGED copy
           ELSE /\ Answer(200, {asked})
                /\ copy' = [content |-> asked, row |-> rows[1], assets |-> found]
    /\ UNCHANGED <<store, learning, asked, cursor, rows, learnt, listed, witness>>

\* GetSeries finds a series that has something online; any error is a 404 too.
OpenSeries(s) ==
    /\ Arrive("lists")
    /\ \/ GetSeries(s) /\ pc' = "items" /\ UNCHANGED answer
       \/ Answer(404, {})
    /\ asked' = s
    /\ UNCHANGED <<store, learning, cursor, rows, learnt, listed, copy, steady, sunk>>

ReadItems ==
    /\ pc = "items"
    /\ Answer(200, ListSeriesContents(asked))
    /\ UNCHANGED <<store, learning, asked, cursor, rows, learnt, listed, copy, witness>>

\* GET /me/home: the candidates, then the person's progress, grammar and words.
OpenHome ==
    /\ Arrive("home")
    /\ pc' = "progress"
    /\ rows' = ListPublishedContents(None, CandidateLimit)
    /\ UNCHANGED <<store, learning, asked, cursor, learnt, listed, copy, answer, steady, sunk>>

\* ListProgress: the row written last in front.
Newer(a, b) == a.updated > b.updated
ListProgress == Sorted(progress, Newer)

ReadProgress ==
    /\ pc = "progress"
    /\ pc' = "grammar"
    /\ learnt' = [learnt EXCEPT !.progress = ListProgress]
    /\ UNCHANGED <<store, learning, asked, cursor, rows, listed, copy, answer, witness>>

ReadGrammar ==
    /\ pc = "grammar"
    /\ pc' = "words"
    /\ learnt' = [learnt EXCEPT !.grammar = grammar]
    /\ UNCHANGED <<store, learning, asked, cursor, rows, listed, copy, answer, witness>>

Orders == SetToSeqs(ActiveLevels(rows, learnt.progress))
SectionsBy(order) ==
    Sections(rows, learnt.progress, learnt.grammar, learnt.words, order)
Recommended(home) == {home.forYou[k].id : k \in DOMAIN home.forYou}

ReadWords ==
    /\ pc = "words"
    /\ \E order \in Orders :
           LET home == Sections(rows, learnt.progress, learnt.grammar, words, order)
           IN  answer' = [status |-> 200, home |-> home,
                          served |-> Range(home.continue) \cup Recommended(home)
                                         \cup Range(home.latest)]
    /\ pc' = "answered"
    /\ learnt' = [learnt EXCEPT !.words = words]
    /\ UNCHANGED <<store, learning, asked, cursor, rows, listed, copy, witness>>

-----------------------------------------------------------------------------
Init ==
    /\ contents \in Shelf
    /\ now \in {t \in 1 .. MaxNow : \A i \in Content : contents[i].released <= t}
    /\ tx = [w \in Writer |-> None]
    /\ use \in {"lists", "content", "home"}
    /\ progress \in IF use = "home" THEN History ELSE {{}}
    /\ grammar = [correct |-> 0, questions |-> 0]
    /\ words = 0
    /\ studies = 0
    /\ pc = "idle"
    /\ asked = None /\ cursor = None /\ rows = <<>> /\ learnt = NothingLearnt
    /\ listed = Unlisted
    /\ copy = [content |-> None, row |-> NoContent, assets |-> {}]
    /\ answer = Nothing
    /\ shown = {} /\ steady = {} /\ sunk = {} /\ finished = {}

\* The next query of a handler, or the device's next page.
Handler ==
    \/ NextPage \/ ReadAssets \/ ReadItems
    \/ ReadProgress \/ ReadGrammar \/ ReadWords

Next ==
    \/ \E w \in Writer : Begin(w) \/ Commit(w) \/ Moderate(w)
    \/ Tick \/ Learn \/ Practise \/ SaveWord
    \/ Traverse \/ Home \/ CategoryContents \/ Search \/ OpenHome
    \/ \E i \in Content : OpenContent(i)
    \/ \E s \in Series : OpenSeries(s)
    \/ Handler \/ Fail \/ FailFirst \/ Rest

Spec == Init /\ [][Next]_vars
\* A device that pages through the list asks for the next page at some time.
FairSpec == Spec /\ WF_vars(NextPage)

-----------------------------------------------------------------------------
\* A list that is read page by page shows each content that stays where it is
\* once, whatever is published, hidden or released anew meanwhile, and none twice
\* unless its released_at went back (docs/architecture.md: the cursor keeps the
\* list stable while contents are updated).
ListsAreStable ==
    pc = "answered" /\ answer.status = 200 =>
        /\ \A i \in steady : listed[i] = 1
        /\ \A i \in Content : listed[i] = 2 => i \in sunk

\* A copy whose revision is still that of the content shows what the content says,
\* and its assets unless the query for them had failed: a 304 is always right.
CopiesAreFaithful ==
    copy.content # None /\ copy.row.revision = contents[copy.content].revision =>
        /\ copy.row = contents[copy.content]
        /\ copy.assets \in {{}, contents[copy.content].assets}

\* No answer shows a content that was not online at some time since the request
\* began, however many queries it took.
WithdrawnContentsAreNotShown ==
    pc = "answered" => answer.served \subseteq shown

\* The personal home leaves out what was finished when it was asked for (README.md:
\* finished contents do not come back), shows no lesson both to continue and as
\* new, withholds nothing unfinished while it has room, and does not depend on the
\* order in which Go runs through the levels.
HomeIsSound ==
    LET home == answer.home
        continued == Range(home.continue)
    IN  pc = "answered" /\ home # NoSections =>
            /\ finished \cap (continued \cup Recommended(home)) = {}
            /\ continued \cap Recommended(home) = {}
            /\ Len(home.forYou) < ForYouLimit =>
                   Ids(rows) \ Completed(learnt.progress)
                       \subseteq continued \cup Recommended(home)
            /\ \A order \in Orders : SectionsBy(order).forYou = home.forYou

\* A device that follows the cursors comes to the end of the list.
TraversalsEnd == pc = "page" ~> pc = "answered"
=============================================================================

----------------------------- MODULE Ingestion -----------------------------
(***************************************************************************)
(* Collecting articles (cmd/worker): discovery runs read a sitemap, record *)
(* its entries in source_items and enqueue the ones never fetched; workers *)
(* take the tasks, archive the page, parse it and normalise it into        *)
(* contents (internal/ingestion discoverer.go, pipeline.go, tasks.go); the *)
(* operator enqueues an item by hand (cmd/ingest) and publishes or hides   *)
(* what came of it (cmd/admin).                                            *)
(*                                                                         *)
(* The queue is Asynq on Redis: a task is delivered at least once, and is  *)
(* retried up to a limit and then archived; a task enqueued with Unique    *)
(* holds a lock on its payload until it succeeds or the lock expires.      *)
(* Each call of the pipeline is a step of its own and any of them may      *)
(* fail; only the normalisation is a transaction.  The page of an item is  *)
(* a number that its publisher counts up: a fetch returns the newest one.  *)
(***************************************************************************)
EXTENDS Naturals, Sequences, FiniteSets

CONSTANTS
    Item,           \* articles, by canonical URL
    LastPage,       \* bound on the versions of a page
    Verified,       \* pages whose text classifies as public domain
    Broken,         \* pages the parser refuses
    Discovery,      \* discovery tasks
    Sitemap,        \* Sitemap[d]: the entries of the sitemap that d reads
    CrawlRetries,   \* retries of a task that discovery enqueued, 3 in the code
    IngestRetries,  \* retries of a task that the operator enqueued, 5
    Concurrency,    \* workers of the queue, 4 in the code
    MaxCommands,    \* bound on the operator's commands: ingest, publish, hide
    MaxFaults       \* bound on failing calls

Page == 1 .. LastPage

ASSUME PageAssumption ==
    /\ LastPage \in Nat \ {0}
    /\ Verified \subseteq Page /\ Broken \subseteq Page
ASSUME SitemapAssumption == Sitemap \in [Discovery -> SUBSET Item]
ASSUME LimitsAssumption ==
    /\ IsFiniteSet(Item) /\ Item # {}
    /\ CrawlRetries \in Nat /\ IngestRetries \in Nat /\ Concurrency \in Nat \ {0}
    /\ MaxCommands \in Nat /\ MaxFaults \in Nat

VARIABLES
    upstream,       \* upstream[i]: the page VOA serves for i
    fetchState,     \* source_items.fetch_state
    objects,        \* objects[i]: the pages of i in the object store
    snapshots,      \* snapshots[i][p]: parse_state of the snapshot row
    contents,       \* contents[i]: the revisions of the content of i
    task,           \* task[t]: the item, retries and fetched page of a task
    pc,             \* where a task stands
    locked,         \* items whose payload is locked in Redis
    todo,           \* entries a discovery run has yet to record
    seen,           \* the entries a run found never fetched: at most one
    ingests, moderations, faults    \* commands and failures so far

store == <<fetchState, objects, snapshots, contents>>
runs == <<todo, seen>>
bounds == <<ingests, moderations, faults>>
vars == <<upstream, store, task, pc, locked, runs, bounds>>

-----------------------------------------------------------------------------
\* The locks keep the tasks of discovery to one per item: a slot is always free.
Task == 1 .. Cardinality(Item) + MaxCommands

Revision == [page : Page, status : {"published", "review", "hidden"},
             event : {"upsert", "delete", "none"}]

Live(t) == pc[t] # "none"
Running(t) == pc[t] \notin {"none", "pending"}
Retries(t) == IF task[t].unique THEN CrawlRetries ELSE IngestRetries
Fault == faults < MaxFaults /\ faults' = faults + 1

Init ==
    /\ upstream = [i \in Item |-> 1]
    /\ fetchState = [i \in Item |-> "absent"]
    /\ objects = [i \in Item |-> {}]
    /\ snapshots = [i \in Item |-> [p \in Page |-> "absent"]]
    /\ contents = [i \in Item |-> <<>>]
    /\ task = [t \in Task |-> [item |-> CHOOSE i \in Item : TRUE, unique |-> FALSE,
                               retried |-> 0, page |-> 0]]
    /\ pc = [t \in Task |-> "none"]
    /\ locked = {}
    /\ todo = [d \in Discovery |-> {}]
    /\ seen = [d \in Discovery |-> {}]
    /\ ingests = 0 /\ moderations = 0 /\ faults = 0

-----------------------------------------------------------------------------
(* The queue.                                                               *)

Push(i, unique) ==
    \E t \in Task :
        /\ ~Live(t) /\ \A u \in 1 .. t - 1 : Live(u)
        /\ task' = [task EXCEPT ![t] = [item |-> i, unique |-> unique,
                                        retried |-> 0, page |-> 0]]
        /\ pc' = [pc EXCEPT ![t] = "pending"]

\* The handler returned an error, or its worker died and the lease ran out.
\* A task without retries left is archived, and its lock stays.
Retry(t) ==
    IF task[t].retried < Retries(t)
    THEN /\ task' = [task EXCEPT ![t].retried = @ + 1, ![t].page = 0]
         /\ pc' = [pc EXCEPT ![t] = "pending"]
    ELSE /\ pc' = [pc EXCEPT ![t] = "none"]
         /\ UNCHANGED task

\* The lock of a task outlives it by days at most; no task lives that long.
Expire(i) ==
    /\ i \in locked
    /\ \A t \in Task : Live(t) => ~(task[t].unique /\ task[t].item = i)
    /\ locked' = locked \ {i}
    /\ UNCHANGED <<upstream, store, task, pc, runs, bounds>>

-----------------------------------------------------------------------------
(* Discovery.  A run begins on its schedule, or when an index names its     *)
(* sitemap; a failed run is begun again by the queue or by the schedule.    *)

BeginRun(d) ==
    /\ todo[d] = {} /\ seen[d] = {}
    /\ todo' = [todo EXCEPT ![d] = Sitemap[d]]
    /\ UNCHANGED <<upstream, store, task, pc, locked, seen, bounds>>

\* UpsertSourceItem leaves the state of an item that is known.
Upsert(i) ==
    fetchState' = [fetchState EXCEPT ![i] = IF @ = "absent" THEN "discovered" ELSE @]

\* Fault: only an item that is new is to be enqueued.
RecordNew(d, i) ==
    /\ i \in todo[d] /\ seen[d] = {}
    /\ Upsert(i)
    /\ todo' = [todo EXCEPT ![d] = @ \ {i}]
    /\ seen' = [seen EXCEPT ![d] = IF fetchState[i] = "absent" THEN {i} ELSE {}]
    /\ UNCHANGED <<upstream, objects, snapshots, contents, task, pc, locked, bounds>>

Record(d, i) ==
    /\ i \in todo[d] /\ seen[d] = {}
    /\ Upsert(i)
    /\ todo' = [todo EXCEPT ![d] = @ \ {i}]
    /\ seen' = [seen EXCEPT ![d] = IF fetchState'[i] = "discovered" THEN {i} ELSE {}]
    /\ UNCHANGED <<upstream, objects, snapshots, contents, task, pc, locked, bounds>>

\* Fault: the task is enqueued without Unique.
EnqueueRepeatedly(d) ==
    /\ \E i \in seen[d] : Push(i, FALSE)
    /\ seen' = [seen EXCEPT ![d] = {}]
    /\ UNCHANGED <<upstream, store, todo, locked, bounds>>

\* Redis refuses the task of a locked item, and the run goes on.
Enqueue(d) ==
    /\ \E i \in seen[d] :
          IF i \in locked
          THEN UNCHANGED <<task, pc, locked>>
          ELSE Push(i, TRUE) /\ locked' = locked \cup {i}
    /\ seen' = [seen EXCEPT ![d] = {}]
    /\ UNCHANGED <<upstream, store, todo, bounds>>

\* PostgreSQL or Redis fails a call, and the run returns.
RunFails(d) ==
    /\ todo[d] \cup seen[d] # {} /\ Fault
    /\ todo' = [todo EXCEPT ![d] = {}]
    /\ seen' = [seen EXCEPT ![d] = {}]
    /\ UNCHANGED <<upstream, store, task, pc, locked, ingests, moderations>>

-----------------------------------------------------------------------------
(* The pipeline: the calls of Process, each on the item of the task.        *)

At(t, here, next) ==
    pc[t] = here /\ pc' = [pc EXCEPT ![t] = next]

Start(t) ==
    /\ Cardinality({u \in Task : Running(u)}) < Concurrency
    /\ At(t, "pending", "fetch")
    /\ UNCHANGED <<upstream, store, task, locked, runs, bounds>>

\* Fault: the page is not archived.
FetchOnly(t) ==
    /\ At(t, "fetch", "snapshot")
    /\ task' = [task EXCEPT ![t].page = upstream[task[t].item]]
    /\ UNCHANGED <<upstream, store, locked, runs, bounds>>

Fetch(t) ==
    /\ At(t, "fetch", "archive")
    /\ task' = [task EXCEPT ![t].page = upstream[task[t].item]]
    /\ UNCHANGED <<upstream, store, locked, runs, bounds>>

\* VOA does not answer, answers with an error or redirects to another kind of
\* page.  The update of the state may fail as well, which is ignored.
FetchFails(t) ==
    /\ pc[t] = "fetch" /\ Fault
    /\ \/ fetchState' = [fetchState EXCEPT ![task[t].item] = "failed"]
       \/ UNCHANGED fetchState
    /\ Retry(t)
    /\ UNCHANGED <<upstream, objects, snapshots, contents, locked, runs,
                   ingests, moderations>>

\* Fault: the item counts as fetched once its page is archived.
ArchiveAndSettle(t) ==
    /\ At(t, "archive", "snapshot")
    /\ objects' = [objects EXCEPT ![task[t].item] = @ \cup {task[t].page}]
    /\ fetchState' = [fetchState EXCEPT ![task[t].item] = "fetched"]
    /\ UNCHANGED <<upstream, snapshots, contents, task, locked, runs, bounds>>

Archive(t) ==
    /\ At(t, "archive", "snapshot")
    /\ objects' = [objects EXCEPT ![task[t].item] = @ \cup {task[t].page}]
    /\ UNCHANGED <<upstream, fetchState, snapshots, contents, task, locked, runs, bounds>>

\* A snapshot of the same page keeps its parse state.
Snapshot(t) ==
    /\ At(t, "snapshot", "parse")
    /\ snapshots' = [snapshots EXCEPT ![task[t].item][task[t].page] =
                        IF @ = "absent" THEN "pending" ELSE @]
    /\ UNCHANGED <<upstream, fetchState, objects, contents, task, locked, runs, bounds>>

Parse(t) ==
    /\ task[t].page \notin Broken
    /\ At(t, "parse", "normalize")
    /\ UNCHANGED <<upstream, store, task, locked, runs, bounds>>

\* The page is refused; again the update of the snapshot may fail unnoticed.
ParseFails(t) ==
    /\ pc[t] = "parse" /\ task[t].page \in Broken
    /\ \/ snapshots' = [snapshots EXCEPT ![task[t].item][task[t].page] = "failed"]
          /\ UNCHANGED faults
       \/ Fault /\ UNCHANGED snapshots
    /\ Retry(t)
    /\ UNCHANGED <<upstream, fetchState, objects, contents, locked, runs,
                   ingests, moderations>>

\* UpsertContent decides the status by the rights of the page alone, and only
\* a published revision gets an event.
Normalized(p) ==
    IF p \in Verified
    THEN [page |-> p, status |-> "published", event |-> "upsert"]
    ELSE [page |-> p, status |-> "review", event |-> "none"]

Normalize(t) ==
    /\ At(t, "normalize", "mark")
    /\ contents' = [contents EXCEPT ![task[t].item] =
                       Append(@, Normalized(task[t].page))]
    /\ UNCHANGED <<upstream, fetchState, objects, snapshots, task, locked, runs, bounds>>

MarkParsed(t) ==
    /\ At(t, "mark", "settle")
    /\ snapshots' = [snapshots EXCEPT ![task[t].item][task[t].page] = "parsed"]
    /\ UNCHANGED <<upstream, fetchState, objects, contents, task, locked, runs, bounds>>

Settle(t) ==
    /\ At(t, "settle", "done")
    /\ fetchState' = [fetchState EXCEPT ![task[t].item] = "fetched"]
    /\ UNCHANGED <<upstream, objects, snapshots, contents, task, locked, runs, bounds>>

\* The handler has returned, and Redis forgets the task and its lock.
Done(t) ==
    /\ At(t, "done", "none")
    /\ locked' = IF task[t].unique THEN locked \ {task[t].item} ELSE locked
    /\ UNCHANGED <<upstream, store, task, runs, bounds>>

\* A call after the fetch fails, or took effect and its answer was lost, or
\* the worker dies.
CallFails(t) ==
    /\ pc[t] \in {"archive", "snapshot", "parse", "normalize", "mark", "settle", "done"}
    /\ Fault
    /\ Retry(t)
    /\ UNCHANGED <<upstream, store, locked, runs, ingests, moderations>>

-----------------------------------------------------------------------------
(* VOA and the operator.                                                    *)

Edit(i) ==
    /\ upstream[i] < LastPage
    /\ upstream' = [upstream EXCEPT ![i] = @ + 1]
    /\ UNCHANGED <<store, task, pc, locked, runs, bounds>>

\* cmd/ingest asks for no lock.
Ingest(i) ==
    /\ ingests + moderations < MaxCommands
    /\ Upsert(i)
    /\ Push(i, FALSE)
    /\ ingests' = ingests + 1
    /\ UNCHANGED <<upstream, objects, snapshots, contents, locked, runs,
                   moderations, faults>>

\* cmd/admin sets the status, bumps the revision and logs it in a transaction.
Moderate(i, status) ==
    /\ contents[i] # <<>> /\ ingests + moderations < MaxCommands
    /\ contents' = [contents EXCEPT ![i] = Append(@,
           [page |-> @[Len(@)].page, status |-> status,
            event |-> IF status = "hidden" THEN "delete" ELSE "upsert"])]
    /\ moderations' = moderations + 1
    /\ UNCHANGED <<upstream, fetchState, objects, snapshots, task, pc, locked, runs,
                   ingests, faults>>

-----------------------------------------------------------------------------
Run(d) == BeginRun(d) \/ (\E i \in Item : Record(d, i)) \/ Enqueue(d)

Process(t) ==
    \/ Fetch(t) \/ Archive(t) \/ Snapshot(t) \/ Parse(t) \/ ParseFails(t)
    \/ Normalize(t) \/ MarkParsed(t) \/ Settle(t) \/ Done(t)

Next ==
    \/ \E d \in Discovery : Run(d) \/ RunFails(d)
    \/ \E t \in Task : Start(t) \/ Process(t) \/ FetchFails(t) \/ CallFails(t)
    \/ \E i \in Item : Expire(i) \/ Edit(i) \/ Ingest(i)
    \/ \E i \in Item, status \in {"published", "hidden"} : Moderate(i, status)

Spec == Init /\ [][Next]_vars

\* The scheduler repeats the runs, the queue is first in first out, a handler
\* goes on, and locks expire.
FairSpec ==
    /\ Spec
    /\ \A d \in Discovery : WF_vars(Run(d))
    /\ \A t \in Task : SF_vars(Start(t)) /\ WF_vars(Process(t))
    /\ \A i \in Item : WF_vars(Expire(i))

-----------------------------------------------------------------------------
TypeOK ==
    /\ upstream \in [Item -> Page]
    /\ fetchState \in [Item -> {"absent", "discovered", "fetched", "failed"}]
    /\ objects \in [Item -> SUBSET Page]
    /\ snapshots \in [Item -> [Page -> {"absent", "pending", "parsed", "failed"}]]
    /\ contents \in [Item -> Seq(Revision)]
    /\ task \in [Task -> [item : Item, unique : BOOLEAN, retried : Nat, page : Page \cup {0}]]
    /\ \A t \in Task : task[t].retried <= Retries(t)
    /\ pc \in [Task -> {"none", "pending", "fetch", "archive", "snapshot", "parse",
                        "normalize", "mark", "settle", "done"}]
    /\ locked \subseteq Item
    /\ todo \in [Discovery -> SUBSET Item]
    /\ seen \in [Discovery -> SUBSET Item]
    /\ ingests \in 0 .. MaxCommands
    /\ moderations \in 0 .. MaxCommands
    /\ faults \in 0 .. MaxFaults

\* Every revision of a content can be replayed: the page it was made from is in
\* the archive with a snapshot row, and it is not a page the parser refuses, so
\* a broken page never replaces what is online.
RevisionsAreArchived ==
    \A i \in Item : \A n \in 1 .. Len(contents[i]) :
        LET p == contents[i][n].page
        IN  /\ p \in objects[i]
            /\ snapshots[i][p] \in {"pending", "parsed"}
            /\ p \notin Broken

\* An item is settled only when its work is done: a fetched item, which no later
\* discovery run enqueues, has a parsed snapshot, and a parsed snapshot's page
\* has become a revision, through retries and workers that died on the way.
FetchedMeansTaken ==
    \A i \in Item :
        /\ fetchState[i] = "fetched" => \E p \in Page : snapshots[i][p] = "parsed"
        /\ \A p \in Page : snapshots[i][p] = "parsed" =>
              \E n \in 1 .. Len(contents[i]) : contents[i][n].page = p

\* As long as the operator has enqueued nothing by hand, the lock of an item keeps
\* its tasks apart: a content never falls back to a page older than the one it
\* shows, whatever is retried, edited or discovered meanwhile.
RevisionsNeverGoBack ==
    ingests = 0 =>
    \A i \in Item : \A m, n \in 1 .. Len(contents[i]) :
        m < n => contents[i][m].page <= contents[i][n].page

\* Processing a page again adds no revision: two consecutive revisions differ in
\* the page or, when the operator made the second one, in the status.
OneRevisionPerChange ==
    \A i \in Item : \A n \in 2 .. Len(contents[i]) :
        \/ contents[i][n].page # contents[i][n - 1].page
        \/ contents[i][n].status # contents[i][n - 1].status

\* Every item a run has recorded is at some time archived or marked as failed,
\* also when the run, Redis or the worker failed before.
DiscoveredItemsAreAttempted ==
    \A i \in Item :
        fetchState[i] = "discovered" ~> (objects[i] # {} \/ fetchState[i] = "failed")
=============================================================================

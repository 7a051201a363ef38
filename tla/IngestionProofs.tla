-------------------------- MODULE IngestionProofs --------------------------
(***************************************************************************)
(* Theorems about Ingestion for any number of articles, pages, discovery   *)
(* runs, workers, retries and failures.  A task carries what its earlier   *)
(* calls have done: StageInv says what each stage of the pipeline may rely *)
(* on, although the calls of other tasks come in between.                  *)
(***************************************************************************)
EXTENDS Ingestion, TLAPS

\* The stages of a task from a given call on.
ToSettle == {"settle", "done"}
ToMark == {"mark"} \cup ToSettle
ToNormalize == {"normalize"} \cup ToMark
ToParse == {"parse"} \cup ToNormalize
ToSnapshot == {"snapshot"} \cup ToParse
ToArchive == {"archive"} \cup ToSnapshot

Stage == {"none", "pending", "fetch"} \cup ToArchive

\* A page that has become a revision.
Taken(i, p) == \E n \in 1 .. Len(contents[i]) : contents[i][n].page = p

\* What each stage relies on: the earlier calls of the task hold, whatever other
\* tasks have done since.
StageInv ==
    \A t \in Task :
        /\ pc[t] \in ToArchive => task[t].page \in Page
        /\ pc[t] \in ToSnapshot => task[t].page \in objects[task[t].item]
        /\ pc[t] \in ToParse => snapshots[task[t].item][task[t].page] # "absent"
        /\ pc[t] \in ToNormalize => task[t].page \notin Broken
        /\ pc[t] \in ToMark => Taken(task[t].item, task[t].page)
        /\ pc[t] \in ToSettle => snapshots[task[t].item][task[t].page] = "parsed"

\* Only a page that the parser refuses is marked as failed.
FailedInv ==
    \A i \in Item, p \in Page : snapshots[i][p] = "failed" => p \in Broken

\* The inductive invariant behind RevisionsAreArchived and FetchedMeansTaken.
ArchiveInv ==
    /\ TypeOK
    /\ StageInv
    /\ FailedInv
    /\ RevisionsAreArchived
    /\ FetchedMeansTaken

-----------------------------------------------------------------------------
\* What the queue keeps of a task.
TaskRow == [item : Item, unique : BOOLEAN, retried : Nat, page : Page \cup {0}]

\* The stages, listed.
LEMMA Stages ==
    Stage = {"none", "pending", "fetch", "archive", "snapshot", "parse",
             "normalize", "mark", "settle", "done"}
  BY DEF Stage, ToArchive, ToSnapshot, ToParse, ToNormalize, ToMark, ToSettle

\* What the types say of tasks.
LEMMA TaskTypes ==
    ASSUME TypeOK
    PROVE  /\ pc \in [Task -> Stage]
           /\ task \in [Task -> TaskRow]
           /\ \A t \in Task :
                  /\ task[t] \in TaskRow /\ task[t].item \in Item
                  /\ task[t].unique \in BOOLEAN /\ task[t].retried \in Nat
                  /\ task[t].page \in Page \cup {0}
                  /\ task[t].retried <= Retries(t) /\ Retries(t) \in Nat
<1>1. pc \in [Task -> Stage] /\ task \in [Task -> TaskRow]
  BY Stages DEF TypeOK, TaskRow
<1>2. ASSUME NEW t \in Task
      PROVE  /\ task[t] \in TaskRow /\ task[t].item \in Item
             /\ task[t].unique \in BOOLEAN /\ task[t].retried \in Nat
             /\ task[t].page \in Page \cup {0}
  BY <1>1 DEF TaskRow
<1>3. \A t \in Task : task[t].retried <= Retries(t) /\ Retries(t) \in Nat
  BY LimitsAssumption DEF TypeOK, Retries
<1> QED
  BY <1>1, <1>2, <1>3

\* A task that is tried again starts over or is given up.
LEMMA RetryFacts ==
    ASSUME TypeOK, NEW t \in Task, Retry(t)
    PROVE  /\ pc' \in [Task -> Stage]
           /\ pc'[t] \in {"none", "pending"}
           /\ task' \in [Task -> TaskRow]
           /\ \A u \in Task : task'[u].retried <= Retries(u)'
           /\ \A u \in Task : u # t => pc'[u] = pc[u] /\ task'[u] = task[u]
           /\ task'[t].item = task[t].item /\ task'[t].unique = task[t].unique
<1>0. pc \in [Task -> Stage] /\ task \in [Task -> TaskRow] /\ task[t] \in TaskRow
  BY TaskTypes
<1>1. CASE task[t].retried < Retries(t)
  <2> DEFINE row == [item |-> task[t].item, unique |-> task[t].unique,
                     retried |-> task[t].retried + 1, page |-> 0]
  <2>0. task[t] = [item |-> task[t].item, unique |-> task[t].unique,
                   retried |-> task[t].retried, page |-> task[t].page]
    BY <1>0 DEF TaskRow
  <2>1. task' = [task EXCEPT ![t] = row] /\ pc' = [pc EXCEPT ![t] = "pending"]
    BY <1>0, <1>1, <2>0 DEF Retry
  <2>2. row \in TaskRow /\ row.item = task[t].item /\ row.unique = task[t].unique
    BY TaskTypes DEF TaskRow
  <2>3. row.retried = task[t].retried + 1
    OBVIOUS
  <2>4. task'[t] = row
    BY <1>0, <2>1
  <2>5. task'[t].retried <= Retries(t)'
    BY <1>1, <2>2, <2>3, <2>4, TaskTypes DEF Retries
  <2>6. \A u \in Task : u # t => task'[u] = task[u] /\ Retries(u)' = Retries(u)
    BY <1>0, <2>1 DEF Retries
  <2>7. \A u \in Task : task'[u].retried <= Retries(u)'
    BY <2>5, <2>6, TaskTypes
  <2> HIDE DEF row
  <2>8. task' \in [Task -> TaskRow]
    BY <1>0, <2>1, <2>2
  <2>9. /\ pc' \in [Task -> Stage] /\ pc'[t] \in {"none", "pending"}
        /\ \A u \in Task : u # t => pc'[u] = pc[u]
    BY <1>0, <2>1, Stages
  <2> QED
    BY <2>2, <2>4, <2>6, <2>7, <2>8, <2>9
<1>2. CASE ~ (task[t].retried < Retries(t))
  <2>1. UNCHANGED task /\ pc' = [pc EXCEPT ![t] = "none"]
    BY <1>2 DEF Retry
  <2>2. \A u \in Task : task'[u].retried <= Retries(u)'
    BY <2>1, TaskTypes DEF Retries
  <2> QED
    BY <1>0, <2>1, <2>2, Stages
<1> QED
  BY <1>1, <1>2

\* A task that is enqueued takes a free slot.
LEMMA PushFacts ==
    ASSUME TypeOK, NEW i \in Item, NEW unique \in BOOLEAN, Push(i, unique)
    PROVE  \E t \in Task :
               /\ ~Live(t)
               /\ pc' = [pc EXCEPT ![t] = "pending"]
               /\ task' = [task EXCEPT ![t] = [item |-> i, unique |-> unique,
                                               retried |-> 0, page |-> 0]]
               /\ \A u \in Task : task'[u].retried <= Retries(u)'
<1>1. PICK t \in Task :
          /\ ~Live(t)
          /\ pc' = [pc EXCEPT ![t] = "pending"]
          /\ task' = [task EXCEPT ![t] = [item |-> i, unique |-> unique,
                                          retried |-> 0, page |-> 0]]
  BY DEF Push
<1>2. \A u \in Task : task'[u].retried <= Retries(u)'
  BY <1>1, LimitsAssumption DEF TypeOK, Retries
<1> QED
  BY <1>1, <1>2

\* A revision added at the end leaves the others.
LEMMA AppendFacts ==
    ASSUME NEW s \in Seq(Revision), NEW e \in Revision
    PROVE  /\ Append(s, e) \in Seq(Revision)
           /\ Len(s) \in Nat
           /\ Len(Append(s, e)) = Len(s) + 1
           /\ \A n \in 1 .. Len(s) : Append(s, e)[n] = s[n]
           /\ Append(s, e)[Len(s) + 1] = e
  OBVIOUS

\* The parse states of a snapshot.
ParseState == {"absent", "pending", "parsed", "failed"}

\* A step that writes one snapshot row.
WritesRow(i, p, v) == snapshots' = [snapshots EXCEPT ![i][p] = v]

\* A snapshot row that is written changes no other one.
LEMMA SnapshotFacts ==
    ASSUME TypeOK, NEW i \in Item, NEW p \in Page, NEW v \in ParseState,
           WritesRow(i, p, v)
    PROVE  /\ snapshots' \in [Item -> [Page -> ParseState]]
           /\ snapshots'[i][p] = v
           /\ \A j \in Item, q \in Page :
                  j # i \/ q # p => snapshots'[j][q] = snapshots[j][q]
<1> DEFINE row == [snapshots[i] EXCEPT ![p] = v]
<1>1. /\ snapshots \in [Item -> [Page -> ParseState]]
      /\ snapshots[i] \in [Page -> ParseState]
  BY DEF TypeOK, ParseState
<1>2. /\ row \in [Page -> ParseState] /\ row[p] = v
      /\ \A q \in Page : q # p => row[q] = snapshots[i][q]
  BY <1>1
<1>3. snapshots' = [snapshots EXCEPT ![i] = row]
  BY DEF WritesRow
<1> HIDE DEF row
<1>4. /\ snapshots' \in [Item -> [Page -> ParseState]]
      /\ snapshots'[i] = row
      /\ \A j \in Item : j # i => snapshots'[j] = snapshots[j]
  BY <1>1, <1>2, <1>3
<1> QED
  BY <1>2, <1>4

\* The calls that write a snapshot row.
LEMMA SnapshotWrites ==
    ASSUME TypeOK, StageInv, NEW t \in Task
    PROVE  LET i == task[t].item
               p == task[t].page
           IN  /\ pc[t] \in ToArchive => i \in Item /\ p \in Page
               /\ Snapshot(t) =>
                      \E v \in ParseState :
                          /\ v = IF snapshots[i][p] = "absent" THEN "pending"
                                 ELSE snapshots[i][p]
                          /\ WritesRow(i, p, v)
               /\ MarkParsed(t) => WritesRow(i, p, "parsed")
               /\ ParseFails(t) =>
                      \/ UNCHANGED snapshots
                      \/ WritesRow(i, p, "failed")
<1> DEFINE i == task[t].item
           p == task[t].page
           v == IF snapshots[i][p] = "absent" THEN "pending" ELSE snapshots[i][p]
<1>1. pc[t] \in ToArchive => i \in Item /\ p \in Page
  BY TaskTypes DEF StageInv
<1>2. ASSUME Snapshot(t)
      PROVE  v \in ParseState /\ WritesRow(i, p, v)
  <2>1. i \in Item /\ p \in Page
    BY <1>1, <1>2 DEF Snapshot, At, ToArchive, ToSnapshot
  <2>2. v \in ParseState
    BY <2>1 DEF TypeOK, ParseState
  <2> QED
    BY <1>2, <2>2 DEF Snapshot, WritesRow
<1>3. MarkParsed(t) => WritesRow(i, p, "parsed")
  BY DEF MarkParsed, WritesRow
<1>4. ParseFails(t) =>
          UNCHANGED snapshots \/ WritesRow(i, p, "failed")
  BY DEF ParseFails, WritesRow
<1> QED
  BY <1>1, <1>2, <1>3, <1>4

\* Every step keeps the types.
LEMMA TypeStep == ArchiveInv /\ [Next]_vars => TypeOK'
<1> SUFFICES ASSUME ArchiveInv, [Next]_vars PROVE TypeOK'
  OBVIOUS
<1>0. TypeOK /\ StageInv
  BY DEF ArchiveInv
<1>1. /\ LastPage \in Nat \ {0} /\ Verified \subseteq Page /\ Broken \subseteq Page
      /\ Sitemap \in [Discovery -> SUBSET Item]
      /\ MaxCommands \in Nat /\ MaxFaults \in Nat
  BY PageAssumption, SitemapAssumption, LimitsAssumption
<1>2. ASSUME UNCHANGED task PROVE \A u \in Task : task'[u].retried <= Retries(u)'
  BY <1>0, <1>2, TaskTypes DEF Retries
<1>3. ASSUME NEW t \in Task, Retry(t)
      PROVE  /\ pc' \in [Task -> {"none", "pending", "fetch", "archive", "snapshot",
                                  "parse", "normalize", "mark", "settle", "done"}]
             /\ task' \in [Task -> [item : Item, unique : BOOLEAN, retried : Nat,
                                    page : Page \cup {0}]]
             /\ \A u \in Task : task'[u].retried <= Retries(u)'
  BY <1>0, <1>3, RetryFacts, Stages DEF TaskRow
<1> USE <1>0 DEF TypeOK, runs, bounds, store
<1>4. ASSUME NEW d \in Discovery, BeginRun(d) PROVE TypeOK'
  BY <1>1, <1>2, <1>4 DEF BeginRun
<1>5. ASSUME NEW d \in Discovery, NEW i \in Item, Record(d, i) PROVE TypeOK'
  BY <1>2, <1>5 DEF Record, Upsert
<1>6. ASSUME NEW d \in Discovery, Enqueue(d) PROVE TypeOK'
  <2>1. PICK i \in seen[d] :
            IF i \in locked THEN UNCHANGED <<task, pc, locked>>
            ELSE Push(i, TRUE) /\ locked' = locked \cup {i}
    BY <1>6 DEF Enqueue
  <2>2. i \in Item
    BY <2>1
  <2>3. CASE i \in locked
    BY <1>2, <1>6, <2>1, <2>3 DEF Enqueue
  <2>4. CASE i \notin locked
    <3>1. PICK t \in Task :
              /\ pc' = [pc EXCEPT ![t] = "pending"]
              /\ task' = [task EXCEPT ![t] = [item |-> i, unique |-> TRUE,
                                              retried |-> 0, page |-> 0]]
              /\ \A u \in Task : task'[u].retried <= Retries(u)'
      BY <2>1, <2>2, <2>4, PushFacts
    <3>2. locked' = locked \cup {i}
      BY <2>1, <2>4
    <3>3. seen' \in [Discovery -> SUBSET Item]
      BY <1>6 DEF Enqueue
    <3> QED
      BY <1>6, <2>2, <3>1, <3>2, <3>3 DEF Enqueue
  <2> QED
    BY <2>3, <2>4
<1>7. ASSUME NEW d \in Discovery, RunFails(d) PROVE TypeOK'
  BY <1>1, <1>2, <1>7 DEF RunFails, Fault
<1>8. ASSUME NEW t \in Task, Start(t) \/ Parse(t) PROVE TypeOK'
  BY <1>2, <1>8 DEF Start, Parse, At
<1>9. ASSUME NEW t \in Task, Fetch(t) PROVE TypeOK'
  <2> DEFINE row == [task[t] EXCEPT !.page = upstream[task[t].item]]
  <2>1. /\ task' = [task EXCEPT ![t] = row]
        /\ task[t] \in TaskRow /\ task \in [Task -> TaskRow] /\ task[t].item \in Item
    BY <1>9, TaskTypes DEF Fetch
  <2>2. row \in TaskRow /\ row.retried = task[t].retried /\ row.unique = task[t].unique
    BY <2>1 DEF TaskRow
  <2>3. task' \in [Task -> TaskRow] /\ \A u \in Task : task'[u].retried <= Retries(u)'
    <3> HIDE DEF row
    <3> QED
      BY <2>1, <2>2, TaskTypes DEF Retries
  <2> QED
    BY <1>9, <2>3 DEF Fetch, At, TaskRow
<1>10. ASSUME NEW t \in Task, Archive(t) PROVE TypeOK'
  <2>1. task[t].page \in Page
    BY <1>10 DEF Archive, At, StageInv, ToArchive
  <2> QED
    BY <1>2, <1>10, <2>1 DEF Archive, At
<1>11. ASSUME NEW t \in Task, Snapshot(t) \/ MarkParsed(t) PROVE TypeOK'
  <2>0. task[t].item \in Item /\ task[t].page \in Page
    BY <1>11, SnapshotWrites
    DEF Snapshot, MarkParsed, At, ToArchive, ToSnapshot, ToParse, ToNormalize, ToMark
  <2>1. snapshots' \in [Item -> [Page -> {"absent", "pending", "parsed", "failed"}]]
    BY <1>11, <2>0, SnapshotWrites, SnapshotFacts DEF ParseState
  <2> QED
    BY <1>2, <1>11, <2>1 DEF Snapshot, MarkParsed, At
<1>12. ASSUME NEW t \in Task, ParseFails(t) PROVE TypeOK'
  <2>0. task[t].item \in Item /\ task[t].page \in Page
    BY <1>12, SnapshotWrites DEF ParseFails, ToArchive, ToSnapshot, ToParse
  <2>1. snapshots' \in [Item -> [Page -> {"absent", "pending", "parsed", "failed"}]]
    BY <1>12, <2>0, SnapshotWrites, SnapshotFacts DEF ParseState
  <2>2. faults' \in 0 .. MaxFaults
    BY <1>1, <1>12 DEF ParseFails, Fault
  <2> QED
    BY <1>3, <1>12, <2>1, <2>2 DEF ParseFails
<1>13. ASSUME NEW t \in Task, Normalize(t) PROVE TypeOK'
  <2>1. task[t].page \in Page /\ task[t].item \in Item
    BY <1>13, TaskTypes
    DEF Normalize, At, StageInv, ToArchive, ToSnapshot, ToParse, ToNormalize
  <2>2. Normalized(task[t].page) \in Revision
    BY <2>1 DEF Normalized, Revision
  <2>3. contents' \in [Item -> Seq(Revision)]
    BY <1>13, <2>2, AppendFacts DEF Normalize
  <2> QED
    BY <1>2, <1>13, <2>3 DEF Normalize, At
<1>14. ASSUME NEW t \in Task, Settle(t) \/ Done(t) PROVE TypeOK'
  <2>1. fetchState' \in [Item -> {"absent", "discovered", "fetched", "failed"}]
    BY <1>14 DEF Settle, Done
  <2>2. pc' \in [Task -> {"none", "pending", "fetch", "archive", "snapshot",
                          "parse", "normalize", "mark", "settle", "done"}]
    BY <1>14 DEF Settle, Done, At
  <2> QED
    BY <1>2, <1>14, <2>1, <2>2 DEF Settle, Done
<1>15. ASSUME NEW t \in Task, FetchFails(t) \/ CallFails(t) PROVE TypeOK'
  <2>1. fetchState' \in [Item -> {"absent", "discovered", "fetched", "failed"}]
    BY <1>15 DEF FetchFails, CallFails
  <2>2. faults' \in 0 .. MaxFaults
    BY <1>1, <1>15 DEF FetchFails, CallFails, Fault
  <2> QED
    BY <1>3, <1>15, <2>1, <2>2 DEF FetchFails, CallFails
<1>16. ASSUME NEW i \in Item, Expire(i) PROVE TypeOK'
  BY <1>2, <1>16 DEF Expire
<1>17. ASSUME NEW i \in Item, Edit(i) PROVE TypeOK'
  <2>1. upstream' \in [Item -> Page]
    BY <1>1, <1>17 DEF Edit, Page
  <2> QED
    BY <1>2, <1>17, <2>1 DEF Edit
<1>18. ASSUME NEW i \in Item, Ingest(i) PROVE TypeOK'
  <2>1. fetchState' \in [Item -> {"absent", "discovered", "fetched", "failed"}]
    BY <1>18 DEF Ingest, Upsert
  <2>2. ingests' \in 0 .. MaxCommands
    BY <1>1, <1>18 DEF Ingest
  <2>3. PICK t \in Task :
            /\ pc' = [pc EXCEPT ![t] = "pending"]
            /\ task' = [task EXCEPT ![t] = [item |-> i, unique |-> FALSE,
                                            retried |-> 0, page |-> 0]]
            /\ \A u \in Task : task'[u].retried <= Retries(u)'
    BY <1>18, PushFacts DEF Ingest
  <2> QED
    BY <1>18, <2>1, <2>2, <2>3 DEF Ingest
<1>19. ASSUME NEW i \in Item, NEW status \in {"published", "hidden"}, Moderate(i, status)
       PROVE  TypeOK'
  <2> DEFINE r == [page |-> contents[i][Len(contents[i])].page, status |-> status,
                   event |-> IF status = "hidden" THEN "delete" ELSE "upsert"]
  <2>1. contents[i] \in Seq(Revision) /\ contents[i] # <<>>
    BY <1>19 DEF Moderate
  <2>2. contents[i][Len(contents[i])] \in Revision
    BY <2>1
  <2>3. r \in Revision
    BY <2>2 DEF Revision
  <2>4. contents' = [contents EXCEPT ![i] = Append(contents[i], r)]
    BY <1>19 DEF Moderate
  <2>5. contents' \in [Item -> Seq(Revision)]
    <3> HIDE DEF r
    <3> QED
      BY <2>1, <2>3, <2>4, AppendFacts
  <2>6. moderations' \in 0 .. MaxCommands
    BY <1>1, <1>19 DEF Moderate
  <2> QED
    BY <1>2, <1>19, <2>5, <2>6 DEF Moderate
<1>20. CASE UNCHANGED vars
  BY <1>2, <1>20 DEF vars
<1> QED
  BY <1>4, <1>5, <1>6, <1>7, <1>8, <1>9, <1>10, <1>11, <1>12, <1>13, <1>14, <1>15,
     <1>16, <1>17, <1>18, <1>19, <1>20
  DEF Next, Run, Process

-----------------------------------------------------------------------------
\* What a step does to a task: nothing, or the next call of its pipeline, or it
\* sends the task back to a place where nothing is known of it.
LEMMA TaskFrame ==
    ASSUME ArchiveInv, [Next]_vars, NEW t \in Task
    PROVE  \/ pc'[t] = pc[t] /\ task'[t] = task[t]
           \/ pc'[t] \in {"none", "pending", "fetch"}
           \/ Fetch(t) \/ Archive(t) \/ Snapshot(t) \/ Parse(t)
           \/ Normalize(t) \/ MarkParsed(t) \/ Settle(t)
<1> DEFINE Goal == \/ pc'[t] = pc[t] /\ task'[t] = task[t]
                   \/ pc'[t] \in {"none", "pending", "fetch"}
                   \/ Fetch(t) \/ Archive(t) \/ Snapshot(t) \/ Parse(t)
                   \/ Normalize(t) \/ MarkParsed(t) \/ Settle(t)
<1>0. TypeOK /\ pc \in [Task -> Stage] /\ task \in [Task -> TaskRow]
  BY TaskTypes DEF ArchiveInv
<1>1. ASSUME UNCHANGED <<pc, task>> PROVE Goal
  BY <1>1
<1>2. ASSUME NEW i \in Item, NEW unique \in BOOLEAN, Push(i, unique) PROVE Goal
  BY <1>0, <1>2, PushFacts
<1>3. ASSUME NEW u \in Task, Retry(u) PROVE Goal
  BY <1>0, <1>3, RetryFacts
<1>4. ASSUME NEW u \in Task,
             \/ Start(u) \/ Fetch(u) \/ Archive(u) \/ Snapshot(u) \/ Parse(u)
             \/ Normalize(u) \/ MarkParsed(u) \/ Settle(u) \/ Done(u)
      PROVE  Goal
  <2>1. CASE u = t
    BY <1>0, <1>4, <2>1 DEF Start, Done, At
  <2>2. CASE u # t
    BY <1>0, <1>4, <2>2 DEF Start, Fetch, Archive, Snapshot, Parse, Normalize,
                            MarkParsed, Settle, Done, At
  <2> QED
    BY <2>1, <2>2
<1>5. ASSUME NEW u \in Task, ParseFails(u) \/ FetchFails(u) \/ CallFails(u) PROVE Goal
  BY <1>3, <1>5 DEF ParseFails, FetchFails, CallFails
<1>6. ASSUME NEW d \in Discovery, Run(d) \/ RunFails(d) PROVE Goal
  <2>1. ASSUME NEW i \in seen[d], Push(i, TRUE) PROVE Goal
    BY <1>0, <1>2, <2>1 DEF TypeOK
  <2> QED
    BY <1>1, <1>6, <2>1 DEF Run, RunFails, BeginRun, Record, Enqueue
<1>7. ASSUME NEW i \in Item,
             \/ Expire(i) \/ Edit(i)
             \/ \E status \in {"published", "hidden"} : Moderate(i, status)
      PROVE  Goal
  BY <1>1, <1>7 DEF Expire, Edit, Moderate
<1>8. ASSUME NEW i \in Item, Ingest(i) PROVE Goal
  <2>1. Push(i, FALSE)
    BY <1>8 DEF Ingest
  <2> QED
    BY <1>0, <2>1, PushFacts
<1>9. ASSUME UNCHANGED vars PROVE Goal
  BY <1>1, <1>9 DEF vars
<1> HIDE DEF Goal
<1>10. ASSUME NEW u \in Task, Start(u) \/ Process(u) \/ FetchFails(u) \/ CallFails(u)
       PROVE  Goal
  <2>1. CASE Start(u)
    BY <1>4, <2>1
  <2>2. CASE Process(u)
    <3>1. CASE ParseFails(u)
      BY <1>5, <3>1
    <3>2. CASE ~ ParseFails(u)
      BY <1>4, <2>2, <3>2 DEF Process
    <3> QED
      BY <3>1, <3>2
  <2>3. CASE FetchFails(u) \/ CallFails(u)
    BY <1>5, <2>3
  <2> QED
    BY <1>10, <2>1, <2>2, <2>3
<1>11. Goal
  BY <1>6, <1>7, <1>8, <1>9, <1>10 DEF Next
<1> QED
  BY <1>11 DEF Goal

\* The archive only grows.
LEMMA ObjectFrame ==
    ASSUME ArchiveInv, [Next]_vars, NEW i \in Item
    PROVE  objects[i] \subseteq objects'[i]
<1>1. ASSUME NEW t \in Task, Archive(t) PROVE objects[i] \subseteq objects'[i]
  BY <1>1 DEF ArchiveInv, TypeOK, Archive
<1>2. UNCHANGED objects \/ \E t \in Task : Archive(t)
  BY DEF Next, Run, Process, vars, store, BeginRun, Record, Enqueue, RunFails, Start,
         Fetch, FetchFails, Snapshot, Parse, ParseFails, Normalize, MarkParsed, Settle,
         Done, CallFails, Expire, Edit, Ingest, Moderate
<1> QED
  BY <1>1, <1>2

\* A snapshot row is entered as pending, fails for a page the parser refuses, and
\* is parsed when a task has made a revision of the page.
LEMMA SnapshotFrame ==
    ASSUME ArchiveInv, [Next]_vars, NEW i \in Item, NEW p \in Page
    PROVE  \/ snapshots'[i][p] = snapshots[i][p]
           \/ snapshots[i][p] = "absent" /\ snapshots'[i][p] = "pending"
           \/ p \in Broken /\ snapshots'[i][p] = "failed"
           \/ /\ snapshots'[i][p] = "parsed"
              /\ \E t \in Task : pc[t] = "mark" /\ task[t].item = i /\ task[t].page = p
<1>0. TypeOK /\ StageInv
  BY DEF ArchiveInv
<1> USE <1>0
<1>1. ASSUME NEW t \in Task, Snapshot(t)
      PROVE  \/ snapshots'[i][p] = snapshots[i][p]
             \/ snapshots[i][p] = "absent" /\ snapshots'[i][p] = "pending"
  <2>1. pc[t] = "snapshot"
    BY <1>1 DEF Snapshot, At
  <2>2. PICK j \in Item, q \in Page : j = task[t].item /\ q = task[t].page
    BY <2>1, SnapshotWrites DEF ToArchive, ToSnapshot
  <2>3. PICK v \in ParseState :
            /\ v = IF snapshots[j][q] = "absent" THEN "pending" ELSE snapshots[j][q]
            /\ WritesRow(j, q, v)
    BY <1>1, <2>2, SnapshotWrites
  <2>4. /\ snapshots'[j][q] = v
        /\ j # i \/ q # p => snapshots'[i][p] = snapshots[i][p]
    BY <2>3, SnapshotFacts
  <2> QED
    BY <2>3, <2>4
<1>2. ASSUME NEW t \in Task, MarkParsed(t)
      PROVE  \/ snapshots'[i][p] = snapshots[i][p]
             \/ /\ snapshots'[i][p] = "parsed"
                /\ pc[t] = "mark" /\ task[t].item = i /\ task[t].page = p
  <2>1. pc[t] = "mark"
    BY <1>2 DEF MarkParsed, At
  <2>2. "parsed" \in ParseState /\ task[t].item \in Item /\ task[t].page \in Page
    BY <2>1, SnapshotWrites
    DEF ParseState, ToArchive, ToSnapshot, ToParse, ToNormalize, ToMark
  <2>3. WritesRow(task[t].item, task[t].page, "parsed")
    BY <1>2, SnapshotWrites
  <2> QED
    BY <2>1, <2>2, <2>3, SnapshotFacts
<1>3. ASSUME NEW t \in Task, ParseFails(t)
      PROVE  \/ snapshots'[i][p] = snapshots[i][p]
             \/ p \in Broken /\ snapshots'[i][p] = "failed"
  <2>1. pc[t] = "parse" /\ task[t].page \in Broken
    BY <1>3 DEF ParseFails
  <2>2. "failed" \in ParseState /\ task[t].item \in Item /\ task[t].page \in Page
    BY <2>1, SnapshotWrites DEF ParseState, ToArchive, ToSnapshot, ToParse
  <2>3. \/ UNCHANGED snapshots
        \/ WritesRow(task[t].item, task[t].page, "failed")
    BY <1>3, SnapshotWrites
  <2> QED
    BY <2>1, <2>2, <2>3, SnapshotFacts
<1>4. \/ UNCHANGED snapshots
      \/ \E t \in Task : Snapshot(t) \/ MarkParsed(t) \/ ParseFails(t)
  BY DEF Next, Run, Process, vars, store, BeginRun, Record, Enqueue, RunFails, Start,
         Fetch, FetchFails, Archive, Parse, Normalize, Settle, Done, CallFails, Expire,
         Edit, Ingest, Moderate
<1> QED
  BY <1>1, <1>2, <1>3, <1>4

\* A revision is made by a task from its page, or by the operator from the last
\* revision there is.
LEMMA ContentFrame ==
    ASSUME ArchiveInv, [Next]_vars, NEW i \in Item
    PROVE  \/ contents'[i] = contents[i]
           \/ \E r \in Revision :
                  /\ contents'[i] = Append(contents[i], r)
                  /\ \/ \E t \in Task : /\ Normalize(t) /\ task[t].item = i
                                        /\ r.page = task[t].page
                     \/ \E n \in 1 .. Len(contents[i]) :
                            n = Len(contents[i]) /\ r.page = contents[i][n].page
<1>0. TypeOK /\ StageInv /\ contents[i] \in Seq(Revision)
  BY DEF ArchiveInv, TypeOK
<1>1. ASSUME NEW t \in Task, Normalize(t), task[t].item = i
      PROVE  \E r \in Revision :
                 contents'[i] = Append(contents[i], r) /\ r.page = task[t].page
  <2>1. task[t].page \in Page
    BY <1>0, <1>1 DEF Normalize, At, StageInv, ToArchive, ToSnapshot, ToParse, ToNormalize
  <2>2. Normalized(task[t].page) \in Revision
    BY <2>1 DEF Normalized, Revision
  <2>3. Normalized(task[t].page).page = task[t].page
    BY DEF Normalized
  <2>4. contents'[i] = Append(contents[i], Normalized(task[t].page))
    BY <1>0, <1>1 DEF Normalize, TypeOK
  <2> QED
    BY <2>2, <2>3, <2>4
<1>2. ASSUME NEW t \in Task, Normalize(t), task[t].item # i
      PROVE  contents'[i] = contents[i]
  BY <1>0, <1>2 DEF Normalize, TypeOK
<1>3. ASSUME NEW status \in {"published", "hidden"}, Moderate(i, status)
      PROVE  \E r \in Revision :
                 /\ contents'[i] = Append(contents[i], r)
                 /\ \E n \in 1 .. Len(contents[i]) :
                        n = Len(contents[i]) /\ r.page = contents[i][n].page
  <2> DEFINE r == [page |-> contents[i][Len(contents[i])].page, status |-> status,
                   event |-> IF status = "hidden" THEN "delete" ELSE "upsert"]
  <2>1. contents[i] # <<>>
    BY <1>3 DEF Moderate
  <2>2. Len(contents[i]) \in 1 .. Len(contents[i])
    BY <1>0, <2>1
  <2>3. contents[i][Len(contents[i])] \in Revision
    BY <1>0, <2>2
  <2>4. r \in Revision /\ r.page = contents[i][Len(contents[i])].page
    BY <2>3 DEF Revision
  <2>5. contents'[i] = Append(contents[i], r)
    BY <1>0, <1>3 DEF Moderate, TypeOK
  <2> HIDE DEF r
  <2> QED
    BY <2>2, <2>4, <2>5
<1>4. ASSUME NEW j \in Item, j # i, NEW status \in {"published", "hidden"},
             Moderate(j, status)
      PROVE  contents'[i] = contents[i]
  BY <1>0, <1>4 DEF Moderate, TypeOK
<1>5. \/ UNCHANGED contents
      \/ \E t \in Task : Normalize(t)
      \/ \E j \in Item, status \in {"published", "hidden"} : Moderate(j, status)
  BY DEF Next, Run, Process, vars, store, BeginRun, Record, Enqueue, RunFails, Start,
         Fetch, FetchFails, Archive, Snapshot, Parse, ParseFails, MarkParsed, Settle,
         Done, CallFails, Expire, Edit, Ingest
<1> QED
  BY <1>1, <1>2, <1>3, <1>4, <1>5

\* Pages that became revisions stay revisions.
LEMMA TakenStays ==
    ASSUME ArchiveInv, [Next]_vars, NEW i \in Item, NEW p, Taken(i, p)
    PROVE  Taken(i, p)'
<1>1. contents[i] \in Seq(Revision)
  BY DEF ArchiveInv, TypeOK
<1>2. PICK n \in 1 .. Len(contents[i]) : contents[i][n].page = p
  BY DEF Taken
<1>3. ASSUME NEW r \in Revision, contents'[i] = Append(contents[i], r)
      PROVE  n \in 1 .. Len(contents'[i]) /\ contents'[i][n].page = p
  BY <1>1, <1>2, <1>3, AppendFacts
<1> QED
  BY <1>2, <1>3, ContentFrame DEF Taken

-----------------------------------------------------------------------------
\* Initially there are no tasks and no revisions.
LEMMA ArchiveInit == Init => ArchiveInv
<1> SUFFICES ASSUME Init PROVE ArchiveInv
  OBVIOUS
<1>1. /\ LastPage \in Nat \ {0} /\ Item # {}
      /\ MaxCommands \in Nat /\ MaxFaults \in Nat
      /\ CrawlRetries \in Nat /\ IngestRetries \in Nat
  BY PageAssumption, LimitsAssumption
<1>2. (CHOOSE i \in Item : TRUE) \in Item
  BY <1>1
<1>3. task \in [Task -> TaskRow] /\ \A t \in Task : task[t].retried <= Retries(t)
  BY <1>1, <1>2 DEF Init, TaskRow, Retries
<1>4. contents \in [Item -> Seq(Revision)]
  BY DEF Init
<1>5. 1 \in Page
  BY <1>1 DEF Page
<1>6. TypeOK
  BY <1>1, <1>3, <1>4, <1>5 DEF Init, TypeOK, TaskRow
<1>7. StageInv /\ FailedInv
  BY DEF Init, StageInv, FailedInv, ToArchive, ToSnapshot, ToParse, ToNormalize, ToMark,
         ToSettle
<1>8. RevisionsAreArchived /\ FetchedMeansTaken
  BY DEF Init, RevisionsAreArchived, FetchedMeansTaken
<1> QED
  BY <1>6, <1>7, <1>8 DEF ArchiveInv

\* Every step keeps what the stages of the tasks rely on.
LEMMA StageStep == ArchiveInv /\ [Next]_vars => StageInv'
<1> SUFFICES ASSUME ArchiveInv, [Next]_vars, NEW t \in Task
             PROVE  /\ pc'[t] \in ToArchive => task'[t].page \in Page
                    /\ pc'[t] \in ToSnapshot => task'[t].page \in objects'[task'[t].item]
                    /\ pc'[t] \in ToParse =>
                           snapshots'[task'[t].item][task'[t].page] # "absent"
                    /\ pc'[t] \in ToNormalize => task'[t].page \notin Broken
                    /\ pc'[t] \in ToMark =>
                           \E n \in 1 .. Len(contents'[task'[t].item]) :
                               contents'[task'[t].item][n].page = task'[t].page
                    /\ pc'[t] \in ToSettle =>
                           snapshots'[task'[t].item][task'[t].page] = "parsed"
  BY DEF StageInv, Taken
<1>0. /\ TypeOK /\ StageInv /\ FetchedMeansTaken /\ RevisionsAreArchived
      /\ pc \in [Task -> Stage] /\ task \in [Task -> TaskRow] /\ task[t].item \in Item
  BY TaskTypes DEF ArchiveInv
<1> PICK i, p : i = task[t].item /\ p = task[t].page
  OBVIOUS
<1>1. i \in Item /\ p \in Page \cup {0} /\ (pc[t] \in ToArchive => p \in Page)
  BY <1>0, TaskTypes DEF StageInv
<1>2. p \in objects[i] => p \in objects'[i]
  BY <1>1, ObjectFrame
<1>3. p \in Page /\ snapshots[i][p] # "absent" => snapshots'[i][p] # "absent"
  BY <1>1, SnapshotFrame
<1>4. p \in Page /\ snapshots[i][p] = "parsed" => snapshots'[i][p] = "parsed"
  <2>1. p \in Page /\ snapshots[i][p] = "parsed" => p \notin Broken
    BY <1>0, <1>1 DEF FetchedMeansTaken, RevisionsAreArchived
  <2> QED
    BY <1>1, <2>1, SnapshotFrame
<1>5. Taken(i, p) => \E n \in 1 .. Len(contents'[i]) : contents'[i][n].page = p
  BY <1>1, TakenStays DEF Taken
<1> USE DEF ToArchive, ToSnapshot, ToParse, ToNormalize, ToMark, ToSettle
<1>6. CASE pc'[t] = pc[t] /\ task'[t] = task[t]
  BY <1>0, <1>1, <1>2, <1>3, <1>4, <1>5, <1>6 DEF StageInv
<1>7. CASE pc'[t] \in {"none", "pending", "fetch"}
  BY <1>7
<1>8. CASE Fetch(t)
  <2>1. pc'[t] = "archive"
    BY <1>0, <1>8 DEF Fetch, At
  <2>2. task'[t].page = upstream[i]
    BY <1>0, <1>8 DEF Fetch, TaskRow
  <2> QED
    BY <1>0, <1>1, <2>1, <2>2 DEF TypeOK
<1>9. CASE Archive(t)
  <2>1. pc'[t] = "snapshot" /\ pc[t] = "archive" /\ UNCHANGED task
    BY <1>0, <1>9 DEF Archive, At
  <2>2. p \in objects'[i]
    BY <1>0, <1>1, <1>9 DEF Archive, TypeOK
  <2> QED
    BY <1>1, <2>1, <2>2
<1>10. CASE Snapshot(t)
  <2>1. pc'[t] = "parse" /\ pc[t] = "snapshot" /\ UNCHANGED task
    BY <1>0, <1>10 DEF Snapshot, At, store
  <2>2. PICK v \in ParseState :
            /\ v = IF snapshots[i][p] = "absent" THEN "pending" ELSE snapshots[i][p]
            /\ WritesRow(i, p, v)
    BY <1>0, <1>10, SnapshotWrites
  <2>3. v # "absent"
    BY <2>2
  <2>4. snapshots'[i][p] = v
    <3>1. TypeOK /\ i \in Item /\ p \in Page
      BY <1>0, <1>1, <2>1
    <3> QED
      BY <2>2, <3>1, SnapshotFacts
  <2> QED
    BY <1>0, <1>1, <1>2, <2>1, <2>3, <2>4 DEF StageInv
<1>11. CASE Parse(t)
  <2>1. pc'[t] = "normalize" /\ pc[t] = "parse" /\ UNCHANGED task /\ p \notin Broken
    BY <1>0, <1>11 DEF Parse, At
  <2> QED
    BY <1>0, <1>1, <1>2, <1>3, <2>1 DEF StageInv
<1>12. CASE Normalize(t)
  <2>1. pc'[t] = "mark" /\ pc[t] = "normalize" /\ UNCHANGED task
    BY <1>0, <1>12 DEF Normalize, At
  <2>2. contents'[i] = Append(contents[i], Normalized(p)) /\ contents[i] \in Seq(Revision)
    BY <1>0, <1>1, <1>12 DEF Normalize, TypeOK
  <2>3. Normalized(p) \in Revision /\ Normalized(p).page = p
    BY <1>1, <2>1 DEF Normalized, Revision
  <2>4. /\ Len(contents[i]) + 1 \in 1 .. Len(contents'[i])
        /\ contents'[i][Len(contents[i]) + 1] = Normalized(p)
    BY <2>2, <2>3, AppendFacts
  <2> QED
    BY <1>0, <1>1, <1>2, <1>3, <2>1, <2>3, <2>4 DEF StageInv
<1>13. CASE MarkParsed(t)
  <2>1. pc'[t] = "settle" /\ pc[t] = "mark" /\ UNCHANGED task
    BY <1>0, <1>13 DEF MarkParsed, At
  <2>2. "parsed" \in ParseState /\ WritesRow(i, p, "parsed")
    BY <1>0, <1>13, SnapshotWrites DEF ParseState
  <2>3. snapshots'[i][p] = "parsed"
    <3>1. TypeOK /\ i \in Item /\ p \in Page
      BY <1>0, <1>1, <2>1
    <3> QED
      BY <2>2, <3>1, SnapshotFacts
  <2> QED
    BY <1>0, <1>1, <1>2, <1>3, <1>5, <2>1, <2>3 DEF StageInv
<1>14. CASE Settle(t)
  <2>1. pc'[t] = "done" /\ pc[t] = "settle" /\ UNCHANGED task
    BY <1>0, <1>14 DEF Settle, At
  <2> QED
    BY <1>0, <1>1, <1>2, <1>3, <1>4, <1>5, <2>1 DEF StageInv
<1> QED
  BY <1>6, <1>7, <1>8, <1>9, <1>10, <1>11, <1>12, <1>13, <1>14, TaskFrame

\* Every step keeps the revisions replayable.
LEMMA ReplayStep == ArchiveInv /\ [Next]_vars => FailedInv' /\ RevisionsAreArchived'
<1> SUFFICES ASSUME ArchiveInv, [Next]_vars PROVE FailedInv' /\ RevisionsAreArchived'
  OBVIOUS
<1>0. TypeOK /\ StageInv /\ FailedInv /\ RevisionsAreArchived
  BY DEF ArchiveInv
<1>1. FailedInv'
  BY <1>0, SnapshotFrame DEF FailedInv
<1>2. ASSUME NEW i \in Item, NEW p \in Page, p \in objects[i],
             snapshots[i][p] \in {"pending", "parsed"}, p \notin Broken
      PROVE  p \in objects'[i] /\ snapshots'[i][p] \in {"pending", "parsed"}
  BY <1>2, ObjectFrame, SnapshotFrame
<1>3. ASSUME NEW i \in Item, NEW n \in 1 .. Len(contents'[i])
      PROVE  LET p == contents'[i][n].page
             IN  /\ p \in objects'[i]
                 /\ snapshots'[i][p] \in {"pending", "parsed"}
                 /\ p \notin Broken
  <2>0. contents[i] \in Seq(Revision)
    BY <1>0 DEF TypeOK
  <2>1. ASSUME NEW m \in 1 .. Len(contents[i]), contents'[i][n].page = contents[i][m].page
        PROVE  LET p == contents'[i][n].page
               IN  /\ p \in objects'[i]
                   /\ snapshots'[i][p] \in {"pending", "parsed"}
                   /\ p \notin Broken
    <3>1. contents[i][m] \in Revision
      BY <2>0
    <3>2. contents[i][m].page \in Page
      BY <3>1 DEF Revision
    <3> QED
      BY <1>0, <1>2, <2>1, <3>2 DEF RevisionsAreArchived
  <2>2. ASSUME NEW r \in Revision, contents'[i] = Append(contents[i], r),
               NEW t \in Task, Normalize(t), task[t].item = i, r.page = task[t].page,
               n = Len(contents[i]) + 1
        PROVE  LET p == contents'[i][n].page
               IN  /\ p \in objects'[i]
                   /\ snapshots'[i][p] \in {"pending", "parsed"}
                   /\ p \notin Broken
    <3>1. pc[t] = "normalize"
      BY <2>2 DEF Normalize, At
    <3>2. /\ r.page \in Page /\ r.page \in objects[i] /\ r.page \notin Broken
          /\ snapshots[i][r.page] # "absent"
      BY <1>0, <2>2, <3>1
      DEF StageInv, ToArchive, ToSnapshot, ToParse, ToNormalize
    <3>3. snapshots[i][r.page] \in {"pending", "parsed"}
      BY <1>0, <3>2 DEF FailedInv, TypeOK
    <3>4. contents'[i][n].page = r.page
      BY <2>0, <2>2, AppendFacts
    <3> QED
      BY <1>2, <3>2, <3>3, <3>4
  <2>3. CASE contents'[i] = contents[i]
    BY <2>1, <2>3
  <2>4. ASSUME NEW r \in Revision, contents'[i] = Append(contents[i], r)
        PROVE  /\ n \in 1 .. Len(contents[i]) \/ n = Len(contents[i]) + 1
               /\ n \in 1 .. Len(contents[i]) => contents'[i][n] = contents[i][n]
               /\ n = Len(contents[i]) + 1 => contents'[i][n] = r
    BY <2>0, <2>4, AppendFacts
  <2> QED
    BY <2>1, <2>2, <2>3, <2>4, ContentFrame
<1> QED
  BY <1>1, <1>3 DEF RevisionsAreArchived

\* An item becomes fetched at the end of a pipeline only.
LEMMA FetchFrame ==
    ASSUME ArchiveInv, [Next]_vars, NEW i \in Item, fetchState'[i] = "fetched"
    PROVE  \/ fetchState[i] = "fetched"
           \/ \E t \in Task : pc[t] = "settle" /\ task[t].item = i
<1>0. TypeOK
  BY DEF ArchiveInv
<1>1. ASSUME NEW j \in Item, Upsert(j) PROVE fetchState[i] = "fetched"
  BY <1>0, <1>1 DEF Upsert, TypeOK
<1>2. ASSUME NEW t \in Task, Settle(t)
      PROVE  \/ fetchState[i] = "fetched"
             \/ pc[t] = "settle" /\ task[t].item = i
  BY <1>0, <1>2 DEF Settle, At, TypeOK
<1>3. ASSUME NEW t \in Task, FetchFails(t) PROVE fetchState[i] = "fetched"
  BY <1>0, <1>3 DEF FetchFails, TypeOK
<1>4. \/ UNCHANGED fetchState
      \/ \E j \in Item : Upsert(j)
      \/ \E t \in Task : Settle(t) \/ FetchFails(t)
  BY DEF Next, Run, Process, vars, store, BeginRun, Record, Enqueue, RunFails, Start,
         Fetch, Archive, Snapshot, Parse, ParseFails, Normalize, MarkParsed,
         Done, CallFails, Expire, Edit, Ingest, Moderate
<1> QED
  BY <1>1, <1>2, <1>3, <1>4

\* Every step keeps fetched items and parsed snapshots covered by revisions.
LEMMA TakenStep == ArchiveInv /\ [Next]_vars => FetchedMeansTaken'
<1> SUFFICES ASSUME ArchiveInv, [Next]_vars, NEW i \in Item
             PROVE  /\ fetchState'[i] = "fetched" => \E p \in Page : snapshots'[i][p] = "parsed"
                    /\ \A p \in Page : snapshots'[i][p] = "parsed" =>
                           \E n \in 1 .. Len(contents'[i]) : contents'[i][n].page = p
  BY DEF FetchedMeansTaken
<1>0. TypeOK /\ StageInv /\ FetchedMeansTaken /\ RevisionsAreArchived
  BY DEF ArchiveInv
<1>1. ASSUME NEW p \in Page, snapshots[i][p] = "parsed" PROVE snapshots'[i][p] = "parsed"
  <2>1. p \notin Broken
    BY <1>0, <1>1 DEF FetchedMeansTaken, RevisionsAreArchived
  <2> QED
    BY <1>1, <2>1, SnapshotFrame
<1>2. ASSUME fetchState'[i] = "fetched"
      PROVE  \E p \in Page : snapshots'[i][p] = "parsed"
  <2>1. CASE fetchState[i] = "fetched"
    BY <1>0, <1>1, <2>1 DEF FetchedMeansTaken
  <2>2. ASSUME NEW t \in Task, pc[t] = "settle", task[t].item = i
        PROVE  \E p \in Page : snapshots'[i][p] = "parsed"
    BY <1>0, <1>1, <2>2
    DEF StageInv, ToArchive, ToSnapshot, ToParse, ToNormalize, ToMark, ToSettle
  <2> QED
    BY <1>2, <2>1, <2>2, FetchFrame
<1>3. ASSUME NEW p \in Page, snapshots'[i][p] = "parsed"
      PROVE  \E n \in 1 .. Len(contents'[i]) : contents'[i][n].page = p
  <2>1. Taken(i, p)
    BY <1>0, <1>3, SnapshotFrame
    DEF StageInv, FetchedMeansTaken, Taken, ToMark, ToSettle
  <2> QED
    BY <2>1, TakenStays DEF Taken
<1> QED
  BY <1>2, <1>3

\* ArchiveInv holds in every reachable state.
THEOREM ArchiveInductive == Spec => []ArchiveInv
<1>1. ArchiveInv /\ [Next]_vars => ArchiveInv'
  BY TypeStep, StageStep, ReplayStep, TakenStep DEF ArchiveInv
<1> QED
  BY <1>1, ArchiveInit, PTL DEF Spec

\* Every revision was made from a page that is archived, has its snapshot and can
\* be parsed: Process archives first and normalises last.
THEOREM RevisionsReplay == Spec => []RevisionsAreArchived
<1>1. ArchiveInv => RevisionsAreArchived
  BY DEF ArchiveInv
<1> QED
  BY <1>1, ArchiveInductive, PTL

\* An item that no later discovery run enqueues has become a content.
THEOREM FetchedItemsAreTaken == Spec => []FetchedMeansTaken
<1>1. ArchiveInv => FetchedMeansTaken
  BY DEF ArchiveInv
<1> QED
  BY <1>1, ArchiveInductive, PTL
-----------------------------------------------------------------------------
\* While the operator has enqueued nothing, every task has the lock of its item,
\* so an item has one task.
QueueInv ==
    ingests = 0 =>
    \A t \in Task : Live(t) =>
        /\ task[t].unique /\ task[t].item \in locked
        /\ \A u \in Task : Live(u) /\ task[u].item = task[t].item => u = t

\* A page that a task has fetched, and has not normalised yet, is not older than
\* the revisions there are.
ToRevise == {"archive", "snapshot", "parse", "normalize"}

\* The order of the revisions while no ingest command was given.
OrderInv ==
    /\ \A i \in Item : \A n \in 1 .. Len(contents[i]) : contents[i][n].page <= upstream[i]
    /\ ingests = 0 =>
       \A t \in Task : pc[t] \in ToRevise =>
           \A n \in 1 .. Len(contents[task[t].item]) :
               contents[task[t].item][n].page <= task[t].page

\* A page is fetched from what VOA serves.
FetchedInv ==
    \A t \in Task : pc[t] \in ToArchive => task[t].page <= upstream[task[t].item]

\* The inductive invariant behind RevisionsNeverGoBack.
OrderedInv == ArchiveInv /\ QueueInv /\ FetchedInv /\ OrderInv /\ RevisionsNeverGoBack

\* An ingest command is never forgotten.
LEMMA IngestsCount == ArchiveInv /\ [Next]_vars /\ ingests' = 0 => ingests = 0
<1> SUFFICES ASSUME ArchiveInv, [Next]_vars, ingests' = 0 PROVE ingests = 0
  OBVIOUS
<1>1. ASSUME NEW i \in Item, Ingest(i) PROVE FALSE
  BY <1>1 DEF Ingest, ArchiveInv, TypeOK
<1>2. UNCHANGED ingests \/ \E i \in Item : Ingest(i)
  BY DEF Next, Run, Process, vars, bounds, BeginRun, Record, Enqueue, RunFails, Start,
         Fetch, FetchFails, Archive, Snapshot, Parse, ParseFails, Normalize, MarkParsed,
         Settle, Done, CallFails, Expire, Edit, Moderate
<1> QED
  BY <1>1, <1>2

\* What a step does to the queue: it keeps the live tasks that remain in their
\* items and locks, or discovery takes the lock of an item for a new task.
LEMMA QueueFrame ==
    ASSUME ArchiveInv, QueueInv, [Next]_vars, ingests' = 0
    PROVE  \/ \A t \in Task : Live(t)' =>
                  /\ Live(t) /\ task'[t].item = task[t].item
                  /\ task'[t].unique = task[t].unique /\ task[t].item \in locked'
           \/ \E i \in Item, t \in Task :
                  /\ i \notin locked /\ locked' = locked \cup {i}
                  /\ Live(t)' /\ task'[t].item = i /\ task'[t].unique
                  /\ \A u \in Task : u # t => pc'[u] = pc[u] /\ task'[u] = task[u]
<1> DEFINE Kept == \A t \in Task : Live(t)' =>
                       /\ Live(t) /\ task'[t].item = task[t].item
                       /\ task'[t].unique = task[t].unique /\ task[t].item \in locked'
           Added == \E i \in Item, t \in Task :
                        /\ i \notin locked /\ locked' = locked \cup {i}
                        /\ Live(t)' /\ task'[t].item = i /\ task'[t].unique
                        /\ \A u \in Task : u # t => pc'[u] = pc[u] /\ task'[u] = task[u]
<1>0. TypeOK /\ pc \in [Task -> Stage] /\ task \in [Task -> TaskRow]
  BY TaskTypes DEF ArchiveInv
<1>1. ASSUME NEW i \in Item, Ingest(i) PROVE FALSE
  BY <1>0, <1>1 DEF Ingest, TypeOK
<1>2. ingests = 0
  BY IngestsCount
<1>3. \A t \in Task : Live(t) => task[t].unique /\ task[t].item \in locked
  BY <1>2 DEF QueueInv
<1>4. ASSUME UNCHANGED <<pc, task, locked>> PROVE Kept
  BY <1>3, <1>4 DEF Live
<1>5. ASSUME NEW u \in Task, Retry(u), UNCHANGED locked, Live(u) PROVE Kept
  BY <1>0, <1>3, <1>5, RetryFacts DEF Live
<1>6. ASSUME NEW u \in Task,
             \/ Start(u) \/ Fetch(u) \/ Archive(u) \/ Snapshot(u) \/ Parse(u)
             \/ Normalize(u) \/ MarkParsed(u) \/ Settle(u)
      PROVE  Kept
  <2>1. /\ Live(u) /\ pc' = [pc EXCEPT ![u] = pc'[u]] /\ UNCHANGED locked
        /\ \/ UNCHANGED task
           \/ task' = [task EXCEPT ![u].page = upstream[task[u].item]]
    BY <1>0, <1>6 DEF Start, Fetch, Archive, Snapshot, Parse, Normalize, MarkParsed,
                      Settle, At, Live
  <2>2. \A t \in Task : /\ t # u => pc'[t] = pc[t]
                        /\ task'[t].item = task[t].item /\ task'[t].unique = task[t].unique
    BY <1>0, <2>1 DEF TaskRow
  <2> QED
    BY <1>3, <2>1, <2>2 DEF Live
<1>7. ASSUME NEW u \in Task, Done(u) PROVE Kept
  <2>1. /\ Live(u) /\ pc' = [pc EXCEPT ![u] = "none"] /\ UNCHANGED task
        /\ locked' \in {locked, locked \ {task[u].item}}
    BY <1>7 DEF Done, At, Live
  <2>2. \A t \in Task : Live(t)' => t # u /\ Live(t) /\ task[t].item # task[u].item
    BY <1>0, <1>2, <2>1 DEF Live, QueueInv
  <2> QED
    BY <1>3, <2>1, <2>2
<1>8. ASSUME NEW u \in Task, ParseFails(u) \/ FetchFails(u) \/ CallFails(u) PROVE Kept
  <2>1. Retry(u) /\ UNCHANGED locked /\ Live(u)
    BY <1>8 DEF ParseFails, FetchFails, CallFails, Live
  <2> QED
    BY <1>5, <2>1
<1>9. ASSUME NEW i \in Item, Expire(i) PROVE Kept
  BY <1>3, <1>9 DEF Expire, Live
<1>10. ASSUME NEW d \in Discovery, Enqueue(d) PROVE Kept \/ Added
  <2>1. PICK i \in seen[d] :
            IF i \in locked THEN UNCHANGED <<task, pc, locked>>
            ELSE Push(i, TRUE) /\ locked' = locked \cup {i}
    BY <1>10 DEF Enqueue
  <2>2. CASE i \in locked
    BY <1>4, <2>1, <2>2
  <2>3. CASE i \notin locked
    <3>1. i \in Item
      BY <1>0 DEF TypeOK
    <3>2. PICK t \in Task :
              /\ pc' = [pc EXCEPT ![t] = "pending"]
              /\ task' = [task EXCEPT ![t] = [item |-> i, unique |-> TRUE,
                                              retried |-> 0, page |-> 0]]
      BY <1>0, <2>1, <2>3, <3>1, PushFacts
    <3>3. /\ Live(t)' /\ task'[t].item = i /\ task'[t].unique
          /\ \A u \in Task : u # t => pc'[u] = pc[u] /\ task'[u] = task[u]
      BY <1>0, <3>2 DEF Live
    <3> QED
      BY <2>1, <2>3, <3>1, <3>3
  <2> QED
    BY <2>2, <2>3
<1>11. ASSUME NEW d \in Discovery, BeginRun(d) \/ RunFails(d) PROVE Kept
  BY <1>4, <1>11 DEF BeginRun, RunFails
<1>12. ASSUME NEW d \in Discovery, NEW i \in Item, Record(d, i) PROVE Kept
  BY <1>4, <1>12 DEF Record
<1>13. ASSUME NEW i \in Item, Edit(i) PROVE Kept
  BY <1>4, <1>13 DEF Edit
<1>14. ASSUME NEW i \in Item, NEW status \in {"published", "hidden"}, Moderate(i, status)
       PROVE  Kept
  BY <1>4, <1>14 DEF Moderate
<1>15. ASSUME UNCHANGED vars PROVE Kept
  BY <1>4, <1>15 DEF vars
<1> HIDE DEF Kept, Added
<1>16. ASSUME NEW u \in Task, Process(u) PROVE Kept
  <2>1. CASE ParseFails(u)
    BY <1>8, <2>1
  <2>2. CASE Done(u)
    BY <1>7, <2>2
  <2>3. CASE ~ ParseFails(u) /\ ~ Done(u)
    BY <1>6, <1>16, <2>3 DEF Process
  <2> QED
    BY <2>1, <2>2, <2>3
<1>17. ASSUME NEW u \in Task, Start(u) PROVE Kept
  BY <1>6, <1>17
<1>18. ASSUME NEW d \in Discovery, Run(d) PROVE Kept \/ Added
  BY <1>10, <1>11, <1>12, <1>18 DEF Run
<1>19. Kept \/ Added
  BY <1>1, <1>8, <1>9, <1>11, <1>13, <1>14, <1>15, <1>16, <1>17, <1>18 DEF Next
<1> QED
  BY <1>19 DEF Kept, Added

\* Every step keeps the tasks of discovery apart.
LEMMA QueueStep == ArchiveInv /\ QueueInv /\ [Next]_vars => QueueInv'
<1> SUFFICES ASSUME ArchiveInv, QueueInv, [Next]_vars, ingests' = 0,
                    NEW t \in Task, Live(t)'
             PROVE  /\ task'[t].unique /\ task'[t].item \in locked'
                    /\ \A u \in Task : Live(u)' /\ task'[u].item = task'[t].item => u = t
  BY DEF QueueInv, Live
<1>1. \A u \in Task : Live(u) =>
          /\ task[u].unique /\ task[u].item \in locked
          /\ \A v \in Task : Live(v) /\ task[v].item = task[u].item => v = u
  BY IngestsCount DEF QueueInv
<1>2. CASE \A u \in Task : Live(u)' =>
               /\ Live(u) /\ task'[u].item = task[u].item
               /\ task'[u].unique = task[u].unique /\ task[u].item \in locked'
  <2>1. /\ task'[t].unique /\ task'[t].item \in locked'
        /\ Live(t) /\ task'[t].item = task[t].item
    <3>1. task[t].unique /\ task'[t].unique = task[t].unique
      BY <1>1, <1>2
    <3> QED
      BY <1>2, <3>1
  <2>2. \A u \in Task : Live(u)' /\ task'[u].item = task'[t].item => u = t
    BY <1>1, <1>2, <2>1
  <2> QED
    BY <2>1, <2>2
<1>3. ASSUME NEW i \in Item, NEW s \in Task, i \notin locked, locked' = locked \cup {i},
             Live(s)', task'[s].item = i, task'[s].unique,
             \A u \in Task : u # s => pc'[u] = pc[u] /\ task'[u] = task[u]
      PROVE  /\ task'[t].unique /\ task'[t].item \in locked'
             /\ \A u \in Task : Live(u)' /\ task'[u].item = task'[t].item => u = t
  <2>1. \A u \in Task : u # s /\ Live(u)' =>
            Live(u) /\ task'[u] = task[u] /\ task[u].item \in locked /\ task[u].item # i
    BY <1>1, <1>3 DEF Live
  <2>2. CASE t = s
    BY <1>3, <2>1, <2>2
  <2>3. CASE t # s
    BY <1>1, <1>3, <2>1, <2>3
  <2> QED
    BY <2>2, <2>3
<1> QED
  BY <1>2, <1>3, QueueFrame

\* The publisher counts its pages up.
LEMMA UpstreamFrame ==
    ASSUME ArchiveInv, [Next]_vars, NEW i \in Item
    PROVE  upstream[i] \in Nat /\ upstream'[i] \in Nat /\ upstream[i] <= upstream'[i]
<1>1. upstream \in [Item -> Page] /\ upstream[i] \in Page /\ upstream[i] \in Nat
  BY PageAssumption DEF ArchiveInv, TypeOK, Page
<1>2. ASSUME NEW j \in Item, Edit(j)
      PROVE  upstream'[i] \in {upstream[i], upstream[i] + 1}
  BY <1>1, <1>2 DEF Edit
<1>3. UNCHANGED upstream \/ \E j \in Item : Edit(j)
  BY DEF Next, Run, Process, vars, BeginRun, Record, Enqueue, RunFails, Start,
         Fetch, FetchFails, Archive, Snapshot, Parse, ParseFails, Normalize, MarkParsed,
         Settle, Done, CallFails, Expire, Ingest, Moderate
<1> QED
  BY <1>1, <1>2, <1>3
\* Every step keeps the fetched pages behind the publisher's.
LEMMA FetchedStep == ArchiveInv /\ FetchedInv /\ [Next]_vars => FetchedInv'
<1> SUFFICES ASSUME ArchiveInv, FetchedInv, [Next]_vars, NEW t \in Task,
                    pc'[t] \in ToArchive
             PROVE  task'[t].page <= upstream'[task'[t].item]
  BY DEF FetchedInv
<1>0. /\ TypeOK /\ pc \in [Task -> Stage] /\ task \in [Task -> TaskRow]
      /\ task[t].item \in Item /\ task[t].page \in Page \cup {0}
      /\ \A q \in Page \cup {0} : q \in Nat
      /\ upstream[task[t].item] \in Page
  <2>1. TypeOK
    BY DEF ArchiveInv
  <2>2. /\ pc \in [Task -> Stage] /\ task \in [Task -> TaskRow]
        /\ task[t].item \in Item /\ task[t].page \in Page \cup {0}
    BY <2>1, TaskTypes
  <2>3. \A q \in Page \cup {0} : q \in Nat
    BY PageAssumption DEF Page
  <2>4. \A i \in Item : upstream[i] \in Page
    BY <2>1 DEF TypeOK
  <2> QED
    BY <2>1, <2>2, <2>3, <2>4
<1> PICK i : i = task[t].item
  OBVIOUS
<1>1. /\ upstream[i] \in Nat /\ upstream'[i] \in Nat /\ upstream[i] <= upstream'[i]
  BY <1>0, UpstreamFrame
<1>2. ASSUME pc[t] \in ToArchive, task'[t] = task[t] PROVE task'[t].page <= upstream'[i]
  <2>1. task[t].page <= upstream[i]
    BY <1>2 DEF FetchedInv
  <2>2. PICK p \in Nat, u \in Nat, v \in Nat :
            p = task[t].page /\ u = upstream[i] /\ v = upstream'[i]
    BY <1>0, <1>1
  <2> QED
    BY <1>1, <1>2, <2>1, <2>2
<1>3. CASE Fetch(t)
  <2>1. task'[t].page = upstream[i] /\ task'[t].item = i
    BY <1>0, <1>3 DEF Fetch, TaskRow
  <2> QED
    BY <1>1, <2>1
<1>4. CASE \/ Archive(t) \/ Snapshot(t) \/ Parse(t) \/ Normalize(t) \/ MarkParsed(t)
           \/ Settle(t)
  <2>1. pc[t] \in ToArchive /\ task'[t] = task[t]
    BY <1>4 DEF Archive, Snapshot, Parse, Normalize, MarkParsed, Settle, At, ToArchive,
                ToSnapshot, ToParse, ToNormalize, ToMark, ToSettle
  <2> QED
    BY <1>2, <2>1
<1>5. pc'[t] \notin {"none", "pending", "fetch"}
  BY DEF ToArchive, ToSnapshot, ToParse, ToNormalize, ToMark, ToSettle
<1>6. CASE pc'[t] = pc[t] /\ task'[t] = task[t]
  BY <1>2, <1>6
<1> QED
  BY <1>3, <1>4, <1>5, <1>6, TaskFrame

\* Numbers that the order of pages is about.
LEMMA PageFacts ==
    ASSUME ArchiveInv, NEW i \in Item
    PROVE  /\ contents[i] \in Seq(Revision) /\ Len(contents[i]) \in Nat
           /\ \A n \in 1 .. Len(contents[i]) :
                  contents[i][n].page \in Page /\ contents[i][n].page \in Nat
           /\ \A t \in Task : task[t].page \in Nat
<1>1. contents[i] \in Seq(Revision) /\ \A q \in Page \cup {0} : q \in Nat
  BY DEF ArchiveInv, TypeOK, Page
<1>2. \A n \in 1 .. Len(contents[i]) : contents[i][n] \in Revision
  BY <1>1
<1>3. \A t \in Task : task[t].page \in Page \cup {0}
  BY TaskTypes DEF ArchiveInv
<1> QED
  BY <1>1, <1>2, <1>3 DEF Revision

\* A revision that is added is made from a page that is not older than the
\* revisions there are and not newer than what VOA serves.
LEMMA NewestFrame ==
    ASSUME OrderedInv, [Next]_vars, NEW i \in Item, contents'[i] # contents[i]
    PROVE  \E r \in Revision :
               /\ contents'[i] = Append(contents[i], r)
               /\ r.page \in Nat /\ r.page <= upstream[i]
               /\ ingests = 0 =>
                      \A n \in 1 .. Len(contents[i]) : contents[i][n].page <= r.page
               /\ \/ \E t \in Task : /\ Normalize(t) /\ task[t].item = i
                                     /\ r.page = task[t].page
                  \/ \E n \in 1 .. Len(contents[i]) : r.page = contents[i][n].page
<1>0. ArchiveInv /\ FetchedInv /\ OrderInv /\ RevisionsNeverGoBack
  BY DEF OrderedInv
<1>1. PICK r \in Revision :
          /\ contents'[i] = Append(contents[i], r)
          /\ \/ \E t \in Task : Normalize(t) /\ task[t].item = i /\ r.page = task[t].page
             \/ \E n \in 1 .. Len(contents[i]) :
                    n = Len(contents[i]) /\ r.page = contents[i][n].page
  BY <1>0, ContentFrame
<1>2. ASSUME NEW t \in Task, Normalize(t), task[t].item = i, r.page = task[t].page
      PROVE  /\ r.page \in Nat /\ r.page <= upstream[i]
             /\ ingests = 0 =>
                    \A n \in 1 .. Len(contents[i]) : contents[i][n].page <= r.page
  <2>1. pc[t] = "normalize" /\ pc[t] \in ToArchive /\ pc[t] \in ToRevise
    BY <1>2 DEF Normalize, At, ToArchive, ToSnapshot, ToParse, ToNormalize, ToRevise
  <2> QED
    BY <1>0, <1>2, <2>1, PageFacts DEF FetchedInv, OrderInv
<1>3. ASSUME NEW n \in 1 .. Len(contents[i]), n = Len(contents[i]),
             r.page = contents[i][n].page
      PROVE  /\ r.page \in Nat /\ r.page <= upstream[i]
             /\ ingests = 0 =>
                    \A m \in 1 .. Len(contents[i]) : contents[i][m].page <= r.page
  <2>1. r.page \in Nat /\ r.page <= upstream[i]
    BY <1>0, <1>3, PageFacts DEF OrderInv
  <2>2. ASSUME ingests = 0, NEW m \in 1 .. Len(contents[i])
        PROVE  contents[i][m].page <= r.page
    <3>1. m = n \/ m < n
      BY <1>0, <1>3, PageFacts
    <3> QED
      BY <1>0, <1>3, <2>2, <3>1, PageFacts DEF RevisionsNeverGoBack
  <2> QED
    BY <2>1, <2>2
<1> QED
  BY <1>1, <1>2, <1>3

\* Every step keeps the pages behind what VOA serves, and the page that a task is
\* to make a revision of in front of the revisions.
LEMMA OrderStep == OrderedInv /\ [Next]_vars => OrderInv'
<1> SUFFICES ASSUME OrderedInv, [Next]_vars PROVE OrderInv'
  OBVIOUS
<1>0. ArchiveInv /\ QueueInv /\ FetchedInv /\ OrderInv /\ RevisionsNeverGoBack
  BY DEF OrderedInv
<1>1. ASSUME NEW i \in Item, NEW n \in 1 .. Len(contents'[i])
      PROVE  contents'[i][n].page <= upstream'[i]
  <2>0. /\ upstream[i] \in Nat /\ upstream'[i] \in Nat /\ upstream[i] <= upstream'[i]
    BY <1>0, UpstreamFrame
  <2>1. CASE contents'[i] = contents[i]
    <3>1. /\ n \in 1 .. Len(contents[i])
          /\ contents[i][n].page <= upstream[i] /\ contents[i][n].page \in Nat
      BY <1>0, <2>1, PageFacts DEF OrderInv
    <3> QED
      BY <2>0, <2>1, <3>1
  <2>2. CASE contents'[i] # contents[i]
    <3>1. PICK r \in Revision : /\ contents'[i] = Append(contents[i], r)
                                /\ r.page \in Nat /\ r.page <= upstream[i]
      BY <2>2, NewestFrame
    <3>2. \/ n \in 1 .. Len(contents[i]) /\ contents'[i][n] = contents[i][n]
          \/ contents'[i][n] = r
      BY <1>0, <3>1, PageFacts, AppendFacts
    <3>3. CASE n \in 1 .. Len(contents[i]) /\ contents'[i][n] = contents[i][n]
      <4>1. contents[i][n].page <= upstream[i] /\ contents[i][n].page \in Nat
        BY <1>0, <3>3, PageFacts DEF OrderInv
      <4> QED
        BY <2>0, <3>3, <4>1
    <3>4. CASE contents'[i][n] = r
      BY <2>0, <3>1, <3>4
    <3> QED
      BY <3>2, <3>3, <3>4
  <2> QED
    BY <2>1, <2>2
<1>2. ASSUME ingests' = 0, NEW t \in Task, pc'[t] \in ToRevise,
             NEW n \in 1 .. Len(contents'[task'[t].item])
      PROVE  contents'[task'[t].item][n].page <= task'[t].page
  <2>0. /\ TypeOK /\ pc \in [Task -> Stage] /\ task \in [Task -> TaskRow]
        /\ task[t].item \in Item /\ task[t].page \in Nat /\ ingests = 0
    BY <1>0, <1>2, TaskTypes, IngestsCount, PageFacts DEF ArchiveInv
  <2> PICK i : i = task[t].item
    OBVIOUS
  <2>1. CASE Fetch(t)
    <3>1. task'[t].page = upstream[i] /\ task'[t].item = i /\ UNCHANGED contents
      BY <2>0, <2>1 DEF Fetch, TaskRow, store
    <3> QED
      BY <1>0, <1>2, <2>0, <3>1 DEF OrderInv
  <2>2. ASSUME pc[t] \in ToRevise, task'[t] = task[t], ~ Normalize(t)
        PROVE  contents'[task'[t].item][n].page <= task'[t].page
    <3>1. \A m \in 1 .. Len(contents[i]) : contents[i][m].page <= task[t].page
      BY <1>0, <2>0, <2>2 DEF OrderInv
    <3>2. CASE contents'[i] = contents[i]
      BY <1>2, <2>2, <3>1, <3>2
    <3>3. CASE contents'[i] # contents[i]
      <4>1. PICK r \in Revision :
                /\ contents'[i] = Append(contents[i], r)
                /\ \/ \E u \in Task : Normalize(u) /\ task[u].item = i
                   \/ \E m \in 1 .. Len(contents[i]) : r.page = contents[i][m].page
        BY <2>0, <3>3, NewestFrame
      <4>2. \A u \in Task : Normalize(u) /\ task[u].item = i => u = t
        <5>1. Live(t) /\ \A u \in Task : Normalize(u) => Live(u)
          BY <2>2 DEF Live, ToRevise, Normalize, At
        <5> QED
          BY <1>0, <2>0, <5>1 DEF QueueInv
      <4>3. PICK m \in 1 .. Len(contents[i]) : r.page = contents[i][m].page
        BY <2>2, <4>1, <4>2
      <4>4. \/ n \in 1 .. Len(contents[i]) /\ contents'[i][n] = contents[i][n]
            \/ contents'[i][n] = r
        BY <1>0, <1>2, <2>0, <2>2, <4>1, PageFacts, AppendFacts
      <4> QED
        BY <2>2, <3>1, <4>3, <4>4
    <3> QED
      BY <3>2, <3>3
  <2>3. CASE Archive(t) \/ Snapshot(t) \/ Parse(t)
    <3>1. pc[t] \in ToRevise /\ pc[t] # "normalize" /\ task'[t] = task[t]
      BY <2>3 DEF Archive, Snapshot, Parse, At, ToRevise
    <3> QED
      BY <2>2, <3>1 DEF Normalize, At
  <2>4. CASE Normalize(t) \/ MarkParsed(t) \/ Settle(t)
    BY <1>2, <2>0, <2>4 DEF Normalize, MarkParsed, Settle, At, ToRevise
  <2>5. CASE pc'[t] = pc[t] /\ task'[t] = task[t]
    <3>1. ~ Normalize(t)
      BY <2>0, <2>5 DEF Normalize, At
    <3> QED
      BY <1>2, <2>2, <2>5, <3>1
  <2>6. pc'[t] \notin {"none", "pending", "fetch"}
    BY <1>2 DEF ToRevise
  <2> QED
    BY <1>0, <2>1, <2>3, <2>4, <2>5, <2>6, TaskFrame
<1> QED
  BY <1>1, <1>2 DEF OrderInv

\* Every step keeps the revisions of a content in the order of their pages.
LEMMA NeverBackStep == OrderedInv /\ [Next]_vars => RevisionsNeverGoBack'
<1> SUFFICES ASSUME OrderedInv, [Next]_vars, ingests' = 0, NEW i \in Item,
                    NEW m \in 1 .. Len(contents'[i]), NEW n \in 1 .. Len(contents'[i]), m < n
             PROVE  contents'[i][m].page <= contents'[i][n].page
  BY DEF RevisionsNeverGoBack
<1>0. ArchiveInv /\ RevisionsNeverGoBack /\ ingests = 0
  BY IngestsCount DEF OrderedInv
<1>1. CASE contents'[i] = contents[i]
  BY <1>0, <1>1 DEF RevisionsNeverGoBack
<1>2. CASE contents'[i] # contents[i]
  <2>1. PICK r \in Revision :
            /\ contents'[i] = Append(contents[i], r)
            /\ \A k \in 1 .. Len(contents[i]) : contents[i][k].page <= r.page
    BY <1>0, <1>2, NewestFrame
  <2>2. /\ m \in 1 .. Len(contents[i]) /\ contents'[i][m] = contents[i][m]
        /\ \/ n \in 1 .. Len(contents[i]) /\ contents'[i][n] = contents[i][n]
           \/ contents'[i][n] = r
    BY <1>0, <2>1, PageFacts, AppendFacts
  <2> QED
    BY <1>0, <2>1, <2>2 DEF RevisionsNeverGoBack
<1> QED
  BY <1>1, <1>2

\* OrderedInv holds in every reachable state.
THEOREM OrderedInductive == Spec => []OrderedInv
<1>1. Init => OrderedInv
  <2> SUFFICES ASSUME Init PROVE OrderedInv
    OBVIOUS
  <2>1. \A t \in Task : ~ Live(t) /\ pc[t] \notin ToArchive /\ pc[t] \notin ToRevise
    BY DEF Init, Live, ToRevise, ToArchive, ToSnapshot, ToParse, ToNormalize, ToMark,
           ToSettle
  <2>2. \A i \in Item : contents[i] = <<>>
    BY DEF Init
  <2> QED
    BY <2>1, <2>2, ArchiveInit
    DEF OrderedInv, QueueInv, FetchedInv, OrderInv, RevisionsNeverGoBack
<1>2. ArchiveInv /\ [Next]_vars => ArchiveInv'
  BY TypeStep, StageStep, ReplayStep, TakenStep DEF ArchiveInv
<1>3. OrderedInv /\ [Next]_vars => OrderedInv'
  BY <1>2, QueueStep, FetchedStep, OrderStep, NeverBackStep DEF OrderedInv
<1> QED
  BY <1>1, <1>3, PTL DEF Spec

\* As long as nothing is enqueued by hand, the Unique option of discovery alone
\* keeps a content from falling back to an older page.
THEOREM ContentsNeverGoBack == Spec => []RevisionsNeverGoBack
<1>1. OrderedInv => RevisionsNeverGoBack
  BY DEF OrderedInv
<1> QED
  BY <1>1, OrderedInductive, PTL
=============================================================================

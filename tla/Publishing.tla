----------------------------- MODULE Publishing -----------------------------
(***************************************************************************)
(* The CMS publication service (internal/publishing/service.go) together   *)
(* with the operator's publish and hide commands (cmd/admin/main.go).      *)
(*                                                                         *)
(* Every POST /internal/v1/publications is a goroutine of its own.  It     *)
(* reads the idempotency ledger outside any transaction, streams the audio *)
(* into the object store, and then runs ONE database transaction that      *)
(* reserves the key, bumps the content's revision, appends a publish event *)
(* and completes the reservation.  What a transaction has written but not  *)
(* committed is kept in draft; a row it has written is locked until it     *)
(* ends, which is how PostgreSQL's READ COMMITTED makes the others wait.   *)
(* The identity column of publish_events hands out its numbers at INSERT   *)
(* time and never takes one back, so commit order may differ from them.    *)
(***************************************************************************)
EXTENDS Naturals

CONSTANTS
    Request,    \* CMS publication requests, one goroutine each
    AdminOp,    \* runs of the admin command, one process each
    Key,        \* idempotency keys
    Item,       \* source_items rows (source, canonical_url); one content each
    Digest,     \* SHA-256 digests, which stand for the bytes they are of
    Document,   \* the validated requests the CMS may send
    None        \* no row, no holder, no object, no answer

ASSUME DocumentAssumption ==
    Document \subseteq [key : Key, item : Item, sha : Digest, bytes : Digest]
ASSUME TxAssumption == Request \cap AdminOp = {}

Tx == Request \cup AdminOp

VARIABLES
    pc,             \* where each request's handler and each admin run stands
    req,            \* the document a request carries
    job,            \* what an admin run was asked to do
    answer,         \* what a request was answered
    objects,        \* objects[i][d]: bytes stored under item i's key for digest d
    contents,       \* committed contents rows, with the linked managed audio
    publications,   \* committed cms_publications rows
    events,         \* committed publish_events rows
    nextSequence,   \* the next value of publish_events.sequence
    keyLock,        \* the transaction that wrote a key and has not ended
    rowLock,        \* the transaction that wrote a content and has not ended
    draft           \* a transaction's own uncommitted content row and event

vars == <<pc, req, job, answer, objects, contents, publications, events,
          nextSequence, keyLock, rowLock, draft>>

-----------------------------------------------------------------------------
Status == {"absent", "published", "hidden"}
\* Fault: the event is named after the status, or the hiding is not told.
OperationAsStatus(status) == status
OperationAlwaysUpsert(status) == "upsert"

Operation(status) == IF status = "hidden" THEN "delete" ELSE "upsert"

Row == [status : Status, revision : Nat, audio : Digest \cup {None}]
Receipt == [item : Item, revision : Nat]
Event == [sequence : Nat, item : Item, operation : {"upsert", "delete"},
          revision : Nat]
Job == [item : Item, status : {"published", "hidden"}]
Draft == [row : Row, sequence : Nat]
Answer == [result : {"created", "duplicate"}, receipt : Receipt]
              \cup [result : {"integrity", "failed", "lost"}]

RequestStep == {"idle", "lookup", "put", "reserve", "relookup",
                "content", "event", "commit", "answered"}
AdminStep == {"idle", "event", "commit", "done"}

ASSUME NoneAssumption ==
    /\ None \notin (Request \cup AdminOp \cup Digest)
    /\ None \notin Document
    /\ None \notin Receipt
    /\ None \notin Answer

NoContent == [status |-> "absent", revision |-> 0, audio |-> None]

(* The row the statement at service.go:175 (and the asset row and link that *)
(* follow it) leaves behind, and the one SetContentStatus leaves behind.    *)
PublishedRow(row, sha) ==
    [status |-> "published", revision |-> row.revision + 1, audio |-> sha]
ModeratedRow(row, status) ==
    [status |-> status, revision |-> row.revision + 1, audio |-> row.audio]

EventOf(t, i) ==
    [sequence |-> draft[t].sequence, item |-> i,
     operation |-> Operation(draft[t].row.status),
     revision |-> draft[t].row.revision]

Init ==
    /\ pc = [t \in Tx |-> "idle"]
    /\ req = [r \in Request |-> None]
    /\ job = [a \in AdminOp |-> None]
    /\ answer = [r \in Request |-> None]
    /\ objects = [i \in Item |-> [d \in Digest |-> None]]
    /\ contents = [i \in Item |-> NoContent]
    /\ publications = [k \in Key |-> None]
    /\ events = {}
    /\ nextSequence = 1
    /\ keyLock = [k \in Key |-> None]
    /\ rowLock = [i \in Item |-> None]
    /\ draft = [t \in Tx |-> None]

-----------------------------------------------------------------------------
(* Steps shared by the two kinds of transaction.                            *)

Goto(t, step) == pc' = [pc EXCEPT ![t] = step]

Reply(r, reply) ==
    /\ Goto(r, "answered")
    /\ answer' = [answer EXCEPT ![r] = reply]

\* Fault: the row is read and written back without its lock.
WriteRowUnlocked(t, i, row) ==
    /\ rowLock' = [rowLock EXCEPT ![i] = t]
    /\ draft' = [draft EXCEPT ![t] = [row |-> row, sequence |-> 0]]

\* An UPDATE or upsert of contents: waits while another transaction holds it.
WriteRow(t, i, row) ==
    /\ rowLock[i] = None
    /\ rowLock' = [rowLock EXCEPT ![i] = t]
    /\ draft' = [draft EXCEPT ![t] = [row |-> row, sequence |-> 0]]

\* INSERT INTO publish_events: the sequence number is drawn here.
AppendEvent(t) ==
    /\ pc[t] = "event"
    /\ draft' = [draft EXCEPT ![t] = [row |-> @.row, sequence |-> nextSequence]]
    /\ nextSequence' = nextSequence + 1
    /\ Goto(t, "commit")
    /\ UNCHANGED <<req, job, answer, objects, contents, publications, events,
                   keyLock, rowLock>>

CommitRow(t, i) ==
    /\ contents' = [contents EXCEPT ![i] = draft[t].row]
    /\ events' = events \cup {EventOf(t, i)}

EndTransaction(t) ==
    /\ keyLock' = [k \in Key |-> IF keyLock[k] = t THEN None ELSE keyLock[k]]
    /\ rowLock' = [i \in Item |-> IF rowLock[i] = t THEN None ELSE rowLock[i]]
    /\ draft' = [draft EXCEPT ![t] = None]

-----------------------------------------------------------------------------
(* Service.Publish                                                          *)

\* A document that validate() accepts arrives; others are refused unseen.
Submit(r, d) ==
    /\ pc[r] = "idle"
    /\ req' = [req EXCEPT ![r] = d]
    /\ Goto(r, "lookup")
    /\ UNCHANGED <<job, answer, objects, contents, publications, events,
                   nextSequence, keyLock, rowLock, draft>>

Duplicate(k) == [result |-> "duplicate", receipt |-> publications[k]]

\* Fault: the key is reserved before the audio is stored.
ExistingSkipsAudio(r) ==
    /\ pc[r] = "lookup"
    /\ IF publications[req[r].key] # None
         THEN Reply(r, Duplicate(req[r].key))
         ELSE Goto(r, "reserve") /\ UNCHANGED answer
    /\ UNCHANGED <<req, job, objects, contents, publications, events,
                   nextSequence, keyLock, rowLock, draft>>

\* existing(): a committed publication of the key answers the request at once.
Existing(r) ==
    /\ pc[r] = "lookup"
    /\ IF publications[req[r].key] # None
         THEN Reply(r, Duplicate(req[r].key))
         ELSE Goto(r, "put") /\ UNCHANGED answer
    /\ UNCHANGED <<req, job, objects, contents, publications, events,
                   nextSequence, keyLock, rowLock, draft>>

StoreAudio(r) ==
    objects' = [objects EXCEPT ![req[r].item][req[r].sha] = req[r].bytes]

\* objects.Put under the DECLARED digest, then the comparison of the digests:
\* bytes that fail it have already replaced what the key held.
PutAudio(r) ==
    /\ pc[r] = "put"
    /\ StoreAudio(r)
    /\ IF req[r].bytes = req[r].sha
         THEN Goto(r, "reserve") /\ UNCHANGED answer
         ELSE Reply(r, [result |-> "integrity"])
    /\ UNCHANGED <<req, job, contents, publications, events, nextSequence,
                   keyLock, rowLock, draft>>

\* Put reports an error although the store has kept the object.
PutAudioUnacknowledged(r) ==
    /\ pc[r] = "put"
    /\ StoreAudio(r)
    /\ Reply(r, [result |-> "failed"])
    /\ UNCHANGED <<req, job, contents, publications, events, nextSequence,
                   keyLock, rowLock, draft>>

\* Fault: ON CONFLICT DO UPDATE, which reserves a key that was published before.
ReserveOverwriting(r) ==
    /\ pc[r] = "reserve"
    /\ keyLock[req[r].key] = None
    /\ keyLock' = [keyLock EXCEPT ![req[r].key] = r]
    /\ Goto(r, "content")
    /\ UNCHANGED <<req, job, answer, objects, contents, publications, events,
                   nextSequence, rowLock, draft>>

\* Fault: a key another transaction has reserved is taken for a published one.
ReserveWithoutWaiting(r) ==
    /\ pc[r] = "reserve"
    /\ IF publications[req[r].key] = None /\ keyLock[req[r].key] = None
         THEN /\ keyLock' = [keyLock EXCEPT ![req[r].key] = r]
              /\ Goto(r, "content")
         ELSE /\ Goto(r, "relookup")
              /\ UNCHANGED keyLock
    /\ UNCHANGED <<req, job, answer, objects, contents, publications, events,
                   nextSequence, rowLock, draft>>

\* INSERT INTO cms_publications ON CONFLICT DO NOTHING: waits for a transaction
\* that has inserted the key; a committed row means the request came second.
Reserve(r) ==
    /\ pc[r] = "reserve"
    /\ keyLock[req[r].key] = None
    /\ IF publications[req[r].key] = None
         THEN /\ keyLock' = [keyLock EXCEPT ![req[r].key] = r]
              /\ Goto(r, "content")
         ELSE /\ Goto(r, "relookup")
              /\ UNCHANGED keyLock
    /\ UNCHANGED <<req, job, answer, objects, contents, publications, events,
                   nextSequence, rowLock, draft>>

\* After the rollback, existing() is asked again.
Relookup(r) ==
    /\ pc[r] = "relookup"
    /\ Reply(r, IF publications[req[r].key] # None
                  THEN Duplicate(req[r].key)
                  ELSE [result |-> "lost"])
    /\ UNCHANGED <<req, job, objects, contents, publications, events,
                   nextSequence, keyLock, rowLock, draft>>

\* upsertSource, the content upsert, taxonomy, dictionary and the audio asset
\* with its link: rows of one item, written inside the transaction.
WriteContent(r) ==
    /\ pc[r] = "content"
    /\ WriteRow(r, req[r].item,
                PublishedRow(contents[req[r].item], req[r].sha))
    /\ Goto(r, "event")
    /\ UNCHANGED <<req, job, answer, objects, contents, publications, events,
                   nextSequence, keyLock>>

ReceiptOf(r) == [item |-> req[r].item, revision |-> draft[r].row.revision]

\* The reservation is completed and the transaction commits.
CommitPublication(r, reply) ==
    /\ pc[r] = "commit"
    /\ CommitRow(r, req[r].item)
    /\ publications' = [publications EXCEPT ![req[r].key] = ReceiptOf(r)]
    /\ EndTransaction(r)
    /\ Reply(r, reply)
    /\ UNCHANGED <<req, job, objects, nextSequence>>

Commit(r) ==
    CommitPublication(r, [result |-> "created", receipt |-> ReceiptOf(r)])

\* The commit takes effect but its acknowledgement is lost.
CommitUnacknowledged(r) == CommitPublication(r, [result |-> "failed"])

\* Fault: the error path returns without the rollback.
FailWithoutRollback(r) ==
    /\ pc[r] \notin {"idle", "answered"}
    /\ Reply(r, [result |-> "failed"])
    /\ UNCHANGED <<req, job, objects, contents, publications, events,
                   nextSequence, keyLock, rowLock, draft>>

\* Any call may return an error (a lost connection, a deadlock victim, a unique
\* violation, a cancelled context, the death of the process): the deferred
\* Rollback, or the server, undoes the transaction.
Fail(r) ==
    /\ pc[r] \notin {"idle", "answered"}
    /\ EndTransaction(r)
    /\ Reply(r, [result |-> "failed"])
    /\ UNCHANGED <<req, job, objects, contents, publications, events,
                   nextSequence>>

-----------------------------------------------------------------------------
(* The admin command's publish and hide.                                    *)

\* SetContentStatus waits for the row's lock and needs the content to exist.
SetContentStatus(a, i, status) ==
    /\ pc[a] = "idle"
    /\ contents[i].revision > 0
    /\ WriteRow(a, i, ModeratedRow(contents[i], status))
    /\ job' = [job EXCEPT ![a] = [item |-> i, status |-> status]]
    /\ Goto(a, "event")
    /\ UNCHANGED <<req, answer, objects, contents, publications, events,
                   nextSequence, keyLock>>

AdminCommit(a) ==
    /\ pc[a] = "commit"
    /\ CommitRow(a, job[a].item)
    /\ EndTransaction(a)
    /\ Goto(a, "done")
    /\ UNCHANGED <<req, job, answer, objects, publications, nextSequence>>

\* fatal(): the transaction is rolled back and the process exits.
AdminFail(a) ==
    /\ pc[a] \in {"event", "commit"}
    /\ EndTransaction(a)
    /\ Goto(a, "done")
    /\ UNCHANGED <<req, job, answer, objects, contents, publications, events,
                   nextSequence>>

-----------------------------------------------------------------------------
RequestNext(r) ==
    \/ \E d \in Document : Submit(r, d)
    \/ Existing(r)
    \/ PutAudio(r)
    \/ PutAudioUnacknowledged(r)
    \/ Reserve(r)
    \/ Relookup(r)
    \/ WriteContent(r)
    \/ AppendEvent(r)
    \/ Commit(r)
    \/ CommitUnacknowledged(r)
    \/ Fail(r)

AdminNext(a) ==
    \/ \E i \in Item, s \in {"published", "hidden"} : SetContentStatus(a, i, s)
    \/ AppendEvent(a)
    \/ AdminCommit(a)
    \/ AdminFail(a)

Next ==
    \/ \E r \in Request : RequestNext(r)
    \/ \E a \in AdminOp : AdminNext(a)

Spec == Init /\ [][Next]_vars

\* A request that was accepted runs to its end: its goroutine is scheduled and
\* every call of it returns.  Nobody is obliged to submit or to moderate, but a
\* started admin transaction ends too (its process finishes or is killed).
Handler(r) ==
    \/ Existing(r) \/ PutAudio(r) \/ Reserve(r) \/ Relookup(r)
    \/ WriteContent(r) \/ AppendEvent(r) \/ Commit(r)
AdminRun(a) == AppendEvent(a) \/ AdminCommit(a)

Fairness ==
    /\ \A r \in Request : WF_vars(Handler(r))
    /\ \A a \in AdminOp : WF_vars(AdminRun(a))

FairSpec == Spec /\ Fairness

-----------------------------------------------------------------------------
(* Properties                                                               *)

\* Every variable keeps the type of the rows, handlers and locks it models.
TypeOK ==
    /\ pc \in [Tx -> RequestStep \cup AdminStep]
    /\ req \in [Request -> Document \cup {None}]
    /\ job \in [AdminOp -> Job \cup {None}]
    /\ answer \in [Request -> Answer \cup {None}]
    /\ objects \in [Item -> [Digest -> Digest \cup {None}]]
    /\ contents \in [Item -> Row]
    /\ publications \in [Key -> Receipt \cup {None}]
    /\ events \subseteq Event
    /\ nextSequence \in Nat \ {0}
    /\ keyLock \in [Key -> Request \cup {None}]
    /\ rowLock \in [Item -> Tx \cup {None}]
    /\ draft \in [Tx -> Draft \cup {None}]

Accepted(r) == answer[r] # None /\ answer[r].result \in {"created", "duplicate"}
Created(r) == answer[r] # None /\ answer[r].result = "created"

\* Requests that carry the same idempotency key, however they overlap or are
\* retried, are told of the same content and the same revision, and at most one
\* of them is told that it created it (service.go Publish: existing, the
\* reservation, existing again).
IdempotentAnswers ==
    \A r, s \in Request :
        /\ Accepted(r) /\ Accepted(s) /\ req[r].key = req[s].key
        => /\ answer[r].receipt = answer[s].receipt
           /\ Created(r) /\ Created(s) => r = s

\* A receipt, once committed for a key, is never replaced: a retry after a lost
\* acknowledgement does not publish a second time.
ReceiptsAreFinal ==
    [][\A k \in Key : publications[k] # None => publications'[k] = publications[k]]_vars

\* A request that came second always finds the publication it lost to: the
\* "publication reservation lost" error at service.go:154 is never returned.
ReservationNeverLost ==
    \A r \in Request : answer[r] # None => answer[r].result # "lost"

\* The revisions that publications and the operator gave a content are numbered
\* without a gap and each one has exactly its event in the log: neither of two that
\* write it at a time gets lost, nor the news of it.
EveryRevisionHasItsEvent ==
    \A i \in Item :
        /\ {e.revision : e \in {f \in events : f.item = i}} = 1 .. contents[i].revision
        /\ \A e, f \in events :
               e.item = i /\ f.item = i /\ e.revision = f.revision => e = f

\* The events of one content are numbered in the order of its revisions, because
\* the sequence number is drawn while the content's row is locked.
EventsFollowRevisions ==
    \A e, f \in events :
        e.item = f.item /\ e.revision < f.revision => e.sequence < f.sequence

\* The last event of a content says what its row says: a delete exactly when the
\* content is hidden.
LastEventTellsStatus ==
    \A e \in events :
        e.revision = contents[e.item].revision
            => (e.operation = "delete" <=> contents[e.item].status = "hidden")

\* The audio of every content is in the object store before a reader can be
\* sent to it (service.go stores the object first and commits the row last).
AudioIsStored ==
    \A i \in Item :
        contents[i].revision > 0 => objects[i][contents[i].audio] # None

\* Every request that is submitted is answered in the end: the waits of the
\* reservation and of the content row cannot close into a circle.
EveryRequestIsAnswered ==
    \A r \in Request : pc[r] = "lookup" ~> pc[r] = "answered"

\* What the transactions add up to: the abstract service, which publishes in one
\* atomic step.  Its changes are the committed events without their numbers.
StatusAndRevision(row) == [status |-> row.status, revision |-> row.revision]
ChangeOf(e) ==
    [item |-> e.item, revision |-> e.revision, operation |-> e.operation]

Ledger == INSTANCE PublicationLedger WITH
    asked <- req,
    ledger <- publications,
    catalogue <- [i \in Item |-> StatusAndRevision(contents[i])],
    changes <- {ChangeOf(e) : e \in events}

\* The calls, locks and transactions of the code implement the abstract service:
\* no interleaving, lost acknowledgement or rollback shows a caller anything an
\* atomic publication would not have shown.
ImplementsLedger == Ledger!Spec
=============================================================================

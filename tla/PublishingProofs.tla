-------------------------- MODULE PublishingProofs --------------------------
(***************************************************************************)
(* Theorems about Publishing for any number of requests, admin runs, keys, *)
(* contents and documents.  The properties are not inductive by            *)
(* themselves; IInv adds who holds which lock at which step and what a     *)
(* transaction's draft says about the committed rows.                      *)
(***************************************************************************)
EXTENDS Publishing, TLAPS

\* Request and admin steps are not mixed, and a step past the first has its input.
StepInv ==
    /\ \A r \in Request :
           /\ pc[r] \in RequestStep
           /\ pc[r] # "idle" => req[r] \in Document
    /\ \A a \in AdminOp :
           /\ pc[a] \in AdminStep
           /\ pc[a] # "idle" => job[a] \in Job

Writing(t) == pc[t] \in {"event", "commit"}
Target(t) == IF t \in Request THEN req[t].item ELSE job[t].item

\* A key is locked exactly by the request that has reserved it, and such a key
\* has no committed publication; a request that lost the race has one to find.
KeyInv ==
    /\ \A r \in Request :
           pc[r] \in {"content", "event", "commit"} =>
               keyLock[req[r].key] = r /\ publications[req[r].key] = None
    /\ \A k \in Key, r \in Request :
           keyLock[k] = r =>
               pc[r] \in {"content", "event", "commit"} /\ req[r].key = k
    /\ \A r \in Request :
           pc[r] = "relookup" => publications[req[r].key] # None

\* A content's row is locked exactly by the transaction that has written it, and
\* its draft is the successor of the committed row.
RowInv ==
    /\ \A t \in Tx :
           Writing(t) =>
               /\ rowLock[Target(t)] = t
               /\ draft[t] \in Draft
               /\ draft[t].row.revision = contents[Target(t)].revision + 1
               /\ draft[t].row.status # "absent"
    /\ \A i \in Item, t \in Tx : rowLock[i] = t => Writing(t) /\ Target(t) = i
    /\ \A r \in Request : Writing(r) => draft[r].row.status = "published"

\* The numbers drawn so far: every event's, and those of the drafts, which are
\* beyond the events of the content they are about.
SequenceInv ==
    /\ \A e \in events : e.sequence < nextSequence
    /\ \A t \in Tx :
           pc[t] = "commit" =>
               /\ draft[t].sequence < nextSequence
               /\ \A e \in events :
                      e.item = Target(t) => e.sequence < draft[t].sequence

\* The log against the rows.
LogInv ==
    /\ \A e \in events : 1 <= e.revision /\ e.revision <= contents[e.item].revision
    /\ \A i \in Item : \A n \in 1 .. contents[i].revision :
           \E e \in events : e.item = i /\ e.revision = n
    /\ \A e, f \in events :
           e.item = f.item /\ e.revision = f.revision => e = f

\* What an accepted request was told is what the ledger says.
AnswerInv ==
    \A r \in Request :
        /\ answer[r] # None => pc[r] = "answered"
        /\ Accepted(r) =>
               /\ publications[req[r].key] # None
               /\ answer[r].receipt = publications[req[r].key]

\* The inductive invariant of the publication and the moderation together.
IInv ==
    /\ TypeOK
    /\ StepInv
    /\ KeyInv
    /\ RowInv
    /\ SequenceInv
    /\ LogInv
    /\ EventsFollowRevisions
    /\ LastEventTellsStatus
    /\ AnswerInv
    /\ IdempotentAnswers
    /\ ReservationNeverLost

-----------------------------------------------------------------------------
\* The initial states satisfy the inductive invariant.
LEMMA InitInv == Init => IInv
<1> SUFFICES ASSUME Init PROVE IInv
  OBVIOUS
<1> USE NoneAssumption, DocumentAssumption DEF Init, Tx
<1>1. TypeOK
  BY DEF TypeOK, RequestStep, AdminStep, Row, NoContent, Status
<1>2. StepInv /\ KeyInv /\ RowInv
  BY DEF StepInv, KeyInv, RowInv, RequestStep, AdminStep, Writing
<1>3. SequenceInv /\ LogInv /\ AnswerInv
  BY DEF SequenceInv, LogInv, AnswerInv, Accepted, NoContent
<1>4. EventsFollowRevisions /\ LastEventTellsStatus
  BY DEF EventsFollowRevisions, LastEventTellsStatus
<1>5. IdempotentAnswers /\ ReservationNeverLost
  BY DEF IdempotentAnswers, ReservationNeverLost, Accepted, Created
<1> QED
  BY <1>1, <1>2, <1>3, <1>4, <1>5 DEF IInv

\* A transaction that writes has a draft, and its target is a content.
LEMMA WriterFacts ==
    ASSUME IInv, NEW t \in Tx, Writing(t)
    PROVE  /\ Target(t) \in Item
           /\ draft[t] \in Draft
           /\ draft[t].row \in Row
           /\ draft[t].sequence \in Nat
           /\ t \in Request => req[t] \in Document /\ Target(t) = req[t].item
           /\ t \in AdminOp => job[t] \in Job /\ Target(t) = job[t].item
<1>1. t \in Request => req[t] \in Document /\ Target(t) = req[t].item
  BY DEF IInv, StepInv, Writing, Target
<1>2. t \in AdminOp => job[t] \in Job /\ Target(t) = job[t].item
  BY TxAssumption DEF IInv, StepInv, Writing, Target
<1>3. Target(t) \in Item
  BY <1>1, <1>2, DocumentAssumption DEF Tx, Job
<1>4. draft[t] \in Draft
  BY DEF IInv, RowInv
<1>5. draft[t].row \in Row /\ draft[t].sequence \in Nat
  BY <1>4 DEF Draft
<1> QED
  BY <1>1, <1>2, <1>3, <1>4, <1>5

\* A transaction that is about to commit completes its key with a receipt.
LEMMA ReceiptFacts ==
    ASSUME IInv, NEW r \in Request, pc[r] = "commit"
    PROVE  /\ ReceiptOf(r) \in Receipt
           /\ ReceiptOf(r) # None
<1>1. req[r] \in Document /\ draft[r].row \in Row
  BY WriterFacts DEF Writing, Tx
<1>2. req[r].item \in Item /\ draft[r].row.revision \in Nat
  BY <1>1, DocumentAssumption DEF Row
<1>3. ReceiptOf(r) \in Receipt
  BY <1>2 DEF ReceiptOf, Receipt
<1> QED
  BY <1>3, NoneAssumption

\* Every step keeps the types.
LEMMA TypeStep == IInv /\ [Next]_vars => TypeOK'
<1> SUFFICES ASSUME IInv, [Next]_vars PROVE TypeOK'
  OBVIOUS
<1> USE DEF TypeOK, Tx, Goto, Reply
<1>0. TypeOK /\ StepInv
  BY DEF IInv
<1>1. ASSUME NEW r \in Request, NEW d \in Document, Submit(r, d) PROVE TypeOK'
  BY <1>0, <1>1 DEF Submit, RequestStep
<1>2. ASSUME NEW r \in Request, Existing(r) PROVE TypeOK'
  <2>1. req[r] \in Document /\ req[r].key \in Key
    BY <1>0, <1>2, DocumentAssumption DEF Existing, StepInv
  <2>2. publications[req[r].key] # None => Duplicate(req[r].key) \in Answer
    BY <1>0, <2>1 DEF Duplicate, Answer
  <2> QED
    BY <1>0, <1>2, <2>1, <2>2 DEF Existing, RequestStep
<1>3. ASSUME NEW r \in Request, PutAudio(r) PROVE TypeOK'
  <2>1. req[r] \in Document /\ req[r].item \in Item /\ req[r].bytes \in Digest
    BY <1>0, <1>3, DocumentAssumption DEF PutAudio, StepInv
  <2>2. objects' \in [Item -> [Digest -> Digest \cup {None}]]
    BY <1>0, <1>3, <2>1 DEF PutAudio, StoreAudio
  <2> QED
    BY <1>0, <1>3, <2>2 DEF PutAudio, RequestStep, Answer
<1>4. ASSUME NEW r \in Request, PutAudioUnacknowledged(r) PROVE TypeOK'
  <2>1. req[r] \in Document /\ req[r].item \in Item /\ req[r].bytes \in Digest
    BY <1>0, <1>4, DocumentAssumption DEF PutAudioUnacknowledged, StepInv
  <2>2. objects' \in [Item -> [Digest -> Digest \cup {None}]]
    BY <1>0, <1>4, <2>1 DEF PutAudioUnacknowledged, StoreAudio
  <2> QED
    BY <1>0, <1>4, <2>2 DEF PutAudioUnacknowledged, RequestStep, Answer
<1>5. ASSUME NEW r \in Request, Reserve(r) PROVE TypeOK'
  BY <1>0, <1>5 DEF Reserve, RequestStep
<1>6. ASSUME NEW r \in Request, Relookup(r) PROVE TypeOK'
  <2>1. req[r] \in Document /\ req[r].key \in Key
    BY <1>0, <1>6, DocumentAssumption DEF Relookup, StepInv
  <2>2. publications[req[r].key] # None => Duplicate(req[r].key) \in Answer
    BY <1>0, <2>1 DEF Duplicate, Answer
  <2>3. [result |-> "lost"] \in Answer
    BY DEF Answer
  <2> QED
    BY <1>0, <1>6, <2>2, <2>3 DEF Relookup, RequestStep
<1>7. ASSUME NEW r \in Request, WriteContent(r) PROVE TypeOK'
  <2>1. req[r] \in Document /\ req[r].item \in Item /\ req[r].sha \in Digest
    BY <1>0, <1>7, DocumentAssumption DEF WriteContent, StepInv
  <2>2. PublishedRow(contents[req[r].item], req[r].sha) \in Row
    BY <1>0, <2>1 DEF PublishedRow, Row, Status
  <2> QED
    BY <1>0, <1>7, <2>2 DEF WriteContent, WriteRow, Draft, RequestStep
<1>8. ASSUME NEW t \in Tx, AppendEvent(t) PROVE TypeOK'
  <2>1. draft[t].row \in Row
    BY <1>8, WriterFacts DEF AppendEvent, Writing
  <2> QED
    BY <1>0, <1>8, <2>1 DEF AppendEvent, Draft, RequestStep
<1>9. ASSUME NEW r \in Request, NEW reply \in Answer, CommitPublication(r, reply)
      PROVE TypeOK'
  <2>1. /\ req[r] \in Document /\ req[r].item \in Item
        /\ draft[r].row \in Row /\ draft[r].sequence \in Nat
    BY <1>9, WriterFacts, DocumentAssumption DEF CommitPublication, Writing
  <2>2. contents' \in [Item -> Row]
    BY <1>0, <1>9, <2>1 DEF CommitPublication, CommitRow
  <2>3. events' \subseteq Event
    BY <1>0, <1>9, <2>1 DEF CommitPublication, CommitRow, EventOf, Operation, Event, Row
  <2>4. publications' \in [Key -> Receipt \cup {None}]
    BY <1>0, <1>9, <2>1 DEF CommitPublication, ReceiptOf, Receipt, Row
  <2> QED
    BY <1>0, <1>9, <2>2, <2>3, <2>4
    DEF CommitPublication, EndTransaction, RequestStep
<1>10. ASSUME NEW r \in Request, Commit(r) PROVE TypeOK'
  <2>1. [result |-> "created", receipt |-> ReceiptOf(r)] \in Answer
    <3>1. /\ req[r].item \in Item /\ draft[r].row \in Row
      BY <1>10, WriterFacts, DocumentAssumption DEF Commit, CommitPublication, Writing
    <3> QED
      BY <3>1 DEF ReceiptOf, Receipt, Row, Answer
  <2> QED
    BY <1>9, <1>10, <2>1 DEF Commit
<1>11. ASSUME NEW r \in Request, CommitUnacknowledged(r) PROVE TypeOK'
  <2>1. [result |-> "failed"] \in Answer
    BY DEF Answer
  <2> QED
    BY <1>9, <1>11, <2>1 DEF CommitUnacknowledged
<1>12. ASSUME NEW r \in Request, Fail(r) PROVE TypeOK'
  BY <1>0, <1>12 DEF Fail, EndTransaction, RequestStep, Answer
<1>13. ASSUME NEW a \in AdminOp, NEW i \in Item, NEW s \in {"published", "hidden"},
              SetContentStatus(a, i, s)
       PROVE  TypeOK'
  <2>1. ModeratedRow(contents[i], s) \in Row
    BY <1>0 DEF ModeratedRow, Row, Status
  <2> QED
    BY <1>0, <1>13, <2>1 DEF SetContentStatus, WriteRow, Draft, Job, AdminStep
<1>14. ASSUME NEW a \in AdminOp, AdminCommit(a) PROVE TypeOK'
  <2>1. job[a] \in Job /\ draft[a].row \in Row /\ draft[a].sequence \in Nat
    BY <1>14, WriterFacts DEF AdminCommit, Writing
  <2>2. contents' \in [Item -> Row]
    BY <1>0, <1>14, <2>1 DEF AdminCommit, CommitRow, Job
  <2>3. events' \subseteq Event
    BY <1>0, <1>14, <2>1 DEF AdminCommit, CommitRow, EventOf, Operation, Event, Row, Job
  <2> QED
    BY <1>0, <1>14, <2>2, <2>3 DEF AdminCommit, EndTransaction, AdminStep
<1>15. ASSUME NEW a \in AdminOp, AdminFail(a) PROVE TypeOK'
  BY <1>0, <1>15 DEF AdminFail, EndTransaction, AdminStep
<1>16. CASE UNCHANGED vars
  BY <1>0, <1>16 DEF vars
<1> QED
  BY <1>1, <1>2, <1>3, <1>4, <1>5, <1>6, <1>7, <1>8, <1>10, <1>11, <1>12,
     <1>13, <1>14, <1>15, <1>16 DEF Next, RequestNext, AdminNext

\* Every step keeps the handlers' and admin runs' places and inputs.
LEMMA StepStep == IInv /\ [Next]_vars => StepInv'
<1> SUFFICES ASSUME IInv, [Next]_vars PROVE StepInv'
  OBVIOUS
<1>0. TypeOK /\ StepInv
  BY DEF IInv
<1> USE <1>0, TxAssumption DEF StepInv, TypeOK, Tx, Goto, Reply, RequestStep, AdminStep
<1>1. ASSUME NEW r \in Request, NEW d \in Document, Submit(r, d) PROVE StepInv'
  BY <1>1 DEF Submit
<1>2. ASSUME NEW r \in Request,
             Existing(r) \/ PutAudio(r) \/ PutAudioUnacknowledged(r) \/ Reserve(r)
                 \/ Relookup(r) \/ WriteContent(r) \/ Fail(r)
      PROVE  StepInv'
  BY <1>2 DEF Existing, PutAudio, PutAudioUnacknowledged, Reserve, Relookup,
              WriteContent, Fail
<1>3. ASSUME NEW t \in Tx, AppendEvent(t) PROVE StepInv'
  BY <1>3 DEF AppendEvent
<1>4. ASSUME NEW r \in Request, Commit(r) \/ CommitUnacknowledged(r) PROVE StepInv'
  BY <1>4 DEF Commit, CommitUnacknowledged, CommitPublication
<1>5. ASSUME NEW a \in AdminOp, NEW i \in Item, NEW s \in {"published", "hidden"},
             SetContentStatus(a, i, s)
      PROVE  StepInv'
  BY <1>5 DEF SetContentStatus, Job
<1>6. ASSUME NEW a \in AdminOp, AdminCommit(a) \/ AdminFail(a) PROVE StepInv'
  BY <1>6 DEF AdminCommit, AdminFail
<1>7. CASE UNCHANGED vars
  BY <1>7 DEF vars
<1> QED
  BY <1>1, <1>2, <1>3, <1>4, <1>5, <1>6, <1>7 DEF Next, RequestNext, AdminNext

\* Every step keeps the exclusion on keys.
LEMMA KeyStep == IInv /\ [Next]_vars => KeyInv'
<1> SUFFICES ASSUME IInv, [Next]_vars PROVE KeyInv'
  OBVIOUS
<1>0. TypeOK /\ StepInv /\ KeyInv
  BY DEF IInv
<1> USE <1>0, TxAssumption, NoneAssumption, DocumentAssumption
    DEF StepInv, KeyInv, TypeOK, Tx, Goto, Reply
<1>1. ASSUME NEW r \in Request, NEW d \in Document, Submit(r, d) PROVE KeyInv'
  BY <1>1 DEF Submit
<1>2. ASSUME NEW r \in Request, Existing(r) PROVE KeyInv'
  BY <1>2 DEF Existing
<1>3. ASSUME NEW r \in Request, PutAudio(r) \/ PutAudioUnacknowledged(r) PROVE KeyInv'
  BY <1>3 DEF PutAudio, PutAudioUnacknowledged
<1>4. ASSUME NEW r \in Request, Reserve(r) PROVE KeyInv'
  BY <1>4 DEF Reserve
<1>5. ASSUME NEW r \in Request, Relookup(r) \/ WriteContent(r) PROVE KeyInv'
  BY <1>5 DEF Relookup, WriteContent
<1>6. ASSUME NEW t \in Tx, AppendEvent(t) PROVE KeyInv'
  BY <1>6 DEF AppendEvent
<1>7. ASSUME NEW r \in Request, Commit(r) \/ CommitUnacknowledged(r) PROVE KeyInv'
  <2> DEFINE k == req[r].key
  <2>1. /\ pc[r] = "commit" /\ k \in Key /\ keyLock[k] = r
        /\ UNCHANGED req
        /\ pc' = [pc EXCEPT ![r] = "answered"]
        /\ publications' = [publications EXCEPT ![k] = ReceiptOf(r)]
        /\ keyLock' = [x \in Key |-> IF keyLock[x] = r THEN None ELSE keyLock[x]]
    BY <1>7 DEF Commit, CommitUnacknowledged, CommitPublication, EndTransaction
  <2>2. ReceiptOf(r) # None
    BY <2>1, ReceiptFacts
  <2> QED
    BY <2>1, <2>2
<1>8. ASSUME NEW r \in Request, Fail(r) PROVE KeyInv'
  BY <1>8 DEF Fail, EndTransaction
<1>9. ASSUME NEW a \in AdminOp, NEW i \in Item, NEW s \in {"published", "hidden"},
             SetContentStatus(a, i, s)
      PROVE  KeyInv'
  BY <1>9 DEF SetContentStatus
<1>10. ASSUME NEW a \in AdminOp, AdminCommit(a) \/ AdminFail(a) PROVE KeyInv'
  BY <1>10 DEF AdminCommit, AdminFail, EndTransaction
<1>11. CASE UNCHANGED vars
  BY <1>11 DEF vars
<1> QED
  BY <1>1, <1>2, <1>3, <1>4, <1>5, <1>6, <1>7, <1>8, <1>9, <1>10, <1>11
  DEF Next, RequestNext, AdminNext

\* Every step keeps the exclusion on content rows and what the drafts are based on.
LEMMA RowStep == IInv /\ [Next]_vars => RowInv'
<1> SUFFICES ASSUME IInv, [Next]_vars PROVE RowInv'
  OBVIOUS
<1>0. TypeOK /\ StepInv /\ RowInv /\ TypeOK'
  BY TypeStep DEF IInv
<1> USE <1>0, TxAssumption, NoneAssumption
    DEF RowInv, StepInv, TypeOK, Tx, Goto, Reply, Writing, Target
<1>1. ASSUME NEW r \in Request, NEW d \in Document, Submit(r, d) PROVE RowInv'
  BY <1>1 DEF Submit
<1>2. ASSUME NEW r \in Request,
             Existing(r) \/ PutAudio(r) \/ PutAudioUnacknowledged(r) \/ Reserve(r)
                 \/ Relookup(r)
      PROVE  RowInv'
  <2>1. /\ UNCHANGED <<req, job, rowLock, draft, contents>>
        /\ ~Writing(r) /\ ~Writing(r)'
        /\ \A t \in Tx : t # r => pc'[t] = pc[t]
    BY <1>2 DEF Existing, PutAudio, PutAudioUnacknowledged, Reserve, Relookup
  <2> QED
    BY <2>1, SMTT(30)
<1>3. ASSUME NEW r \in Request, WriteContent(r) PROVE RowInv'
  <2> DEFINE i == req[r].item
             row == PublishedRow(contents[i], req[r].sha)
  <2>1. /\ pc[r] = "content" /\ pc' = [pc EXCEPT ![r] = "event"]
        /\ rowLock[i] = None /\ rowLock' = [rowLock EXCEPT ![i] = r]
        /\ draft' = [draft EXCEPT ![r] = [row |-> row, sequence |-> 0]]
        /\ UNCHANGED <<req, job, contents>>
    BY <1>3 DEF WriteContent, WriteRow
  <2>2. req[r] \in Document /\ i \in Item /\ req[r].sha \in Digest
    BY <2>1, DocumentAssumption
  <2>3. /\ row \in Row /\ row.revision = contents[i].revision + 1
        /\ row.status = "published"
    BY <2>2 DEF PublishedRow, Row, Status
  <2>4. draft'[r] \in Draft /\ draft'[r].row = row
    BY <2>1, <2>3 DEF Draft
  <2> HIDE DEF row
  <2> QED
    BY <2>1, <2>2, <2>3, <2>4
<1>4. ASSUME NEW t \in Tx, AppendEvent(t) PROVE RowInv'
  <2>1. /\ pc[t] = "event" /\ pc' = [pc EXCEPT ![t] = "commit"]
        /\ draft' = [draft EXCEPT ![t] = [row |-> draft[t].row, sequence |-> nextSequence]]
        /\ UNCHANGED <<req, job, rowLock, contents>>
    BY <1>4 DEF AppendEvent
  <2>2. draft'[t] \in Draft /\ draft'[t].row = draft[t].row
    BY <2>1, WriterFacts DEF Draft
  <2> QED
    BY <2>1, <2>2
<1>5. ASSUME NEW t \in Tx, Writing(t), pc' = [pc EXCEPT ![t] = pc'[t]], ~Writing(t)',
             EndTransaction(t), UNCHANGED <<req, job>>,
             \A i \in Item \ {Target(t)} : contents'[i] = contents[i]
      PROVE  RowInv'
  <2>1. Target(t) \in Item
    BY <1>5, WriterFacts
  <2>2. \A u \in Tx \ {t} :
           /\ pc'[u] = pc[u] /\ draft'[u] = draft[u] /\ Target(u)' = Target(u)
           /\ Writing(u) => Target(u) \in Item /\ Target(u) # Target(t)
    BY <1>5, WriterFacts DEF EndTransaction
  <2> QED
    BY <1>5, <2>1, <2>2 DEF EndTransaction
<1>6. ASSUME NEW r \in Request, Commit(r) \/ CommitUnacknowledged(r) PROVE RowInv'
  <2>1. \A i \in Item \ {Target(r)} : contents'[i] = contents[i]
    BY <1>6 DEF Commit, CommitUnacknowledged, CommitPublication, CommitRow
  <2> QED
    BY <1>5, <1>6, <2>1 DEF Commit, CommitUnacknowledged, CommitPublication
<1>7. ASSUME NEW r \in Request, Fail(r) PROVE RowInv'
  <2>1. CASE Writing(r)
    BY <1>5, <1>7, <2>1 DEF Fail
  <2>2. CASE ~Writing(r)
    BY <1>7, <2>2 DEF Fail, EndTransaction
  <2> QED
    BY <2>1, <2>2
<1>8. ASSUME NEW a \in AdminOp, NEW i \in Item, NEW s \in {"published", "hidden"},
             SetContentStatus(a, i, s)
      PROVE  RowInv'
  <2> DEFINE row == ModeratedRow(contents[i], s)
  <2>1. /\ pc[a] = "idle" /\ pc' = [pc EXCEPT ![a] = "event"]
        /\ rowLock[i] = None /\ rowLock' = [rowLock EXCEPT ![i] = a]
        /\ draft' = [draft EXCEPT ![a] = [row |-> row, sequence |-> 0]]
        /\ job' = [job EXCEPT ![a] = [item |-> i, status |-> s]]
        /\ UNCHANGED <<req, contents>>
    BY <1>8 DEF SetContentStatus, WriteRow
  <2>2. row \in Row /\ row.revision = contents[i].revision + 1 /\ row.status = s
    BY DEF ModeratedRow, Row, Status
  <2>3. draft'[a] \in Draft /\ draft'[a].row = row
    BY <2>1, <2>2 DEF Draft
  <2> HIDE DEF row
  <2> QED
    BY <2>1, <2>2, <2>3
<1>9. ASSUME NEW a \in AdminOp, AdminCommit(a) PROVE RowInv'
  <2>1. \A i \in Item \ {Target(a)} : contents'[i] = contents[i]
    BY <1>9 DEF AdminCommit, CommitRow
  <2> QED
    BY <1>5, <1>9, <2>1 DEF AdminCommit
<1>10. ASSUME NEW a \in AdminOp, AdminFail(a) PROVE RowInv'
  BY <1>5, <1>10 DEF AdminFail
<1>11. CASE UNCHANGED vars
  BY <1>11 DEF vars
<1> QED
  BY <1>1, <1>2, <1>3, <1>4, <1>6, <1>7, <1>8, <1>9, <1>10, <1>11
  DEF Next, RequestNext, AdminNext

-----------------------------------------------------------------------------
\* The rows and the log change together, and only in a commit.
LEMMA LogFrame ==
    ASSUME IInv, [Next]_vars
    PROVE  \/ UNCHANGED <<contents, events>>
           \/ \E t \in Tx : pc[t] = "commit" /\ CommitRow(t, Target(t))
<1>1. ASSUME NEW r \in Request, Commit(r) \/ CommitUnacknowledged(r)
      PROVE  pc[r] = "commit" /\ CommitRow(r, Target(r))
  BY <1>1 DEF Commit, CommitUnacknowledged, CommitPublication, Target
<1>2. ASSUME NEW a \in AdminOp, AdminCommit(a)
      PROVE  pc[a] = "commit" /\ CommitRow(a, Target(a))
  BY <1>2, TxAssumption DEF AdminCommit, Target
<1>3. ASSUME NEW r \in Request, RequestNext(r), ~(Commit(r) \/ CommitUnacknowledged(r))
      PROVE  UNCHANGED <<contents, events>>
  BY <1>3 DEF RequestNext, Submit, Existing, PutAudio, PutAudioUnacknowledged,
              Reserve, Relookup, WriteContent, AppendEvent, Fail
<1>4. ASSUME NEW a \in AdminOp, AdminNext(a), ~AdminCommit(a)
      PROVE  UNCHANGED <<contents, events>>
  BY <1>4 DEF AdminNext, SetContentStatus, AppendEvent, AdminFail
<1> QED
  BY <1>1, <1>2, <1>3, <1>4 DEF Next, Tx, vars

\* What a commit adds: the next revision of its content, with its event, whose
\* number is beyond those of the content's earlier events.
LEMMA CommitFacts ==
    ASSUME IInv, NEW t \in Tx, pc[t] = "commit", CommitRow(t, Target(t))
    PROVE  LET i == Target(t)
               e == EventOf(t, i)
           IN  /\ i \in Item
               /\ e \in Event
               /\ e.item = i
               /\ e.revision = contents[i].revision + 1
               /\ e.sequence < nextSequence
               /\ \A f \in events : f.item = i => f.sequence < e.sequence
               /\ events' = events \cup {e}
               /\ contents'[i].revision = e.revision
               /\ e.operation = "delete" <=> contents'[i].status = "hidden"
               /\ \A j \in Item \ {i} : contents'[j] = contents[j]
<1> DEFINE i == Target(t)
           e == EventOf(t, i)
<1>1. i \in Item /\ draft[t].row \in Row /\ draft[t].sequence \in Nat
  BY WriterFacts DEF Writing
<1>2. /\ e \in Event
      /\ e.item = i
      /\ e.revision = draft[t].row.revision
      /\ e.sequence = draft[t].sequence
      /\ e.operation = "delete" <=> draft[t].row.status = "hidden"
  BY <1>1 DEF EventOf, Event, Operation, Row
<1>3. draft[t].row.revision = contents[i].revision + 1
  BY DEF IInv, RowInv, Writing
<1>4. e.sequence < nextSequence /\ \A f \in events : f.item = i => f.sequence < e.sequence
  BY <1>2 DEF IInv, SequenceInv
<1>5. /\ events' = events \cup {e}
      /\ contents'[i] = draft[t].row
      /\ \A j \in Item \ {i} : contents'[j] = contents[j]
  BY <1>1 DEF CommitRow, IInv, TypeOK
<1> HIDE DEF e
<1> QED
  BY <1>1, <1>2, <1>3, <1>4, <1>5 DEF e

\* Every step keeps the log complete and free of repeated revisions.
LEMMA LogStep == IInv /\ [Next]_vars => LogInv'
<1> SUFFICES ASSUME IInv, [Next]_vars PROVE LogInv'
  OBVIOUS
<1>0. TypeOK /\ LogInv
  BY DEF IInv
<1>1. CASE UNCHANGED <<contents, events>>
  BY <1>0, <1>1 DEF LogInv
<1>2. ASSUME NEW t \in Tx, pc[t] = "commit", CommitRow(t, Target(t)) PROVE LogInv'
  <2> DEFINE i == Target(t)
             e == EventOf(t, i)
  <2>1. /\ i \in Item /\ e \in Event /\ e.item = i
        /\ e.revision = contents[i].revision + 1
        /\ events' = events \cup {e}
        /\ contents'[i].revision = e.revision
        /\ \A j \in Item \ {i} : contents'[j] = contents[j]
    BY <1>2, CommitFacts
  <2>2. \A j \in Item : contents[j].revision \in Nat
    BY <1>0 DEF TypeOK, Row
  <2>3. \A f \in events : f.item \in Item /\ f.revision \in Nat
    BY <1>0 DEF TypeOK, Event
  <2> HIDE DEF i, e
  <2>4. ASSUME NEW f \in events'
        PROVE  1 <= f.revision /\ f.revision <= contents'[f.item].revision
    BY <1>0, <2>1, <2>2, <2>3 DEF LogInv
  <2>5. ASSUME NEW j \in Item, NEW n \in 1 .. contents'[j].revision
        PROVE  \E f \in events' : f.item = j /\ f.revision = n
    <3>1. CASE j = i /\ n = e.revision
      BY <2>1, <3>1
    <3>2. CASE ~(j = i /\ n = e.revision)
      <4>1. n \in 1 .. contents[j].revision
        BY <2>1, <2>2, <2>5, <3>2
      <4> QED
        BY <1>0, <2>1, <4>1 DEF LogInv
    <3> QED
      BY <3>1, <3>2
  <2>6. ASSUME NEW f \in events', NEW g \in events',
               f.item = g.item, f.revision = g.revision
        PROVE  f = g
    <3>1. \A h \in events : h.item = i => h.revision # e.revision
      BY <1>0, <2>1, <2>2, <2>3 DEF LogInv
    <3> QED
      BY <1>0, <2>1, <2>6, <3>1 DEF LogInv
  <2> QED
    BY <2>4, <2>5, <2>6 DEF LogInv
<1> QED
  BY <1>1, <1>2, LogFrame

\* Every step keeps the numbers of a content's events in the order of its revisions.
LEMMA OrderStep == IInv /\ [Next]_vars => EventsFollowRevisions'
<1> SUFFICES ASSUME IInv, [Next]_vars PROVE EventsFollowRevisions'
  OBVIOUS
<1>0. TypeOK /\ LogInv /\ EventsFollowRevisions
  BY DEF IInv
<1>1. CASE UNCHANGED <<contents, events>>
  BY <1>0, <1>1 DEF EventsFollowRevisions
<1>2. ASSUME NEW t \in Tx, pc[t] = "commit", CommitRow(t, Target(t))
      PROVE  EventsFollowRevisions'
  <2> DEFINE e == EventOf(t, Target(t))
  <2>1. /\ e \in Event
        /\ e.item = Target(t)
        /\ e.revision = contents[Target(t)].revision + 1
        /\ \A f \in events : f.item = Target(t) => f.sequence < e.sequence
        /\ events' = events \cup {e}
    BY <1>2, CommitFacts
  <2>2. \A f \in events :
            /\ f.item \in Item /\ f.revision \in Nat
            /\ contents[f.item].revision \in Nat
            /\ f.revision <= contents[f.item].revision
    BY <1>0 DEF TypeOK, Event, LogInv, Row
  <2> HIDE DEF e
  <2>3. \A f \in events : f.item = e.item => ~(e.revision < f.revision)
    BY <2>1, <2>2
  <2>4. ~(e.revision < e.revision)
    BY <2>1 DEF Event
  <2> QED
    BY <1>0, <2>1, <2>3, <2>4 DEF EventsFollowRevisions
<1> QED
  BY <1>1, <1>2, LogFrame

\* Every step keeps the last event of a content in agreement with its row.
LEMMA StatusStep == IInv /\ [Next]_vars => LastEventTellsStatus'
<1> SUFFICES ASSUME IInv, [Next]_vars PROVE LastEventTellsStatus'
  OBVIOUS
<1>0. TypeOK /\ LogInv /\ LastEventTellsStatus
  BY DEF IInv
<1>1. CASE UNCHANGED <<contents, events>>
  BY <1>0, <1>1 DEF LastEventTellsStatus
<1>2. ASSUME NEW t \in Tx, pc[t] = "commit", CommitRow(t, Target(t))
      PROVE  LastEventTellsStatus'
  <2> DEFINE i == Target(t)
             e == EventOf(t, i)
  <2>1. /\ i \in Item /\ e.item = i
        /\ e.revision = contents[i].revision + 1
        /\ events' = events \cup {e}
        /\ contents'[i].revision = e.revision
        /\ e.operation = "delete" <=> contents'[i].status = "hidden"
        /\ \A j \in Item \ {i} : contents'[j] = contents[j]
    BY <1>2, CommitFacts
  <2>2. \A f \in events :
            /\ f.item \in Item /\ f.revision \in Nat
            /\ contents[f.item].revision \in Nat
            /\ f.revision <= contents[f.item].revision
    BY <1>0 DEF TypeOK, Event, LogInv, Row
  <2> HIDE DEF i, e
  <2>3. \A f \in events : f.item = i => f.revision # contents'[i].revision
    BY <2>1, <2>2
  <2> QED
    BY <1>0, <2>1, <2>2, <2>3 DEF LastEventTellsStatus
<1> QED
  BY <1>1, <1>2, LogFrame

\* Every step keeps the drawn numbers in their place: beyond the events of the
\* content they are about, because its row has been locked since they were drawn.
LEMMA SequenceStep == IInv /\ [Next]_vars => SequenceInv'
<1> SUFFICES ASSUME IInv, [Next]_vars PROVE SequenceInv'
  OBVIOUS
<1>0. TypeOK /\ StepInv /\ RowInv /\ SequenceInv
  BY DEF IInv
<1>1. /\ nextSequence \in Nat
      /\ \A f \in events : f.sequence \in Nat
      /\ \A t \in Tx : pc[t] = "commit" => draft[t].sequence \in Nat
  BY <1>0, WriterFacts DEF TypeOK, Event, Writing
<1> USE TxAssumption DEF Tx, Target
<1>2. ASSUME NEW u \in Tx, UNCHANGED <<events, nextSequence>>,
             \A t \in Tx : pc'[t] = "commit" =>
                 pc[t] = "commit" /\ draft'[t] = draft[t] /\ Target(t)' = Target(t)
      PROVE  SequenceInv'
  BY <1>0, <1>2 DEF SequenceInv
<1>3. ASSUME NEW r \in Request,
             \/ \E d \in Document : Submit(r, d)
             \/ Existing(r) \/ PutAudio(r) \/ PutAudioUnacknowledged(r)
             \/ Reserve(r) \/ Relookup(r) \/ WriteContent(r) \/ Fail(r)
      PROVE  SequenceInv'
  <2>1. /\ UNCHANGED <<events, nextSequence, job>>
        /\ pc'[r] # "commit"
        /\ \A t \in Tx \ {r} :
               pc'[t] = pc[t] /\ (pc[t] = "commit" => draft'[t] = draft[t])
        /\ \A s \in Request \ {r} : req'[s] = req[s]
    BY <1>0, <1>3
    DEF Submit, Existing, PutAudio, PutAudioUnacknowledged, Reserve, Relookup,
        WriteContent, WriteRow, Fail, EndTransaction, Goto, Reply, TypeOK
  <2> QED
    BY <1>2, <2>1
<1>4. ASSUME NEW t \in Tx, AppendEvent(t) PROVE SequenceInv'
  <2>1. /\ pc[t] = "event" /\ pc' = [pc EXCEPT ![t] = "commit"]
        /\ draft'[t].sequence = nextSequence
        /\ \A u \in Tx \ {t} : draft'[u] = draft[u]
        /\ nextSequence' = nextSequence + 1
        /\ UNCHANGED <<req, job, events>>
    BY <1>0, <1>4 DEF AppendEvent, Goto, TypeOK
  <2>2. \A e \in events : e.sequence < nextSequence'
    BY <1>0, <1>1, <2>1 DEF SequenceInv
  <2>3. \A u \in Tx \ {t} : pc'[u] = "commit" =>
            /\ draft'[u].sequence < nextSequence'
            /\ \A e \in events : e.item = Target(u) => e.sequence < draft'[u].sequence
    BY <1>0, <1>1, <2>1 DEF SequenceInv, TypeOK
  <2>4. \A e \in events : e.sequence < draft'[t].sequence
    BY <1>0, <2>1 DEF SequenceInv
  <2> QED
    BY <1>1, <2>1, <2>2, <2>3, <2>4 DEF SequenceInv
<1>5. ASSUME NEW t \in Tx, pc[t] = "commit", CommitRow(t, Target(t)),
             EndTransaction(t), UNCHANGED <<req, job, nextSequence>>,
             pc'[t] # "commit", \A u \in Tx \ {t} : pc'[u] = pc[u]
      PROVE  SequenceInv'
  <2> DEFINE e == EventOf(t, Target(t))
  <2>1. e.item = Target(t) /\ e.sequence < nextSequence /\ events' = events \cup {e}
    BY <1>5, CommitFacts
  <2>2. \A u \in Tx \ {t} : pc[u] = "commit" => Target(u) # Target(t)
    BY <1>0, <1>5 DEF RowInv, Writing
  <2>3. \A u \in Tx \ {t} : draft'[u] = draft[u]
    BY <1>0, <1>5 DEF EndTransaction, TypeOK
  <2> HIDE DEF e
  <2> QED
    BY <1>0, <1>5, <2>1, <2>2, <2>3 DEF SequenceInv
<1>6. ASSUME NEW r \in Request, Commit(r) \/ CommitUnacknowledged(r) PROVE SequenceInv'
  BY <1>0, <1>5, <1>6
  DEF Commit, CommitUnacknowledged, CommitPublication, Reply, Goto, TypeOK
<1>7. ASSUME NEW a \in AdminOp, AdminCommit(a) PROVE SequenceInv'
  BY <1>0, <1>5, <1>7 DEF AdminCommit, Goto, TypeOK
<1>8. ASSUME NEW a \in AdminOp,
             \/ \E i \in Item, s \in {"published", "hidden"} : SetContentStatus(a, i, s)
             \/ AdminFail(a)
      PROVE  SequenceInv'
  <2>1. /\ UNCHANGED <<events, nextSequence, req>>
        /\ pc'[a] # "commit"
        /\ \A t \in Tx \ {a} : pc'[t] = pc[t] /\ draft'[t] = draft[t]
        /\ \A b \in AdminOp \ {a} : job'[b] = job[b]
    BY <1>0, <1>8 DEF SetContentStatus, WriteRow, AdminFail, EndTransaction, Goto, TypeOK
  <2> QED
    BY <1>2, <2>1
<1>9. CASE UNCHANGED vars
  BY <1>0, <1>9 DEF vars, SequenceInv
<1> QED
  BY <1>3, <1>4, <1>6, <1>7, <1>8, <1>9 DEF Next, RequestNext, AdminNext

-----------------------------------------------------------------------------
\* The receipt of a key is filled by the one request that has reserved it.
LEMMA PublicationFrame ==
    ASSUME IInv, [Next]_vars, NEW k \in Key, publications[k] # None
    PROVE  publications'[k] = publications[k]
<1>0. TypeOK /\ KeyInv
  BY DEF IInv
<1>1. ASSUME NEW r \in Request, Commit(r) \/ CommitUnacknowledged(r)
      PROVE  publications'[k] = publications[k]
  <2>1. pc[r] = "commit" /\ publications' = [publications EXCEPT ![req[r].key] = ReceiptOf(r)]
    BY <1>1 DEF Commit, CommitUnacknowledged, CommitPublication
  <2>2. k # req[r].key
    BY <1>0, <2>1 DEF KeyInv
  <2> QED
    BY <1>0, <2>1, <2>2 DEF TypeOK
<1>2. ASSUME NEW r \in Request, RequestNext(r), ~(Commit(r) \/ CommitUnacknowledged(r))
      PROVE  UNCHANGED publications
  BY <1>2 DEF RequestNext, Submit, Existing, PutAudio, PutAudioUnacknowledged,
              Reserve, Relookup, WriteContent, AppendEvent, Fail
<1>3. ASSUME NEW a \in AdminOp, AdminNext(a) PROVE UNCHANGED publications
  BY <1>3 DEF AdminNext, SetContentStatus, AppendEvent, AdminCommit, AdminFail
<1> QED
  BY <1>1, <1>2, <1>3 DEF Next, vars

\* Every step keeps the answers in agreement with the ledger and with each other.
LEMMA AnswerStep ==
    IInv /\ [Next]_vars => AnswerInv' /\ IdempotentAnswers' /\ ReservationNeverLost'
<1> DEFINE Goal == AnswerInv /\ IdempotentAnswers /\ ReservationNeverLost
<1> SUFFICES ASSUME IInv, [Next]_vars PROVE Goal'
  OBVIOUS
<1>0. TypeOK /\ StepInv /\ KeyInv /\ Goal
  BY DEF IInv
<1>1. \A r \in Request : pc[r] # "idle" => req[r] \in Document /\ req[r].key \in Key
  BY <1>0, DocumentAssumption DEF StepInv
<1>2. ASSUME UNCHANGED answer,
             \A s \in Request :
                 pc[s] = "answered" => pc'[s] = "answered" /\ req'[s] = req[s]
      PROVE  Goal'
  <2>1. \A s \in Request : answer'[s] # None => pc'[s] = "answered" /\ req'[s] = req[s]
    BY <1>0, <1>2 DEF AnswerInv
  <2>2. \A s \in Request : Accepted(s) =>
            publications[req[s].key] # None
                /\ publications'[req[s].key] = publications[req[s].key]
    BY <1>0, <1>1, PublicationFrame DEF AnswerInv, Accepted
  <2>3. AnswerInv'
    BY <1>0, <1>2, <2>1, <2>2 DEF AnswerInv, Accepted
  <2>4. IdempotentAnswers'
    BY <1>0, <1>2, <2>1 DEF IdempotentAnswers, Accepted, Created
  <2>5. ReservationNeverLost'
    BY <1>0, <1>2 DEF ReservationNeverLost
  <2> QED
    BY <2>3, <2>4, <2>5
<1>3. ASSUME NEW r \in Request, NEW reply \in Answer, pc[r] # "answered", pc[r] # "idle",
             Reply(r, reply), UNCHANGED req, reply.result # "lost",
             reply.result \in {"created", "duplicate"} =>
                 publications'[req[r].key] # None /\ reply.receipt = publications'[req[r].key],
             reply.result = "created" => publications[req[r].key] = None
      PROVE  Goal'
  <2>1. /\ answer'[r] = reply /\ pc'[r] = "answered"
        /\ \A s \in Request \ {r} : answer'[s] = answer[s] /\ pc'[s] = pc[s]
    BY <1>0, <1>3 DEF Reply, Goto, TypeOK, Tx
  <2>2. \A s \in Request : Accepted(s) =>
            /\ publications[req[s].key] # None
            /\ publications'[req[s].key] = publications[req[s].key]
            /\ answer[s].receipt = publications'[req[s].key]
    BY <1>0, <1>1, PublicationFrame DEF AnswerInv, Accepted
  <2>3. AnswerInv'
    BY <1>0, <1>3, <2>1, <2>2 DEF AnswerInv, Accepted
  <2>4. IdempotentAnswers'
    <3>1. \A s \in Request : Accepted(s)' =>
              answer'[s].receipt = publications'[req[s].key]
      BY <1>3, <2>1, <2>2 DEF Accepted
    <3>2. \A s, u \in Request :
              Created(s)' /\ Created(u)' /\ req[s].key = req[u].key => s = u
      BY <1>0, <1>3, <2>1, <2>2 DEF Accepted, Created, IdempotentAnswers
    <3> QED
      BY <1>3, <3>1, <3>2 DEF IdempotentAnswers, Accepted, Created
  <2>5. ReservationNeverLost'
    BY <1>0, <1>3, <2>1 DEF ReservationNeverLost
  <2> QED
    BY <2>3, <2>4, <2>5
<1>4. \A e \in {"integrity", "failed"} :
          [result |-> e] \in Answer /\ [result |-> e].result = e
  BY DEF Answer
<1> HIDE DEF Goal
<1>5. ASSUME NEW r \in Request, NEW k \in Key, k = req[r].key, publications[k] # None,
             pc[r] # "answered", pc[r] # "idle", Reply(r, Duplicate(k)),
             UNCHANGED <<req, publications>>
      PROVE  Goal'
  <2>1. Duplicate(k) \in Answer
    BY <1>0, <1>5 DEF Duplicate, Answer, TypeOK
  <2> QED
    BY <1>3, <1>5, <2>1 DEF Duplicate
<1>6. ASSUME NEW r \in Request, NEW d \in Document, Submit(r, d) PROVE Goal'
  BY <1>0, <1>2, <1>6 DEF Submit, Goto, TypeOK, Tx
<1>7. ASSUME NEW r \in Request, Existing(r) PROVE Goal'
  <2>1. CASE publications[req[r].key] # None
    BY <1>1, <1>5, <1>7, <2>1 DEF Existing
  <2>2. CASE publications[req[r].key] = None
    BY <1>0, <1>2, <1>7, <2>2 DEF Existing, Goto, TypeOK, Tx
  <2> QED
    BY <2>1, <2>2
<1>8. ASSUME NEW r \in Request, PutAudio(r) PROVE Goal'
  <2>1. CASE req[r].bytes = req[r].sha
    BY <1>0, <1>2, <1>8, <2>1 DEF PutAudio, Goto, TypeOK, Tx
  <2>2. CASE req[r].bytes # req[r].sha
    BY <1>3, <1>4, <1>8, <2>2 DEF PutAudio
  <2> QED
    BY <2>1, <2>2
<1>9. ASSUME NEW r \in Request, PutAudioUnacknowledged(r) PROVE Goal'
  BY <1>3, <1>4, <1>9 DEF PutAudioUnacknowledged
<1>10. ASSUME NEW r \in Request, Reserve(r) \/ WriteContent(r) PROVE Goal'
  BY <1>0, <1>2, <1>10 DEF Reserve, WriteContent, Goto, TypeOK, Tx
<1>11. ASSUME NEW r \in Request, Relookup(r) PROVE Goal'
  <2>1. publications[req[r].key] # None
    BY <1>0, <1>11 DEF Relookup, KeyInv
  <2> QED
    BY <1>1, <1>5, <1>11, <2>1 DEF Relookup
<1>12. ASSUME NEW t \in Tx, AppendEvent(t) PROVE Goal'
  BY <1>0, <1>2, <1>12 DEF AppendEvent, Goto, TypeOK, Tx
<1>13. ASSUME NEW r \in Request, Commit(r) PROVE Goal'
  <2> DEFINE reply == [result |-> "created", receipt |-> ReceiptOf(r)]
  <2>1. pc[r] = "commit" /\ Reply(r, reply) /\ UNCHANGED req
        /\ publications' = [publications EXCEPT ![req[r].key] = ReceiptOf(r)]
    BY <1>13 DEF Commit, CommitPublication
  <2>2. ReceiptOf(r) \in Receipt /\ ReceiptOf(r) # None
    BY <2>1, ReceiptFacts
  <2>3. reply \in Answer
    BY <2>2 DEF Answer
  <2>4. publications[req[r].key] = None /\ publications'[req[r].key] = ReceiptOf(r)
    BY <1>0, <1>1, <2>1 DEF KeyInv, TypeOK
  <2> QED
    BY <1>3, <2>1, <2>2, <2>3, <2>4
<1>14. ASSUME NEW r \in Request, CommitUnacknowledged(r) \/ Fail(r) PROVE Goal'
  BY <1>3, <1>4, <1>14 DEF CommitUnacknowledged, CommitPublication, Fail
<1>15. ASSUME NEW a \in AdminOp,
              \/ \E i \in Item, s \in {"published", "hidden"} : SetContentStatus(a, i, s)
              \/ AdminCommit(a) \/ AdminFail(a)
       PROVE  Goal'
  BY <1>0, <1>2, <1>15, TxAssumption
  DEF SetContentStatus, AdminCommit, AdminFail, Goto, TypeOK, Tx
<1>16. CASE UNCHANGED vars
  BY <1>2, <1>16 DEF vars
<1> QED
  BY <1>6, <1>7, <1>8, <1>9, <1>10, <1>11, <1>12, <1>13, <1>14, <1>15, <1>16
  DEF Next, RequestNext, AdminNext, Tx

-----------------------------------------------------------------------------
\* IInv is inductive.
LEMMA InductiveStep == IInv /\ [Next]_vars => IInv'
  BY TypeStep, StepStep, KeyStep, RowStep, SequenceStep, LogStep, OrderStep,
     StatusStep, AnswerStep
  DEF IInv

\* IInv holds in every reachable state.
THEOREM Inductive == Spec => []IInv
  BY InitInv, InductiveStep, PTL DEF Spec

\* The variables keep their types in every reachable state.
THEOREM TypeCorrect == Spec => []TypeOK
<1>1. IInv => TypeOK
  BY DEF IInv
<1> QED
  BY <1>1, Inductive, PTL

\* Requests with one idempotency key are told of one receipt, and one at most is
\* told that it created it: Publish answers a retry, early or late, like the first.
THEOREM AnswersAreIdempotent == Spec => []IdempotentAnswers
<1>1. IInv => IdempotentAnswers
  BY DEF IInv
<1> QED
  BY <1>1, Inductive, PTL

\* The "publication reservation lost" error of Publish cannot be returned.
THEOREM ReservationIsNeverLost == Spec => []ReservationNeverLost
<1>1. IInv => ReservationNeverLost
  BY DEF IInv
<1> QED
  BY <1>1, Inductive, PTL

\* The receipt committed for a key is never replaced.
THEOREM ReceiptsStay == Spec => ReceiptsAreFinal
<1>1. IInv /\ [Next]_vars =>
          [\A k \in Key : publications[k] # None => publications'[k] = publications[k]]_vars
  BY PublicationFrame
<1> QED
  BY <1>1, Inductive, PTL DEF Spec, ReceiptsAreFinal

\* Each revision of a content, from the first to the current one, has exactly its
\* event in the log the clients read.
THEOREM LogIsComplete == Spec => []EveryRevisionHasItsEvent
<1>1. IInv => EveryRevisionHasItsEvent
  <2> SUFFICES ASSUME IInv, NEW i \in Item
               PROVE  /\ {e.revision : e \in {f \in events : f.item = i}}
                            = 1 .. contents[i].revision
                      /\ \A e, f \in events :
                             e.item = i /\ f.item = i /\ e.revision = f.revision => e = f
    BY DEF EveryRevisionHasItsEvent
  <2>1. TypeOK /\ LogInv
    BY DEF IInv
  <2>2. \A e \in events : e.item = i =>
            e.revision \in Nat /\ 1 <= e.revision /\ e.revision <= contents[i].revision
    BY <2>1 DEF TypeOK, LogInv, Event
  <2>3. contents[i].revision \in Nat
    BY <2>1 DEF TypeOK, Row
  <2>4. \A n \in 1 .. contents[i].revision : \E e \in events : e.item = i /\ e.revision = n
    BY <2>1 DEF LogInv
  <2> QED
    BY <2>1, <2>2, <2>3, <2>4 DEF LogInv
<1> QED
  BY <1>1, Inductive, PTL

\* The numbers of a content's events follow its revisions.
THEOREM LogIsOrdered == Spec => []EventsFollowRevisions
<1>1. IInv => EventsFollowRevisions
  BY DEF IInv
<1> QED
  BY <1>1, Inductive, PTL

\* The last event of a content is a delete exactly when the content is hidden.
THEOREM LogTellsStatus == Spec => []LastEventTellsStatus
<1>1. IInv => LastEventTellsStatus
  BY DEF IInv
<1> QED
  BY <1>1, Inductive, PTL

-----------------------------------------------------------------------------
\* The audio: a request past its upload, and every transaction that writes, names
\* a digest under which the store holds an object.
Stored(i, d) == d \in Digest /\ objects[i][d] # None

AudioInv ==
    /\ \A r \in Request :
           pc[r] \in {"reserve", "content", "event", "commit"} =>
               Stored(req[r].item, req[r].sha)
    /\ \A t \in Tx : Writing(t) => Stored(Target(t), draft[t].row.audio)
    /\ \A i \in Item : contents[i].revision > 0 => Stored(i, contents[i].audio)

\* The store only gains objects.
LEMMA ObjectsFrame ==
    ASSUME IInv, [Next]_vars, NEW i \in Item, NEW d, Stored(i, d)
    PROVE  Stored(i, d)'
<1>0. TypeOK /\ StepInv
  BY DEF IInv
<1>1. ASSUME NEW r \in Request, pc[r] = "put", StoreAudio(r) PROVE Stored(i, d)'
  <2>1. req[r] \in Document
    BY <1>0, <1>1 DEF StepInv
  <2>2. req[r].item \in Item /\ req[r].sha \in Digest /\ req[r].bytes \in Digest
    BY <2>1, DocumentAssumption
  <2>3. req[r].bytes # None
    BY <2>2, NoneAssumption
  <2> QED
    BY <1>0, <1>1, <2>2, <2>3 DEF StoreAudio, Stored, TypeOK
<1>2. CASE UNCHANGED objects
  BY <1>2 DEF Stored
<1>3. \/ UNCHANGED objects
      \/ \E r \in Request : pc[r] = "put" /\ StoreAudio(r)
  BY DEF Next, RequestNext, AdminNext, vars, Submit, Existing, PutAudio,
         PutAudioUnacknowledged, Reserve, Relookup, WriteContent, AppendEvent, Commit,
         CommitUnacknowledged, CommitPublication, Fail, SetContentStatus, AdminCommit,
         AdminFail
<1> QED
  BY <1>1, <1>2, <1>3

\* A request reaches the reservation only through its upload.
LEMMA UploadFrame ==
    ASSUME IInv, [Next]_vars, NEW r \in Request,
           pc'[r] \in {"reserve", "content", "event", "commit"}
    PROVE  \/ pc[r] \in {"reserve", "content", "event", "commit"} /\ req'[r] = req[r]
           \/ pc[r] = "put" /\ StoreAudio(r) /\ UNCHANGED req
<1>0. TypeOK /\ StepInv
  BY DEF IInv
<1> USE <1>0, TxAssumption DEF TypeOK, Tx, Goto, Reply
<1>1. ASSUME NEW s \in Request, RequestNext(s), s # r
      PROVE  pc'[r] = pc[r] /\ req'[r] = req[r]
  BY <1>1 DEF RequestNext, Submit, Existing, PutAudio, PutAudioUnacknowledged, Reserve,
              Relookup, WriteContent, AppendEvent, Commit, CommitUnacknowledged,
              CommitPublication, Fail
<1>2. ASSUME RequestNext(r), ~PutAudio(r)
      PROVE  pc[r] \in {"reserve", "content", "event", "commit"} /\ req'[r] = req[r]
  BY <1>2 DEF RequestNext, Submit, Existing, PutAudioUnacknowledged, Reserve,
              Relookup, WriteContent, AppendEvent, Commit, CommitUnacknowledged,
              CommitPublication, Fail
<1>3. CASE PutAudio(r)
  BY <1>3 DEF PutAudio
<1>4. ASSUME NEW a \in AdminOp, AdminNext(a)
      PROVE  pc'[r] = pc[r] /\ req'[r] = req[r]
  BY <1>4 DEF AdminNext, SetContentStatus, AppendEvent, AdminCommit, AdminFail
<1>5. CASE UNCHANGED vars
  BY <1>5 DEF vars
<1> QED
  BY <1>1, <1>2, <1>3, <1>4, <1>5 DEF Next

\* A transaction writes on with the row it has drafted, or drafts one from a
\* request past its upload or from a row that was committed before.
LEMMA DraftFrame ==
    ASSUME IInv, [Next]_vars, NEW t \in Tx, Writing(t)'
    PROVE  \/ Writing(t) /\ Target(t)' = Target(t) /\ draft'[t].row = draft[t].row
           \/ /\ t \in Request /\ pc[t] = "content"
              /\ Target(t)' = req[t].item /\ draft'[t].row.audio = req[t].sha
           \/ \E i \in Item :
                  /\ contents[i].revision > 0
                  /\ Target(t)' = i /\ draft'[t].row.audio = contents[i].audio
<1>0. TypeOK /\ StepInv
  BY DEF IInv
<1> USE <1>0, TxAssumption DEF TypeOK, Tx, Goto, Reply, Writing, Target
<1>1. ASSUME NEW r \in Request,
             \/ \E d \in Document : Submit(r, d)
             \/ Existing(r) \/ PutAudio(r) \/ PutAudioUnacknowledged(r)
             \/ Reserve(r) \/ Relookup(r)
      PROVE  Writing(t) /\ Target(t)' = Target(t) /\ draft'[t].row = draft[t].row
  BY <1>1 DEF Submit, Existing, PutAudio, PutAudioUnacknowledged, Reserve, Relookup
<1>2. ASSUME NEW u \in Tx, u # t,
             pc' = [pc EXCEPT ![u] = pc'[u]], draft'[t] = draft[t],
             \A r \in Request : r # u => req'[r] = req[r],
             \A a \in AdminOp : a # u => job'[a] = job[a]
      PROVE  Writing(t) /\ Target(t)' = Target(t) /\ draft'[t].row = draft[t].row
  BY <1>2
<1>3. ASSUME NEW r \in Request, WriteContent(r), r # t
      PROVE  Writing(t) /\ Target(t)' = Target(t) /\ draft'[t].row = draft[t].row
  BY <1>2, <1>3 DEF WriteContent, WriteRow
<1>4. ASSUME t \in Request, WriteContent(t)
      PROVE  /\ t \in Request /\ pc[t] = "content"
             /\ Target(t)' = req[t].item /\ draft'[t].row.audio = req[t].sha
  BY <1>4 DEF WriteContent, WriteRow, PublishedRow
<1>5. ASSUME NEW u \in Tx, AppendEvent(u)
      PROVE  Writing(t) /\ Target(t)' = Target(t) /\ draft'[t].row = draft[t].row
  <2>1. draft[u] \in Draft
    BY <1>5, WriterFacts DEF AppendEvent
  <2> QED
    BY <1>5, <2>1 DEF AppendEvent, Draft
<1>6. ASSUME NEW u \in Tx, pc' = [pc EXCEPT ![u] = pc'[u]],
             pc'[u] \in {"answered", "done"}, EndTransaction(u), UNCHANGED <<req, job>>
      PROVE  Writing(t) /\ Target(t)' = Target(t) /\ draft'[t].row = draft[t].row
  BY <1>6 DEF EndTransaction
<1>7. ASSUME NEW r \in Request, Commit(r) \/ CommitUnacknowledged(r) \/ Fail(r)
      PROVE  Writing(t) /\ Target(t)' = Target(t) /\ draft'[t].row = draft[t].row
  BY <1>6, <1>7 DEF Commit, CommitUnacknowledged, CommitPublication, Fail
<1>8. ASSUME NEW a \in AdminOp, AdminCommit(a) \/ AdminFail(a)
      PROVE  Writing(t) /\ Target(t)' = Target(t) /\ draft'[t].row = draft[t].row
  BY <1>6, <1>8 DEF AdminCommit, AdminFail
<1>9. ASSUME NEW a \in AdminOp, NEW i \in Item, NEW s \in {"published", "hidden"},
             SetContentStatus(a, i, s), a # t
      PROVE  Writing(t) /\ Target(t)' = Target(t) /\ draft'[t].row = draft[t].row
  BY <1>2, <1>9 DEF SetContentStatus, WriteRow
<1>10. ASSUME t \in AdminOp, NEW i \in Item, NEW s \in {"published", "hidden"},
              SetContentStatus(t, i, s)
       PROVE  /\ contents[i].revision > 0
              /\ Target(t)' = i /\ draft'[t].row.audio = contents[i].audio
  BY <1>10 DEF SetContentStatus, WriteRow, ModeratedRow
<1>11. CASE UNCHANGED vars
  BY <1>11 DEF vars
<1> QED
  BY <1>1, <1>3, <1>4, <1>5, <1>7, <1>8, <1>9, <1>10, <1>11
  DEF Next, RequestNext, AdminNext

\* Every step keeps the audio of requests, drafts and rows in the store.
LEMMA AudioStep == IInv /\ AudioInv /\ [Next]_vars => AudioInv'
<1> SUFFICES ASSUME IInv, AudioInv, [Next]_vars PROVE AudioInv'
  OBVIOUS
<1>1. ASSUME NEW r \in Request, pc'[r] \in {"reserve", "content", "event", "commit"}
      PROVE  Stored(req[r].item, req[r].sha)'
  <2>1. CASE pc[r] \in {"reserve", "content", "event", "commit"} /\ req'[r] = req[r]
    <3>1. Stored(req[r].item, req[r].sha)
      BY <2>1 DEF AudioInv
    <3>2. req[r].item \in Item
      BY <2>1, DocumentAssumption DEF IInv, StepInv
    <3> QED
      BY <2>1, <3>1, <3>2, ObjectsFrame DEF Stored
  <2>2. CASE pc[r] = "put" /\ StoreAudio(r) /\ UNCHANGED req
    <3>1. req[r] \in Document
      BY <2>2 DEF IInv, StepInv
    <3>2. req[r].item \in Item /\ req[r].sha \in Digest /\ req[r].bytes \in Digest
      BY <3>1, DocumentAssumption
    <3>3. req[r].bytes # None
      BY <3>2, NoneAssumption
    <3> QED
      BY <2>2, <3>2, <3>3 DEF StoreAudio, Stored, IInv, TypeOK
  <2> QED
    BY <1>1, <2>1, <2>2, UploadFrame
<1>2. ASSUME NEW t \in Tx, Writing(t)'
      PROVE  Stored(Target(t), draft[t].row.audio)'
  <2>1. CASE Writing(t) /\ Target(t)' = Target(t) /\ draft'[t].row = draft[t].row
    BY <2>1, WriterFacts, ObjectsFrame DEF AudioInv, Stored
  <2>2. CASE /\ t \in Request /\ pc[t] = "content"
             /\ Target(t)' = req[t].item /\ draft'[t].row.audio = req[t].sha
    <3>1. Stored(req[t].item, req[t].sha)
      BY <2>2 DEF AudioInv
    <3>2. req[t].item \in Item
      BY <2>2, DocumentAssumption DEF IInv, StepInv
    <3> QED
      BY <2>2, <3>1, <3>2, ObjectsFrame DEF Stored
  <2>3. ASSUME NEW i \in Item, contents[i].revision > 0,
               Target(t)' = i, draft'[t].row.audio = contents[i].audio
        PROVE  Stored(Target(t), draft[t].row.audio)'
    <3>1. Stored(i, contents[i].audio)
      BY <2>3 DEF AudioInv
    <3> QED
      BY <2>3, <3>1, ObjectsFrame DEF Stored
  <2> QED
    BY <1>2, <2>1, <2>2, <2>3, DraftFrame
<1>3. ASSUME NEW i \in Item, contents'[i].revision > 0
      PROVE  Stored(i, contents[i].audio)'
  <2>1. CASE contents'[i] = contents[i]
    BY <1>3, <2>1, ObjectsFrame DEF AudioInv, Stored
  <2>2. ASSUME NEW t \in Tx, pc[t] = "commit", CommitRow(t, Target(t)), i = Target(t)
        PROVE  Stored(i, contents[i].audio)'
    <3>1. Stored(i, draft[t].row.audio)
      BY <2>2 DEF AudioInv, Writing
    <3>2. contents'[i] = draft[t].row
      BY <2>2 DEF CommitRow, IInv, TypeOK
    <3> QED
      BY <3>1, <3>2, ObjectsFrame DEF Stored
  <2> QED
    BY <2>1, <2>2, LogFrame, CommitFacts
<1> QED
  BY <1>1, <1>2, <1>3 DEF AudioInv

\* The audio of every content is in the store before a reader can be sent to it:
\* Publish uploads first and commits the row last, and moderation keeps the link.
THEOREM AudioStays == Spec => []AudioIsStored
<1>1. Init => AudioInv
  BY DEF Init, AudioInv, Writing, NoContent, Tx
<1>2. AudioInv => AudioIsStored
  BY DEF AudioInv, AudioIsStored, Stored
<1> QED
  BY <1>1, <1>2, AudioStep, Inductive, PTL DEF Spec
=============================================================================

---------------------------- MODULE LedgerProofs ----------------------------
(***************************************************************************)
(* Publishing implements PublicationLedger: whatever the order of lookups, *)
(* uploads, reservations and commits, what callers are told and what is    *)
(* committed is what a service with atomic publications could have shown.  *)
(***************************************************************************)
EXTENDS PublishingProofs

\* What the simulation needs beyond IInv: a request that was not submitted has no
\* document, and an admin run works on a content that exists.
MappingInv ==
    /\ \A r \in Request : pc[r] = "idle" => req[r] = None
    /\ \A a \in AdminOp : Writing(a) => contents[Target(a)].revision > 0

\* A content's revision never goes down.
LEMMA RevisionGrows ==
    ASSUME IInv, [Next]_vars, NEW i \in Item
    PROVE  contents'[i].revision >= contents[i].revision
<1>1. contents[i].revision \in Nat
  BY DEF IInv, TypeOK, Row
<1>2. ASSUME NEW t \in Tx, pc[t] = "commit", CommitRow(t, Target(t))
      PROVE  contents'[i].revision >= contents[i].revision
  BY <1>1, <1>2, CommitFacts
<1> QED
  BY <1>1, <1>2, LogFrame

\* An admin run that writes wrote before, on the same content, or has just found
\* the content there.
LEMMA AdminFrame ==
    ASSUME IInv, [Next]_vars, NEW a \in AdminOp, Writing(a)'
    PROVE  \/ Writing(a) /\ Target(a)' = Target(a)
           \/ \E i \in Item : Target(a)' = i /\ contents[i].revision > 0
<1>0. TypeOK /\ StepInv
  BY DEF IInv
<1> USE <1>0, TxAssumption DEF TypeOK, Tx, Goto, Reply, Writing, Target
<1>1. ASSUME NEW r \in Request, RequestNext(r)
      PROVE  Writing(a) /\ Target(a)' = Target(a)
  BY <1>1 DEF RequestNext, Submit, Existing, PutAudio, PutAudioUnacknowledged, Reserve,
              Relookup, WriteContent, AppendEvent, Commit, CommitUnacknowledged,
              CommitPublication, Fail
<1>2. ASSUME NEW b \in AdminOp, NEW i \in Item, NEW s \in {"published", "hidden"},
             SetContentStatus(b, i, s)
      PROVE  \/ Writing(a) /\ Target(a)' = Target(a)
             \/ \E j \in Item : Target(a)' = j /\ contents[j].revision > 0
  BY <1>2 DEF SetContentStatus
<1>3. ASSUME NEW b \in AdminOp, AppendEvent(b) \/ AdminCommit(b) \/ AdminFail(b)
      PROVE  Writing(a) /\ Target(a)' = Target(a)
  BY <1>3 DEF AppendEvent, AdminCommit, AdminFail
<1>4. CASE UNCHANGED vars
  BY <1>4 DEF vars
<1> QED
  BY <1>1, <1>2, <1>3, <1>4 DEF Next, AdminNext

\* Every step keeps what the mapping relies on.
LEMMA MappingStep == IInv /\ MappingInv /\ [Next]_vars => MappingInv'
<1> SUFFICES ASSUME IInv, MappingInv, [Next]_vars PROVE MappingInv'
  OBVIOUS
<1>0. TypeOK /\ StepInv /\ StepInv'
  BY StepStep DEF IInv
<1>1. ASSUME NEW r \in Request, pc'[r] = "idle" PROVE req'[r] = None
  <2> USE <1>0, TxAssumption DEF TypeOK, Tx, Goto, Reply
  <2>1. pc[r] = "idle" => req[r] = None
    BY DEF MappingInv
  <2>2. ASSUME NEW s \in Request, RequestNext(s) PROVE req'[r] = None
    BY <1>1, <2>1, <2>2
    DEF RequestNext, Submit, Existing, PutAudio, PutAudioUnacknowledged, Reserve,
        Relookup, WriteContent, AppendEvent, Commit, CommitUnacknowledged,
        CommitPublication, Fail
  <2>3. ASSUME NEW a \in AdminOp, AdminNext(a) PROVE req'[r] = None
    BY <1>1, <2>1, <2>3 DEF AdminNext, SetContentStatus, AppendEvent, AdminCommit, AdminFail
  <2>4. CASE UNCHANGED vars
    BY <1>1, <2>1, <2>4 DEF vars
  <2> QED
    BY <2>2, <2>3, <2>4 DEF Next
<1>2. ASSUME NEW a \in AdminOp, Writing(a)' PROVE contents'[Target(a)'].revision > 0
  <2>1. CASE Writing(a) /\ Target(a)' = Target(a)
    <3>1. Target(a) \in Item
      BY <2>1, WriterFacts DEF Tx
    <3>2. contents[Target(a)].revision > 0
      BY <2>1 DEF MappingInv
    <3>3. contents[Target(a)].revision \in Nat /\ contents'[Target(a)].revision \in Nat
      BY <1>0, <3>1, TypeStep DEF TypeOK, Row
    <3> QED
      BY <2>1, <3>1, <3>2, <3>3, RevisionGrows
  <2>2. ASSUME NEW i \in Item, Target(a)' = i, contents[i].revision > 0
        PROVE  contents'[Target(a)'].revision > 0
    <3>1. contents[i].revision \in Nat /\ contents'[i].revision \in Nat
      BY <1>0, TypeStep DEF TypeOK, Row
    <3> QED
      BY <2>2, <3>1, RevisionGrows
  <2> QED
    BY <1>2, <2>1, <2>2, AdminFrame
<1> QED
  BY <1>1, <1>2 DEF MappingInv

-----------------------------------------------------------------------------
\* The empty store is the empty ledger.
LEMMA InitSimulates == Init => Ledger!Init
<1> SUFFICES ASSUME Init PROVE Ledger!Init
  OBVIOUS
<1>1. [i \in Item |-> StatusAndRevision(contents[i])]
          = [i \in Item |-> [status |-> "absent", revision |-> 0]]
  BY DEF Init, NoContent, StatusAndRevision
<1>2. {ChangeOf(e) : e \in events} = {}
  BY DEF Init
<1> QED
  BY <1>1, <1>2 DEF Init, Ledger!Init

\* A commit changes the catalogue and the changes as one abstract step does.
LEMMA CommitSimulates ==
    ASSUME IInv, NEW t \in Tx, pc[t] = "commit", CommitRow(t, Target(t))
    PROVE  /\ draft[t].row.status \in {"published", "hidden"}
           /\ Ledger!Change(Target(t), draft[t].row.status)
<1> DEFINE i == Target(t)
           row == draft[t].row
           e == EventOf(t, i)
<1>1. i \in Item /\ row \in Row
  BY WriterFacts DEF Writing
<1>2. row.revision = contents[i].revision + 1 /\ row.status # "absent"
  BY DEF IInv, RowInv, Writing
<1>3. row.status \in {"published", "hidden"}
  BY <1>1, <1>2 DEF Row, Status
<1>4. contents' = [contents EXCEPT ![i] = row] /\ contents \in [Item -> Row]
  BY DEF CommitRow, IInv, TypeOK
<1>5. [j \in Item |-> StatusAndRevision(contents[j])]'
          = [[j \in Item |-> StatusAndRevision(contents[j])] EXCEPT ![i] =
                [status |-> row.status, revision |-> contents[i].revision + 1]]
  BY <1>1, <1>2, <1>4 DEF StatusAndRevision
<1>6. ChangeOf(e) = [item |-> i, revision |-> contents[i].revision + 1,
                     operation |-> IF row.status = "hidden" THEN "delete" ELSE "upsert"]
  BY <1>2 DEF EventOf, ChangeOf, Operation
<1>7. events' = events \cup {e}
  BY DEF CommitRow
<1>8. {ChangeOf(f) : f \in events}' = {ChangeOf(f) : f \in events} \cup {ChangeOf(e)}
  BY <1>7 DEF ChangeOf
<1>9. [j \in Item |-> StatusAndRevision(contents[j])][i].revision = contents[i].revision
  BY <1>1 DEF StatusAndRevision
<1> QED
  BY <1>3, <1>5, <1>6, <1>8, <1>9 DEF Ledger!Change

\* A step that leaves rows, log and receipts alone leaves the ledger alone.
LEMMA NothingCommitted ==
    ASSUME UNCHANGED <<contents, events, publications>>
    PROVE  UNCHANGED <<publications, [i \in Item |-> StatusAndRevision(contents[i])],
                       {ChangeOf(e) : e \in events}>>
  BY DEF StatusAndRevision, ChangeOf

\* An answer without a publication repeats a receipt or refuses.
LEMMA RefusalSimulates ==
    ASSUME IInv, NEW r \in Request, NEW e \in {"integrity", "failed"},
           pc[r] \notin {"idle", "answered"},
           Reply(r, [result |-> e]), UNCHANGED req,
           UNCHANGED <<contents, events, publications>>
    PROVE  Ledger!Refuse(r)
<1>1. req[r] # None
  BY NoneAssumption DEF IInv, StepInv
<1>2. answer[r] = None
  BY DEF IInv, AnswerInv
<1> QED
  BY <1>1, <1>2, NothingCommitted DEF Ledger!Refuse, Ledger!Answer, Reply

\* A publication that is repeated is a step of the ledger.
LEMMA RepetitionSimulates ==
    ASSUME IInv, NEW r \in Request,
           pc[r] \notin {"idle", "answered"}, publications[req[r].key] # None,
           Reply(r, Duplicate(req[r].key)), UNCHANGED req,
           UNCHANGED <<contents, events, publications>>
    PROVE  Ledger!Repeat(r)
<1>1. req[r] # None
  BY NoneAssumption DEF IInv, StepInv
<1>2. answer[r] = None
  BY DEF IInv, AnswerInv
<1> QED
  BY <1>1, <1>2, NothingCommitted DEF Ledger!Repeat, Ledger!Answer, Reply, Duplicate

\* The commit of a publication publishes, whether it is acknowledged or not.
LEMMA PublicationSimulates ==
    ASSUME IInv, NEW r \in Request, Commit(r) \/ CommitUnacknowledged(r)
    PROVE  Ledger!Publish(r)
<1> DEFINE k == req[r].key
           i == req[r].item
           receipt == [item |-> i, revision |-> contents[i].revision + 1]
<1>1. /\ pc[r] = "commit" /\ Target(r) = i /\ CommitRow(r, Target(r))
      /\ publications' = [publications EXCEPT ![k] = ReceiptOf(r)]
      /\ UNCHANGED req
  BY DEF Commit, CommitUnacknowledged, CommitPublication, Target
<1>2. req[r] \in Document /\ i \in Item /\ draft[r].row.status = "published"
      /\ draft[r].row.revision = contents[i].revision + 1
  BY <1>1, WriterFacts DEF Writing, Tx, IInv, RowInv
<1>3. ReceiptOf(r) = receipt
  BY <1>2 DEF ReceiptOf
<1>4. req[r] # None /\ answer[r] = None /\ publications[k] = None
  BY <1>1, <1>2, NoneAssumption DEF IInv, AnswerInv, KeyInv
<1>5. Ledger!Change(i, "published")
  BY <1>1, <1>2, CommitSimulates DEF Tx
<1>6. \/ answer' = [answer EXCEPT ![r] = [result |-> "created", receipt |-> receipt]]
      \/ answer' = [answer EXCEPT ![r] = [result |-> "failed"]]
  BY <1>3 DEF Commit, CommitUnacknowledged, CommitPublication, Reply
<1>7. [j \in Item |-> StatusAndRevision(contents[j])][i].revision = contents[i].revision
  BY <1>2 DEF StatusAndRevision
<1> QED
  BY <1>1, <1>3, <1>4, <1>5, <1>6, <1>7 DEF Ledger!Publish, Ledger!Answer

\* The commit of an admin run moderates.
LEMMA ModerationSimulates ==
    ASSUME IInv, MappingInv, NEW a \in AdminOp, AdminCommit(a)
    PROVE  \E i \in Item, s \in {"published", "hidden"} : Ledger!Moderate(i, s)
<1> DEFINE i == Target(a)
           s == draft[a].row.status
<1>1. /\ pc[a] = "commit" /\ CommitRow(a, i)
      /\ UNCHANGED <<req, answer, publications>>
  BY TxAssumption DEF AdminCommit, Target
<1>2. i \in Item
  BY <1>1, WriterFacts DEF Writing, Tx
<1>3. s \in {"published", "hidden"} /\ Ledger!Change(i, s)
  BY <1>1, CommitSimulates DEF Tx
<1>4. contents[i].revision > 0
  BY <1>1 DEF MappingInv, Writing
<1>5. [j \in Item |-> StatusAndRevision(contents[j])][i].revision > 0
  BY <1>2, <1>4 DEF StatusAndRevision
<1>6. Ledger!Moderate(i, s)
  BY <1>1, <1>3, <1>5 DEF Ledger!Moderate
<1> QED
  BY <1>2, <1>3, <1>6

\* Every step of the code is a step of the ledger or changes nothing of it.
LEMMA StepSimulates ==
    IInv /\ MappingInv /\ [Next]_vars => [Ledger!Next]_(Ledger!vars)
<1> SUFFICES ASSUME IInv, MappingInv, [Next]_vars
             PROVE  Ledger!Next \/ UNCHANGED Ledger!vars
  OBVIOUS
<1>1. ASSUME NEW r \in Request, NEW d \in Document, Submit(r, d) PROVE Ledger!Next
  <2>1. req[r] = None /\ pc[r] = "idle"
    BY <1>1 DEF Submit, MappingInv
  <2>2. Ledger!Ask(r, d)
    BY <1>1, <2>1, NothingCommitted DEF Submit, Ledger!Ask
  <2> QED
    BY <2>2 DEF Ledger!Next
<1>2. ASSUME UNCHANGED <<req, answer, contents, events, publications>>
      PROVE  UNCHANGED Ledger!vars
  BY <1>2, NothingCommitted DEF Ledger!vars
<1>3. ASSUME NEW r \in Request, NEW e \in {"integrity", "failed"},
             pc[r] \notin {"idle", "answered"},
             Reply(r, [result |-> e]), UNCHANGED <<req, contents, events, publications>>
      PROVE  Ledger!Next
  BY <1>3, RefusalSimulates DEF Ledger!Next
<1>4. ASSUME NEW r \in Request, Existing(r) PROVE Ledger!Next \/ UNCHANGED Ledger!vars
  <2>1. CASE publications[req[r].key] # None
    BY <1>4, <2>1, RepetitionSimulates DEF Existing, Ledger!Next
  <2>2. CASE publications[req[r].key] = None
    BY <1>2, <1>4, <2>2 DEF Existing
  <2> QED
    BY <2>1, <2>2
<1>5. ASSUME NEW r \in Request, PutAudio(r) PROVE Ledger!Next \/ UNCHANGED Ledger!vars
  BY <1>2, <1>3, <1>5 DEF PutAudio
<1>6. ASSUME NEW r \in Request, PutAudioUnacknowledged(r) \/ Fail(r) PROVE Ledger!Next
  BY <1>3, <1>6 DEF PutAudioUnacknowledged, Fail
<1>7. ASSUME NEW r \in Request, Reserve(r) \/ WriteContent(r)
      PROVE  UNCHANGED Ledger!vars
  BY <1>2, <1>7 DEF Reserve, WriteContent
<1>8. ASSUME NEW r \in Request, Relookup(r) PROVE Ledger!Next
  <2>1. publications[req[r].key] # None
    BY <1>8 DEF Relookup, IInv, KeyInv
  <2> QED
    BY <1>8, <2>1, RepetitionSimulates DEF Relookup, Ledger!Next
<1>9. ASSUME NEW t \in Tx, AppendEvent(t) PROVE UNCHANGED Ledger!vars
  BY <1>2, <1>9 DEF AppendEvent
<1>10. ASSUME NEW r \in Request, Commit(r) \/ CommitUnacknowledged(r) PROVE Ledger!Next
  BY <1>10, PublicationSimulates DEF Ledger!Next
<1>11. ASSUME NEW a \in AdminOp, NEW i \in Item, NEW s \in {"published", "hidden"},
              SetContentStatus(a, i, s)
       PROVE  UNCHANGED Ledger!vars
  BY <1>2, <1>11 DEF SetContentStatus
<1>12. ASSUME NEW a \in AdminOp, AdminCommit(a) PROVE Ledger!Next
  BY <1>12, ModerationSimulates DEF Ledger!Next
<1>13. ASSUME NEW a \in AdminOp, AdminFail(a) PROVE UNCHANGED Ledger!vars
  BY <1>2, <1>13 DEF AdminFail
<1>14. CASE UNCHANGED vars
  BY <1>2, <1>14 DEF vars
<1> QED
  BY <1>1, <1>4, <1>5, <1>6, <1>7, <1>8, <1>9, <1>10, <1>11, <1>12, <1>13, <1>14
  DEF Next, RequestNext, AdminNext, Tx

-----------------------------------------------------------------------------
\* The calls, locks and transactions of Publish and of the admin command implement
\* a service that publishes and moderates in single steps.
THEOREM LedgerIsImplemented == Spec => ImplementsLedger
<1>1. Init => MappingInv
  BY DEF Init, MappingInv, Writing, Tx
<1> QED
  BY <1>1, InitSimulates, MappingStep, StepSimulates, Inductive, PTL
  DEF Spec, ImplementsLedger, Ledger!Spec
=============================================================================

------------------------- MODULE CatalogSyncProofs -------------------------
(***************************************************************************)
(* Theorems about CatalogSync for any number of clients, any page size and *)
(* any number of requests, admin runs and contents.  What a client has     *)
(* applied is tied to the log through the numbers of the events: they are  *)
(* drawn one by one, so no two events share one, and a page is what the    *)
(* log has of the lowest numbers beyond the cursor.                        *)
(***************************************************************************)
EXTENDS CatalogSync, PublishingProofs, FiniteSetTheorems

\* No number is drawn twice: not by two events, not by an event and a transaction
\* that is about to commit, not by two such transactions.
DrawnInv ==
    /\ \A e, f \in events : e.sequence = f.sequence => e = f
    /\ \A t \in Tx : pc[t] = "commit" =>
           \A e \in events : e.sequence # draft[t].sequence
    /\ \A t, u \in Tx : pc[t] = "commit" /\ pc[u] = "commit" /\ t # u =>
           draft[t].sequence # draft[u].sequence

\* The types of what the clients keep.
ClientTypeOK ==
    /\ cursor \in [Client -> Nat]
    /\ more \in [Client -> BOOLEAN]
    /\ known \in [Client -> [Item -> [revision : Nat, present : BOOLEAN]]]

\* What a client knows of a content is what an event said whose number its cursor
\* has reached.
KnownInv ==
    \A c \in Client, i \in Item :
        known[c][i].revision > 0 =>
            \E e \in events :
                /\ e.item = i
                /\ e.revision = known[c][i].revision
                /\ e.sequence <= cursor[c]
                /\ known[c][i].present <=> e.operation = "upsert"

\* The inductive invariant behind the theorems about what a client sees.
SyncInv ==
    /\ IInv
    /\ DrawnInv
    /\ IsFiniteSet(events)
    /\ ClientTypeOK
    /\ KnownInv

-----------------------------------------------------------------------------
\* A nonempty bounded set of natural numbers has a largest element.
LEMMA LargestExists ==
    ASSUME NEW S \in SUBSET Nat, S # {}, NEW b \in Nat, \A n \in S : n <= b
    PROVE  \E m \in S : \A n \in S : n <= m
<1> DEFINE T == {k \in Nat : b - k \in S}
<1>1. T \subseteq Nat /\ T # {}
  <2>1. PICK n \in S : TRUE
    OBVIOUS
  <2>2. b - n \in Nat /\ b - (b - n) = n
    BY <2>1
  <2>3. b - n \in T
    BY <2>1, <2>2
  <2> QED
    BY <2>3
<1>2. PICK x \in T : \A y \in T : ~ (<<y, x>> \in OpToRel(<, Nat))
  <2> HIDE DEF T
  <2> QED
    BY <1>1, NatLessThanWellFounded, WFMin
<1>3. \A y \in T : ~ (y < x)
  BY <1>1, <1>2 DEF OpToRel
<1>4. \A n \in S : b - n \in T
  OBVIOUS
<1>5. x \in Nat /\ b - x \in S
  BY <1>2
<1>6. \A n \in S : n <= b - x
  <2> SUFFICES ASSUME NEW n \in S PROVE n <= b - x
    OBVIOUS
  <2>1. ~ (b - n < x)
    BY <1>3, <1>4
  <2> QED
    BY <1>5, <2>1
<1> QED
  BY <1>5, <1>6

\* Max is the largest element of a nonempty bounded set of natural numbers.
LEMMA MaxFacts ==
    ASSUME NEW S \in SUBSET Nat, S # {}, NEW b \in Nat, \A n \in S : n <= b
    PROVE  Max(S) \in S /\ \A n \in S : n <= Max(S)
<1>1. \E m \in S : \A n \in S : m >= n
  BY LargestExists
<1>2. Max(S) \in S /\ \A n \in S : Max(S) >= n
  BY <1>1 DEF Max
<1> QED
  BY <1>2

\* Of two finite sets of events of which one has an element more, it is the larger.
LEMMA StrictSubset ==
    ASSUME NEW S, IsFiniteSet(S), NEW T \in SUBSET S, NEW x \in S, x \notin T
    PROVE  Cardinality(T) < Cardinality(S)
<1>1. /\ Cardinality(T) <= Cardinality(S)
      /\ Cardinality(S) = Cardinality(T) => S = T
      /\ IsFiniteSet(T)
  BY FS_Subset
<1>2. Cardinality(S) \in Nat /\ Cardinality(T) \in Nat
  BY <1>1, FS_CardinalityType
<1> QED
  BY <1>1, <1>2

-----------------------------------------------------------------------------
\* A transaction stands before its commit because it did so, with the draft it
\* had, or because it has just drawn its number.
LEMMA DrawFrame ==
    ASSUME IInv, [Next]_vars, NEW t \in Tx, pc'[t] = "commit"
    PROVE  \/ pc[t] = "commit" /\ draft'[t] = draft[t]
           \/ AppendEvent(t) /\ draft'[t].sequence = nextSequence
<1>0. TypeOK /\ StepInv
  BY DEF IInv
<1> USE <1>0, TxAssumption DEF TypeOK, Tx, Goto, Reply
<1>1. ASSUME NEW r \in Request,
             \/ \E d \in Document : Submit(r, d)
             \/ Existing(r) \/ PutAudio(r) \/ PutAudioUnacknowledged(r)
             \/ Reserve(r) \/ Relookup(r)
      PROVE  pc[t] = "commit" /\ draft'[t] = draft[t]
  BY <1>1 DEF Submit, Existing, PutAudio, PutAudioUnacknowledged, Reserve, Relookup
<1>2. ASSUME NEW r \in Request, WriteContent(r)
      PROVE  pc[t] = "commit" /\ draft'[t] = draft[t]
  BY <1>2 DEF WriteContent, WriteRow
<1>3. ASSUME NEW u \in Tx, AppendEvent(u), u # t
      PROVE  pc[t] = "commit" /\ draft'[t] = draft[t]
  BY <1>3 DEF AppendEvent
<1>4. ASSUME AppendEvent(t)
      PROVE  draft'[t].sequence = nextSequence
  BY <1>4 DEF AppendEvent
<1>5. ASSUME NEW u \in Tx, pc' = [pc EXCEPT ![u] = pc'[u]],
             pc'[u] \in {"answered", "done"}, EndTransaction(u)
      PROVE  pc[t] = "commit" /\ draft'[t] = draft[t]
  BY <1>5 DEF EndTransaction
<1>6. ASSUME NEW r \in Request, Commit(r) \/ CommitUnacknowledged(r) \/ Fail(r)
      PROVE  pc[t] = "commit" /\ draft'[t] = draft[t]
  BY <1>5, <1>6 DEF Commit, CommitUnacknowledged, CommitPublication, Fail
<1>7. ASSUME NEW a \in AdminOp, AdminCommit(a) \/ AdminFail(a)
      PROVE  pc[t] = "commit" /\ draft'[t] = draft[t]
  BY <1>5, <1>7 DEF AdminCommit, AdminFail
<1>8. ASSUME NEW a \in AdminOp, NEW i \in Item, NEW s \in {"published", "hidden"},
             SetContentStatus(a, i, s)
      PROVE  pc[t] = "commit" /\ draft'[t] = draft[t]
  BY <1>8 DEF SetContentStatus, WriteRow
<1>9. CASE UNCHANGED vars
  BY <1>9 DEF vars
<1> QED
  BY <1>1, <1>2, <1>3, <1>4, <1>6, <1>7, <1>8, <1>9
  DEF Next, RequestNext, AdminNext

\* Every event added to the log is that of a transaction that was about to commit
\* and is no longer.
LEMMA CommitFrame ==
    ASSUME IInv, [Next]_vars
    PROVE  \/ UNCHANGED events
           \/ \E t \in Tx :
                  /\ pc[t] = "commit" /\ pc'[t] # "commit"
                  /\ events' = events \cup {EventOf(t, Target(t))}
<1>0. TypeOK
  BY DEF IInv
<1>1. ASSUME NEW r \in Request, Commit(r) \/ CommitUnacknowledged(r)
      PROVE  /\ r \in Tx /\ pc[r] = "commit" /\ pc'[r] # "commit"
             /\ events' = events \cup {EventOf(r, Target(r))}
  BY <1>0, <1>1
  DEF Commit, CommitUnacknowledged, CommitPublication, CommitRow, Reply, Goto, Target,
      Tx, TypeOK
<1>2. ASSUME NEW a \in AdminOp, AdminCommit(a)
      PROVE  /\ a \in Tx /\ pc[a] = "commit" /\ pc'[a] # "commit"
             /\ events' = events \cup {EventOf(a, Target(a))}
  BY <1>0, <1>2, TxAssumption DEF AdminCommit, CommitRow, Goto, Target, Tx, TypeOK
<1>3. ASSUME NEW r \in Request, RequestNext(r), ~(Commit(r) \/ CommitUnacknowledged(r))
      PROVE  UNCHANGED events
  BY <1>3 DEF RequestNext, Submit, Existing, PutAudio, PutAudioUnacknowledged,
              Reserve, Relookup, WriteContent, AppendEvent, Fail
<1>4. ASSUME NEW a \in AdminOp, AdminNext(a), ~AdminCommit(a)
      PROVE  UNCHANGED events
  BY <1>4 DEF AdminNext, SetContentStatus, AppendEvent, AdminFail
<1>5. CASE UNCHANGED vars
  BY <1>5 DEF vars
<1> QED
  BY <1>1, <1>2, <1>3, <1>4, <1>5 DEF Next

\* Every step of the writers keeps the numbers apart: one drawn now is beyond
\* all the others, and an event takes its number from its transaction.
LEMMA DrawnStep == IInv /\ DrawnInv /\ [Next]_vars => DrawnInv'
<1> SUFFICES ASSUME IInv, DrawnInv, [Next]_vars PROVE DrawnInv'
  OBVIOUS
<1>1. /\ nextSequence \in Nat
      /\ \A e \in events : e.sequence \in Nat /\ e.sequence < nextSequence
      /\ \A t \in Tx : pc[t] = "commit" =>
             draft[t].sequence \in Nat /\ draft[t].sequence < nextSequence
  BY WriterFacts DEF IInv, TypeOK, SequenceInv, Event, Writing
<1>2. ASSUME NEW t \in Tx, AppendEvent(t)
      PROVE  /\ UNCHANGED events
             /\ \A u \in Tx : u # t /\ pc'[u] = "commit" =>
                    pc[u] = "commit" /\ draft'[u] = draft[u]
  <2>1. TypeOK
    BY DEF IInv
  <2> QED
    BY <1>2, <2>1 DEF AppendEvent, Goto, TypeOK
<1>3. \A e, f \in events' : e.sequence = f.sequence => e = f
  <2>1. ASSUME NEW t \in Tx, pc[t] = "commit",
               events' = events \cup {EventOf(t, Target(t))}
        PROVE  \A e, f \in events' : e.sequence = f.sequence => e = f
    <3>1. EventOf(t, Target(t)).sequence = draft[t].sequence
      BY DEF EventOf
    <3> QED
      BY <2>1, <3>1 DEF DrawnInv
  <2> QED
    BY <2>1, CommitFrame DEF DrawnInv
<1>4. ASSUME NEW t \in Tx, pc'[t] = "commit", NEW e \in events'
      PROVE  e.sequence # draft'[t].sequence
  <2>1. CASE AppendEvent(t) /\ draft'[t].sequence = nextSequence
    BY <1>1, <1>2, <1>4, <2>1
  <2>2. CASE pc[t] = "commit" /\ draft'[t] = draft[t]
    <3>1. CASE e \in events
      BY <2>2, <3>1 DEF DrawnInv
    <3>2. ASSUME NEW u \in Tx, pc[u] = "commit", pc'[u] # "commit",
                 e = EventOf(u, Target(u))
          PROVE  e.sequence # draft'[t].sequence
      <4>1. e.sequence = draft[u].sequence
        BY <3>2 DEF EventOf
      <4> QED
        BY <1>4, <2>2, <3>2, <4>1 DEF DrawnInv
    <3> QED
      BY <1>4, <3>1, <3>2, CommitFrame
  <2> QED
    BY <1>4, <2>1, <2>2, DrawFrame
<1>5. ASSUME NEW t \in Tx, NEW u \in Tx, pc'[t] = "commit", pc'[u] = "commit", t # u
      PROVE  draft'[t].sequence # draft'[u].sequence
  <2>1. CASE /\ pc[t] = "commit" /\ draft'[t] = draft[t]
             /\ pc[u] = "commit" /\ draft'[u] = draft[u]
    BY <1>5, <2>1 DEF DrawnInv
  <2>2. CASE AppendEvent(t) /\ draft'[t].sequence = nextSequence
    BY <1>1, <1>2, <1>5, <2>2
  <2>3. CASE AppendEvent(u) /\ draft'[u].sequence = nextSequence
    BY <1>1, <1>2, <1>5, <2>3
  <2> QED
    BY <1>5, <2>1, <2>2, <2>3, DrawFrame
<1> QED
  BY <1>3, <1>4, <1>5 DEF DrawnInv

-----------------------------------------------------------------------------
\* What the log is when a page is read.
LEMMA LogFacts ==
    ASSUME IInv
    PROVE  /\ nextSequence \in Nat
           /\ \A e \in events :
                  /\ e.sequence \in Nat /\ e.sequence <= nextSequence
                  /\ e.revision \in Nat /\ e.revision >= 1
                  /\ e.item \in Item
  BY DEF IInv, TypeOK, SequenceInv, LogInv, Event, Row

\* A page is read from the events beyond the cursor.
LEMMA PageFacts ==
    ASSUME NEW n
    PROVE  /\ PageAfter(n) \subseteq DeliverableAfter(n)
           /\ DeliverableAfter(n) \subseteq events
           /\ \A e \in DeliverableAfter(n) : e.sequence > n
  BY DEF PageAfter, DeliverableAfter

\* The cursor moves to the highest number of the page, if that is beyond it.
LEMMA CursorFacts ==
    ASSUME IInv, NEW n \in Nat, NEW page \in SUBSET events
    PROVE  /\ NextCursor(n, page) \in Nat
           /\ NextCursor(n, page) >= n
           /\ \A e \in page : e.sequence <= NextCursor(n, page)
           /\ \/ NextCursor(n, page) = n
              \/ \E e \in page : NextCursor(n, page) = e.sequence
<1> DEFINE S == {n} \cup {e.sequence : e \in page}
<1>1. S \in SUBSET Nat /\ S # {} /\ n + nextSequence \in Nat
  BY LogFacts
<1>2. \A k \in S : k <= n + nextSequence
  BY LogFacts
<1>3. Max(S) \in S /\ \A k \in S : k <= Max(S)
  <2> HIDE DEF S
  <2> QED
    BY <1>1, <1>2, MaxFacts
<1>4. NextCursor(n, page) = Max(S)
  BY DEF NextCursor
<1> QED
  BY <1>1, <1>3, <1>4

\* Applying a page leaves a content what its last event of the page says.
LEMMA AppliedFacts ==
    ASSUME IInv, NEW page \in SUBSET events, NEW i \in Item, NEW old,
           NEW e \in page, e.item = i
    PROVE  \E last \in page :
               /\ last.item = i
               /\ last.sequence >= e.sequence
               /\ Applied(page, i, old) =
                      [revision |-> last.revision, present |-> last.operation = "upsert"]
<1> DEFINE mine == {f \in page : f.item = i}
           S == {f.sequence : f \in mine}
           last == CHOOSE f \in mine : \A g \in mine : g.sequence <= f.sequence
<1>1. S \in SUBSET Nat /\ S # {} /\ nextSequence \in Nat
  BY LogFacts
<1>2. \A k \in S : k <= nextSequence
  BY LogFacts
<1>3. \E m \in S : \A k \in S : k <= m
  <2> HIDE DEF S
  <2> QED
    BY <1>1, <1>2, LargestExists
<1>4. \E f \in mine : \A g \in mine : g.sequence <= f.sequence
  BY <1>3
<1>5. last \in mine /\ \A g \in mine : g.sequence <= last.sequence
  <2> HIDE DEF mine
  <2> QED
    BY <1>4
<1>6. Applied(page, i, old) =
          [revision |-> last.revision, present |-> last.operation = "upsert"]
  BY DEF Applied
<1>7. last.sequence >= e.sequence
  BY <1>5, LogFacts
<1> HIDE DEF last
<1> QED
  BY <1>5, <1>6, <1>7

\* A page without a content leaves the content as it was.
LEMMA NothingApplied ==
    ASSUME NEW page, NEW i, NEW old, \A e \in page : e.item # i
    PROVE  Applied(page, i, old) = old
  BY DEF Applied

\* The place of an event among those due: how many of them its number covers.
UpTo(due, e) == {f \in due : f.sequence <= e.sequence}

\* The places count the events due one by one.
LEMMA PlacesCount ==
    ASSUME IInv, DrawnInv, IsFiniteSet(events), NEW due \in SUBSET events
    PROVE  LET place == [e \in due |-> Cardinality(UpTo(due, e))]
           IN  /\ IsFiniteSet(due)
               /\ Cardinality(due) \in Nat
               /\ place \in Bijection(due, 1 .. Cardinality(due))
<1> DEFINE place == [e \in due |-> Cardinality(UpTo(due, e))]
           n == Cardinality(due)
<1>1. IsFiniteSet(due) /\ n \in Nat
  BY FS_Subset, FS_CardinalityType
<1>2. ASSUME NEW e \in due
      PROVE  /\ IsFiniteSet(UpTo(due, e))
             /\ e \in UpTo(due, e)
             /\ place[e] \in 1 .. n
  <2>1. UpTo(due, e) \in SUBSET due /\ e \in UpTo(due, e)
    BY LogFacts DEF UpTo
  <2>2. IsFiniteSet(UpTo(due, e)) /\ Cardinality(UpTo(due, e)) <= n
    BY <1>1, <2>1, FS_Subset
  <2>3. Cardinality(UpTo(due, e)) \in Nat /\ Cardinality(UpTo(due, e)) # 0
    BY <2>1, <2>2, FS_CardinalityType, FS_EmptySet
  <2> QED
    BY <1>1, <2>1, <2>2, <2>3
<1>3. ASSUME NEW e \in due, NEW f \in due, e.sequence < f.sequence
      PROVE  place[e] < place[f]
  <2>1. UpTo(due, e) \in SUBSET UpTo(due, f) /\ f \in UpTo(due, f) /\ f \notin UpTo(due, e)
    BY <1>3, LogFacts DEF UpTo
  <2> QED
    BY <1>2, <2>1, StrictSubset
<1>4. ASSUME NEW e \in due, NEW f \in due, place[e] = place[f] PROVE e = f
  <2>1. e.sequence \in Nat /\ f.sequence \in Nat
    BY LogFacts
  <2>2. place[e] \in Nat
    BY <1>2
  <2>3. ~ (e.sequence < f.sequence) /\ ~ (f.sequence < e.sequence)
    BY <1>3, <1>4, <2>2
  <2> QED
    BY <2>1, <2>3 DEF DrawnInv
<1>5. place \in Injection(due, 1 .. n)
  <2>1. place \in [due -> 1 .. n]
    BY <1>2
  <2> HIDE DEF place
  <2> QED
    BY <1>4, <2>1 DEF Injection, IsInjective
<1>6. IsFiniteSet(1 .. n) /\ Cardinality(1 .. n) = n
  BY <1>1, FS_Interval
<1>7. place \in Surjection(due, 1 .. n)
  <2> HIDE DEF place
  <2> QED
    BY <1>5, <1>6, FS_Injection
<1> QED
  BY <1>1, <1>5, <1>7 DEF Bijection

\* When a page leaves something out, it is full, and it lies below what it leaves out.
LEMMA FullPage ==
    ASSUME IInv, DrawnInv, IsFiniteSet(events), NEW n,
           NEW e \in DeliverableAfter(n), e \notin PageAfter(n)
    PROVE  /\ Cardinality(PageAfter(n)) = PageSize
           /\ \A f \in PageAfter(n) : f.sequence < e.sequence
<1> DEFINE due == DeliverableAfter(n)
           place == [f \in due |-> Cardinality(UpTo(due, f))]
           m == Cardinality(due)
           cut == [f \in PageAfter(n) |-> place[f]]
<1>1. due \in SUBSET events
  BY PageFacts
<1>2. IsFiniteSet(due) /\ m \in Nat /\ place \in Bijection(due, 1 .. m)
  <2> HIDE DEF due
  <2> QED
    BY <1>1, PlacesCount
<1>3. PageAfter(n) = {f \in due : place[f] <= PageSize}
  BY DEF PageAfter, UpTo
<1>4. \A f \in due : place[f] \in 1 .. m
  <2> HIDE DEF due, place
  <2> QED
    BY <1>2 DEF Bijection, Injection
<1>5. place[e] > PageSize /\ PageSize \in Nat /\ PageSize <= m
  <2> HIDE DEF due, place
  <2>1. ~ (place[e] <= PageSize)
    BY <1>3 DEF due
  <2> QED
    BY <1>2, <1>4, <2>1, PageSizeAssumption DEF due
<1>6. ASSUME NEW f \in PageAfter(n) PROVE f.sequence < e.sequence
  <2>1. f \in due /\ place[f] <= PageSize
    BY <1>3
  <2>2. CASE e.sequence <= f.sequence
    <3>1. UpTo(due, e) \in SUBSET UpTo(due, f)
      BY <1>1, <2>1, <2>2, LogFacts DEF UpTo
    <3>2. IsFiniteSet(UpTo(due, f))
      <4>1. UpTo(due, f) \in SUBSET due
        BY DEF UpTo
      <4> QED
        BY <1>2, <4>1, FS_Subset
    <3>3. Cardinality(UpTo(due, e)) <= Cardinality(UpTo(due, f))
      BY <3>1, <3>2, FS_Subset
    <3>4. place[e] <= place[f]
      BY <2>1, <3>3
    <3>5. place[e] \in Nat /\ place[f] \in Nat
      BY <1>4, <2>1
    <3> HIDE DEF place
    <3> QED
      BY <1>5, <2>1, <3>4, <3>5
  <2> QED
    BY <1>1, <2>1, <2>2, LogFacts
<1>7. cut \in Bijection(PageAfter(n), 1 .. PageSize)
  <2> HIDE DEF due, place
  <2>1. cut \in [PageAfter(n) -> 1 .. PageSize]
    BY <1>3, <1>4, <1>5
  <2>2. \A f, g \in PageAfter(n) : cut[f] = cut[g] => f = g
    BY <1>2, <1>3 DEF Bijection, Injection, IsInjective
  <2>3. ASSUME NEW k \in 1 .. PageSize PROVE \E f \in PageAfter(n) : cut[f] = k
    <3>1. k \in 1 .. m /\ k <= PageSize
      BY <1>2, <1>5
    <3>2. PICK f \in due : place[f] = k
      BY <1>2, <3>1 DEF Bijection, Surjection
    <3> QED
      BY <1>3, <3>1, <3>2
  <2> HIDE DEF cut
  <2> QED
    BY <2>1, <2>2, <2>3 DEF Bijection, Injection, IsInjective, Surjection
<1>8. PageAfter(n) \in SUBSET due
  BY PageFacts
<1>9. IsFiniteSet(PageAfter(n))
  <2> HIDE DEF due
  <2> QED
    BY <1>2, <1>8, FS_Subset
<1>10. ExistsBijection(PageAfter(n), 1 .. PageSize)
  BY <1>7 DEF ExistsBijection
<1>11. Cardinality(PageAfter(n)) = PageSize
  <2>1. Cardinality(1 .. PageSize) = Cardinality(PageAfter(n))
    BY <1>9, <1>10, FS_Bijection
  <2> QED
    BY <1>5, <2>1, FS_Interval
<1> QED
  BY <1>6, <1>11

-----------------------------------------------------------------------------
\* Initially nothing is drawn, logged or known.
LEMMA SyncInitInv == SyncInit => SyncInv
<1> SUFFICES ASSUME SyncInit PROVE SyncInv
  OBVIOUS
<1>1. IInv
  BY InitInv DEF SyncInit
<1>2. DrawnInv
  BY DEF SyncInit, Init, DrawnInv, Tx
<1>3. IsFiniteSet(events)
  BY FS_EmptySet DEF SyncInit, Init
<1>4. ClientTypeOK /\ KnownInv
  BY DEF SyncInit, ClientTypeOK, KnownInv, Unknown
<1> QED
  BY <1>1, <1>2, <1>3, <1>4 DEF SyncInv

\* What one request does to a content that a client knows: nothing, when the page
\* has no event of it; otherwise the client has what a later event says.
LEMMA SyncFacts ==
    ASSUME SyncInv, NEW c \in Client, Sync(c), NEW i \in Item
    PROVE  /\ cursor'[c] \in Nat /\ cursor'[c] >= cursor[c]
           /\ known'[c][i] \in [revision : Nat, present : BOOLEAN]
           /\ \/ known'[c][i] = known[c][i]
              \/ \E e \in DeliverableAfter(cursor[c]) :
                     /\ e.item = i
                     /\ e.sequence <= cursor'[c]
                     /\ known'[c][i].revision = e.revision
                     /\ known'[c][i].present <=> e.operation = "upsert"
           /\ \A e \in PageAfter(cursor[c]) :
                  e.item = i => known'[c][i].revision >= e.revision
<1> DEFINE page == PageAfter(cursor[c])
<1>0. IInv /\ ClientTypeOK /\ EventsFollowRevisions /\ DrawnInv
  BY DEF SyncInv, IInv
<1>1. page \in SUBSET events /\ page \subseteq DeliverableAfter(cursor[c])
  BY PageFacts
<1>2. cursor[c] \in Nat /\ known[c] \in [Item -> [revision : Nat, present : BOOLEAN]]
  BY <1>0 DEF ClientTypeOK
<1>3. cursor'[c] = NextCursor(cursor[c], page)
  BY <1>0 DEF Sync, ClientTypeOK
<1>4. known'[c][i] = Applied(page, i, known[c][i])
  BY <1>0 DEF Sync, ClientTypeOK
<1>5. /\ cursor'[c] \in Nat /\ cursor'[c] >= cursor[c]
      /\ \A e \in page : e.sequence <= cursor'[c]
  <2> HIDE DEF page
  <2> QED
    BY <1>0, <1>1, <1>2, <1>3, CursorFacts
<1>6. CASE \A e \in page : e.item # i
  <2>1. known'[c][i] = known[c][i]
    <3> HIDE DEF page
    <3> QED
      BY <1>4, <1>6, NothingApplied
  <2> QED
    BY <1>2, <1>5, <1>6, <2>1
<1>7. ASSUME NEW e \in page, e.item = i
      PROVE  \E last \in page :
                 /\ last.item = i
                 /\ last.sequence >= e.sequence
                 /\ known'[c][i] =
                        [revision |-> last.revision, present |-> last.operation = "upsert"]
  <2> HIDE DEF page
  <2> QED
    BY <1>0, <1>1, <1>4, <1>7, AppliedFacts
<1>8. CASE \E e \in page : e.item = i
  <2>1. PICK last \in page :
            /\ last.item = i
            /\ known'[c][i] =
                   [revision |-> last.revision, present |-> last.operation = "upsert"]
    BY <1>7, <1>8
  <2>2. known'[c][i] \in [revision : Nat, present : BOOLEAN]
    BY <1>0, <1>1, <2>1, LogFacts
  <2>3. ASSUME NEW e \in page, e.item = i
        PROVE  known'[c][i].revision >= e.revision
    <3>1. PICK f \in page :
              /\ f.item = i
              /\ f.sequence >= e.sequence
              /\ known'[c][i] =
                     [revision |-> f.revision, present |-> f.operation = "upsert"]
      BY <1>7, <2>3
    <3>2. f.revision < e.revision => f.sequence < e.sequence
      BY <1>0, <1>1, <2>3, <3>1 DEF EventsFollowRevisions
    <3>3. /\ f.revision \in Nat /\ e.revision \in Nat
          /\ f.sequence \in Nat /\ e.sequence \in Nat
      BY <1>0, <1>1, LogFacts
    <3> QED
      BY <3>1, <3>2, <3>3
  <2> HIDE DEF page
  <2>4. last \in DeliverableAfter(cursor[c]) /\ last.sequence <= cursor'[c]
    BY <1>1, <1>5
  <2>5. known'[c][i].revision = last.revision
    BY <2>1
  <2>6. known'[c][i].present <=> last.operation = "upsert"
    <3>1. known'[c][i].present = (last.operation = "upsert")
      BY <2>1
    <3> QED
      BY <3>1
  <2> QED
    BY <1>5, <2>1, <2>2, <2>3, <2>4, <2>5, <2>6 DEF page
<1> QED
  BY <1>6, <1>8

\* Other clients are not disturbed by a request.
LEMMA OtherClients ==
    ASSUME SyncInv, NEW c \in Client, Sync(c), NEW d \in Client, d # c
    PROVE  cursor'[d] = cursor[d] /\ more'[d] = more[d] /\ known'[d] = known[d]
  BY DEF Sync, SyncInv, ClientTypeOK

\* Every step of the writers and of the clients keeps the invariant.
LEMMA SyncStep == SyncInv /\ [SyncNext]_syncVars => SyncInv'
<1> SUFFICES ASSUME SyncInv, [SyncNext]_syncVars PROVE SyncInv'
  OBVIOUS
<1>1. ASSUME [Next]_vars, UNCHANGED clientVars PROVE SyncInv'
  <2>1. IInv' /\ DrawnInv'
    BY <1>1, InductiveStep, DrawnStep DEF SyncInv
  <2>2. IsFiniteSet(events)'
    BY <1>1, CommitFrame, FS_AddElement DEF SyncInv
  <2>3. events \subseteq events'
    BY <1>1, CommitFrame DEF SyncInv
  <2>4. ClientTypeOK' /\ KnownInv'
    BY <1>1, <2>3 DEF SyncInv, ClientTypeOK, KnownInv, clientVars
  <2> QED
    BY <2>1, <2>2, <2>4 DEF SyncInv
<1>2. ASSUME NEW c \in Client, Sync(c) PROVE SyncInv'
  <2>1. UNCHANGED vars /\ [Next]_vars
    BY <1>2 DEF Sync
  <2>2. IInv' /\ DrawnInv'
    BY <2>1, InductiveStep, DrawnStep DEF SyncInv
  <2>3. UNCHANGED events
    BY <2>1 DEF vars
  <2>4. ClientTypeOK'
    <3>1. cursor' = [cursor EXCEPT ![c] = cursor'[c]] /\ cursor'[c] \in Nat
      BY <1>2, SyncFacts, CursorFacts, PageFacts DEF Sync, SyncInv, ClientTypeOK
    <3>2. more' \in [Client -> BOOLEAN]
      BY <1>2 DEF Sync, SyncInv, ClientTypeOK
    <3>3. known' \in [Client -> [Item -> [revision : Nat, present : BOOLEAN]]]
      <4>1. known'[c] \in [Item -> [revision : Nat, present : BOOLEAN]]
        <5>1. \A i \in Item : known'[c][i] \in [revision : Nat, present : BOOLEAN]
          BY <1>2, SyncFacts
        <5>2. known'[c] = [i \in Item |-> Applied(PageAfter(cursor[c]), i, known[c][i])]
          BY <1>2 DEF Sync, SyncInv, ClientTypeOK
        <5> QED
          BY <5>1, <5>2
      <4>2. known' = [known EXCEPT ![c] = known'[c]]
        BY <1>2 DEF Sync, SyncInv, ClientTypeOK
      <4> QED
        BY <4>1, <4>2 DEF SyncInv, ClientTypeOK
    <3> QED
      BY <3>1, <3>2, <3>3 DEF SyncInv, ClientTypeOK
  <2>5. KnownInv'
    <3> SUFFICES ASSUME NEW d \in Client, NEW i \in Item, known'[d][i].revision > 0
                 PROVE  \E e \in events :
                            /\ e.item = i
                            /\ e.revision = known'[d][i].revision
                            /\ e.sequence <= cursor'[d]
                            /\ known'[d][i].present <=> e.operation = "upsert"
      BY <2>3 DEF KnownInv
    <3>1. ASSUME known'[d][i] = known[d][i], cursor'[d] \in Nat, cursor'[d] >= cursor[d]
          PROVE  \E e \in events :
                     /\ e.item = i
                     /\ e.revision = known'[d][i].revision
                     /\ e.sequence <= cursor'[d]
                     /\ known'[d][i].present <=> e.operation = "upsert"
      <4>1. PICK e \in events :
                /\ e.item = i
                /\ e.revision = known[d][i].revision
                /\ e.sequence <= cursor[d]
                /\ known[d][i].present <=> e.operation = "upsert"
        BY <3>1 DEF SyncInv, KnownInv
      <4>2. e.sequence \in Nat /\ cursor[d] \in Nat
        BY LogFacts DEF SyncInv, ClientTypeOK
      <4> QED
        BY <3>1, <4>1, <4>2
    <3>2. CASE d # c
      <4>1. cursor[d] \in Nat
        BY DEF SyncInv, ClientTypeOK
      <4> QED
        BY <1>2, <3>1, <3>2, <4>1, OtherClients
    <3>3. CASE d = c
      BY <1>2, <3>1, <3>3, SyncFacts, PageFacts
    <3> QED
      BY <3>2, <3>3
  <2> QED
    BY <2>2, <2>3, <2>4, <2>5 DEF SyncInv
<1>3. CASE UNCHANGED syncVars
  BY <1>1, <1>3 DEF syncVars, clientVars
<1> QED
  BY <1>1, <1>2, <1>3 DEF SyncNext

\* SyncInv holds in every reachable state.
THEOREM SyncInductive == SyncSpec => []SyncInv
  BY SyncInitInv, SyncStep, PTL DEF SyncSpec

\* No page makes a client go back to an older revision of a content, in whatever
\* order the transactions committed.
THEOREM ClientsNeverGoBack == SyncSpec => NeverGoesBack
<1>1. SyncInv /\ [SyncNext]_syncVars =>
          [\A c \in Client, i \in Item :
               known'[c][i].revision >= known[c][i].revision]_syncVars
  <2> SUFFICES ASSUME SyncInv, [SyncNext]_syncVars, NEW c \in Client, NEW i \in Item
               PROVE  known'[c][i].revision >= known[c][i].revision
    OBVIOUS
  <2>0. known[c][i].revision \in Nat /\ cursor[c] \in Nat
    BY DEF SyncInv, ClientTypeOK
  <2>1. CASE UNCHANGED known
    BY <2>0, <2>1
  <2>2. ASSUME NEW d \in Client, Sync(d), d # c
        PROVE  known'[c][i].revision >= known[c][i].revision
    BY <2>0, <2>2, OtherClients
  <2>3. CASE Sync(c)
    <3>1. CASE known'[c][i] = known[c][i]
      BY <2>0, <3>1
    <3>2. ASSUME NEW e \in DeliverableAfter(cursor[c]), e.item = i,
                 known'[c][i].revision = e.revision, known[c][i].revision > 0
          PROVE  known'[c][i].revision >= known[c][i].revision
      <4>1. PICK g \in events :
                /\ g.item = i
                /\ g.revision = known[c][i].revision
                /\ g.sequence <= cursor[c]
        BY <3>2 DEF SyncInv, KnownInv
      <4>2. e \in events /\ e.sequence > cursor[c]
        BY PageFacts
      <4>3. e.revision < g.revision => e.sequence < g.sequence
        BY <3>2, <4>1, <4>2 DEF SyncInv, IInv, EventsFollowRevisions
      <4>4. /\ e.revision \in Nat /\ g.revision \in Nat
            /\ e.sequence \in Nat /\ g.sequence \in Nat
        BY <4>2, LogFacts DEF SyncInv
      <4> QED
        BY <2>0, <3>2, <4>1, <4>2, <4>3, <4>4
    <3>3. known'[c][i].revision \in Nat
      BY <2>3, SyncFacts
    <3> QED
      BY <2>0, <2>3, <3>1, <3>2, <3>3, SyncFacts
  <2> QED
    BY <2>1, <2>2, <2>3 DEF SyncNext, syncVars, clientVars
<1> QED
  BY <1>1, SyncInductive, PTL DEF SyncSpec, NeverGoesBack

\* Nothing is lost at the end of a page: what was due is applied with the page or
\* lies beyond the new cursor, and then the answer said that there is more.
THEOREM PagesAreComplete == SyncSpec => PagesLoseNothing
<1>1. SyncInv /\ [SyncNext]_syncVars =>
          [\A c \in Client :
               cursor'[c] # cursor[c] \/ more'[c] # more[c] =>
                   \A e \in DeliverableAfter(cursor[c]) :
                       \/ known'[c][e.item].revision >= e.revision
                       \/ e.sequence > cursor'[c] /\ more'[c]]_syncVars
  <2> SUFFICES ASSUME SyncInv, [SyncNext]_syncVars, NEW c \in Client,
                      cursor'[c] # cursor[c] \/ more'[c] # more[c],
                      NEW e \in DeliverableAfter(cursor[c])
               PROVE  \/ known'[c][e.item].revision >= e.revision
                      \/ e.sequence > cursor'[c] /\ more'[c]
    OBVIOUS
  <2>1. Sync(c)
    BY OtherClients DEF SyncNext, syncVars, clientVars
  <2>2. e \in events /\ e.sequence > cursor[c] /\ e.item \in Item
    BY PageFacts, LogFacts DEF SyncInv
  <2>3. CASE e \in PageAfter(cursor[c])
    BY <2>1, <2>2, <2>3, SyncFacts
  <2>4. CASE e \notin PageAfter(cursor[c])
    <3>1. /\ Cardinality(PageAfter(cursor[c])) = PageSize
          /\ \A f \in PageAfter(cursor[c]) : f.sequence < e.sequence
      BY <2>4, FullPage DEF SyncInv
    <3>2. more'[c]
      BY <2>1, <3>1 DEF Sync, SyncInv, ClientTypeOK
    <3>3. cursor'[c] = NextCursor(cursor[c], PageAfter(cursor[c]))
      BY <2>1 DEF Sync, SyncInv, ClientTypeOK
    <3>4. PageAfter(cursor[c]) \in SUBSET events /\ cursor[c] \in Nat
      BY PageFacts DEF SyncInv, ClientTypeOK
    <3>5. \/ cursor'[c] = cursor[c]
          \/ \E f \in PageAfter(cursor[c]) : cursor'[c] = f.sequence
      BY <3>3, <3>4, CursorFacts DEF SyncInv
    <3> QED
      BY <2>2, <3>1, <3>2, <3>5
  <2> QED
    BY <2>3, <2>4
<1> QED
  BY <1>1, SyncInductive, PTL DEF SyncSpec, PagesLoseNothing

-----------------------------------------------------------------------------
\* The event chosen by its content and revision is that event, if there is one.
LEMMA ChosenEvent ==
    ASSUME NEW E, NEW i, NEW n, \E e \in E : e.item = i /\ e.revision = n
    PROVE  LET last == CHOOSE e \in E : e.item = i /\ e.revision = n
           IN  last \in E /\ last.item = i /\ last.revision = n
  OBVIOUS

\* Every content that was published once has a last event, and only one.
LEMMA LastEventFacts ==
    ASSUME IInv, NEW i \in Item, contents[i].revision >= 1
    PROVE  /\ LastEvent(i) \in events
           /\ LastEvent(i).item = i
           /\ LastEvent(i).revision = contents[i].revision
           /\ \A e \in events :
                  e.item = i /\ e.revision = contents[i].revision => e = LastEvent(i)
<1>1. contents[i].revision \in 1 .. contents[i].revision
  BY DEF IInv, TypeOK, Row
<1>2. \E e \in events : e.item = i /\ e.revision = contents[i].revision
  BY <1>1 DEF IInv, LogInv
<1>3. /\ LastEvent(i) \in events
      /\ LastEvent(i).item = i
      /\ LastEvent(i).revision = contents[i].revision
  BY <1>2, ChosenEvent DEF LastEvent
<1> HIDE DEF LastEvent
<1> QED
  BY <1>3 DEF IInv, LogInv

\* A page that is read misses no change that is committed: it applies the last one,
\* or leaves it beyond the cursor.
LEMMA PageMissesNothing ==
    ASSUME SyncInv, SyncInv', NEW c \in Client, Sync(c), NEW i \in Item, Missed(c, i)'
    PROVE  Missed(c, i)
<1> DEFINE last == LastEvent(i)
<1>1. UNCHANGED <<contents, events>>
  BY DEF Sync, vars
<1>2. /\ Visible(i)
      /\ last.sequence <= cursor'[c]
      /\ known'[c][i].revision # contents[i].revision
  <2>1. Visible(i)' <=> Visible(i)
    BY <1>1 DEF Visible
  <2>2. LastEvent(i)' = LastEvent(i)
    BY <1>1 DEF LastEvent
  <2> QED
    BY <1>1, <2>1, <2>2 DEF Missed
<1>3. contents[i].revision >= 1
  <2>1. known'[c][i].revision \in Nat /\ contents[i].revision \in Nat
    BY DEF SyncInv, ClientTypeOK, IInv, TypeOK, Row
  <2>2. CASE known'[c][i].revision > 0
    <3>1. PICK e \in events : e.item = i /\ e.revision = known'[c][i].revision
      BY <1>1, <2>2 DEF SyncInv, KnownInv
    <3>2. e.revision <= contents[i].revision /\ 1 <= e.revision
      BY <3>1 DEF SyncInv, IInv, LogInv
    <3> QED
      BY <2>1, <3>1, <3>2
  <2> QED
    BY <1>2, <2>1, <2>2
<1>4. /\ last \in events /\ last.item = i /\ last.revision = contents[i].revision
      /\ \A e \in events : e.item = i /\ e.revision = contents[i].revision => e = last
  BY <1>3, LastEventFacts DEF SyncInv
<1> HIDE DEF last
<1>5. /\ cursor[c] \in Nat /\ cursor'[c] \in Nat
      /\ last.sequence \in Nat /\ last.revision \in Nat
      /\ known[c][i].revision \in Nat /\ known'[c][i].revision \in Nat
  BY <1>4, LogFacts DEF SyncInv, ClientTypeOK
<1>6. CASE last.sequence > cursor[c]
  <2>1. last \in DeliverableAfter(cursor[c])
    BY <1>2, <1>4, <1>6 DEF DeliverableAfter
  <2>2. last \in PageAfter(cursor[c])
    <3> SUFFICES ASSUME last \notin PageAfter(cursor[c]) PROVE FALSE
      OBVIOUS
    <3>1. \A f \in PageAfter(cursor[c]) : f.sequence < last.sequence
      BY <2>1, FullPage DEF SyncInv
    <3>2. cursor'[c] = NextCursor(cursor[c], PageAfter(cursor[c]))
      BY DEF Sync, SyncInv, ClientTypeOK
    <3>3. PageAfter(cursor[c]) \in SUBSET events
      BY PageFacts
    <3>4. \/ cursor'[c] = cursor[c]
          \/ \E f \in PageAfter(cursor[c]) : cursor'[c] = f.sequence
      BY <1>5, <3>2, <3>3, CursorFacts DEF SyncInv
    <3> QED
      BY <1>2, <1>5, <1>6, <3>1, <3>4
  <2>3. known'[c][i].revision >= contents[i].revision
    BY <1>4, <2>2, SyncFacts
  <2>4. known'[c][i].revision > 0
    BY <1>3, <1>4, <1>5, <2>3
  <2>5. PICK e \in events : e.item = i /\ e.revision = known'[c][i].revision
    BY <1>1, <2>4 DEF SyncInv, KnownInv
  <2>6. e.revision <= contents[i].revision
    BY <2>5 DEF SyncInv, IInv, LogInv
  <2> QED
    BY <1>2, <1>4, <1>5, <2>3, <2>5, <2>6
<1>7. CASE last.sequence <= cursor[c]
  <2>1. known'[c][i] = known[c][i]
    <3> SUFFICES ASSUME NEW e \in DeliverableAfter(cursor[c]), e.item = i,
                        known'[c][i].revision = e.revision
                 PROVE  FALSE
      BY SyncFacts
    <3>1. /\ e \in events /\ e.sequence > cursor[c]
          /\ e.sequence \in Nat /\ e.revision \in Nat
          /\ e.revision <= contents[i].revision
      BY PageFacts, LogFacts DEF SyncInv, IInv, LogInv
    <3>2. e.revision < last.revision
      BY <1>2, <1>4, <1>5, <3>1
    <3>3. e.sequence < last.sequence
      BY <1>4, <3>1, <3>2 DEF SyncInv, IInv, EventsFollowRevisions
    <3> QED
      BY <1>5, <1>7, <3>1, <3>3
  <2> QED
    BY <1>2, <1>7, <2>1 DEF Missed, last
<1> QED
  BY <1>5, <1>6, <1>7

\* A commit makes a client miss a change only by adding it below the client's cursor.
LEMMA WriterMisses ==
    ASSUME SyncInv, SyncInv', [Next]_vars, UNCHANGED clientVars,
           NEW c \in Client, NEW i \in Item, Missed(c, i)', ~ Missed(c, i)
    PROVE  LastEvent(i)' \notin events /\ (LastEvent(i).sequence)' <= cursor[c]
<1>1. cursor' = cursor /\ known' = known
  BY DEF clientVars
<1>2. /\ Visible(i)'
      /\ (LastEvent(i).sequence)' <= cursor[c]
      /\ known[c][i].revision # contents'[i].revision
  BY <1>1 DEF Missed
<1> SUFFICES ASSUME LastEvent(i)' \in events PROVE FALSE
  BY <1>2
<1>3. CASE UNCHANGED <<contents, events>>
  BY <1>1, <1>3 DEF Missed, Visible, LastEvent
<1>4. ASSUME NEW t \in Tx, pc[t] = "commit", CommitRow(t, Target(t)) PROVE FALSE
  <2> DEFINE j == Target(t)
             e == EventOf(t, j)
             last == LastEvent(i)'
  <2>1. /\ j \in Item /\ e \in Event /\ e.item = j
        /\ e.revision = contents[j].revision + 1
        /\ events' = events \cup {e}
        /\ contents'[j].revision = e.revision
        /\ \A k \in Item \ {j} : contents'[k] = contents[k]
    BY <1>4, CommitFacts DEF SyncInv
  <2>2. contents[i].revision \in Nat /\ contents'[i].revision \in Nat
    BY DEF SyncInv, IInv, TypeOK, Row
  <2> HIDE DEF j, e
  <2>3. \E n \in 1 .. contents'[i].revision : n = contents'[i].revision
    <3>1. contents'[i].revision >= 1
      <4>1. known[c][i].revision \in Nat
        BY DEF SyncInv, ClientTypeOK
      <4>2. CASE known[c][i].revision > 0
        <5>1. PICK f \in events : f.item = i /\ f.revision = known[c][i].revision
          BY <4>2 DEF SyncInv, KnownInv
        <5>2. f.revision <= contents[i].revision /\ 1 <= f.revision
          BY <5>1 DEF SyncInv, IInv, LogInv
        <5> QED
          BY <2>1, <2>2, <4>1, <5>1, <5>2
      <4> QED
        BY <1>2, <2>2, <4>1, <4>2
    <3> QED
      BY <2>2, <3>1
  <2>4. \E f \in events' : f.item = i /\ f.revision = contents'[i].revision
    BY <2>3 DEF SyncInv, IInv, LogInv
  <2>5. last \in events' /\ last.item = i /\ last.revision = contents'[i].revision
    <3>1. last = CHOOSE f \in events' : f.item = i /\ f.revision = contents'[i].revision
      BY DEF LastEvent
    <3> HIDE DEF last
    <3> QED
      BY <2>4, <3>1, ChosenEvent
  <2>6. last \in events
    OBVIOUS
  <2> HIDE DEF last
  <2>7. last.revision <= contents[i].revision /\ 1 <= last.revision
    BY <2>5, <2>6 DEF SyncInv, IInv, LogInv
  <2>8. i # j
    BY <2>1, <2>2, <2>5, <2>7
  <2>9. contents'[i] = contents[i]
    BY <2>1, <2>8
  <2>10. last = LastEvent(i)
    BY <2>2, <2>5, <2>6, <2>7, <2>9, LastEventFacts DEF SyncInv
  <2>11. Visible(i)
    BY <1>2, <2>9 DEF Visible
  <2> QED
    BY <1>2, <2>9, <2>10, <2>11 DEF Missed, last
<1> QED
  BY <1>3, <1>4, LogFrame DEF SyncInv

\* Only a transaction that commits behind a client's cursor, with a number that was
\* drawn before, makes the client miss a change of a content that can be seen: no
\* page and no commit in order does, although the feed filters by the status of now.
THEOREM LateCommitsAlone == SyncSpec => OnlyLateCommitsAreMissed
<1>1. SyncInv /\ SyncInv' /\ [SyncNext]_syncVars =>
          [\A c \in Client, i \in Item :
               Missed(c, i)' =>
                   \/ Missed(c, i)
                   \/ /\ LastEvent(i)' \notin events
                      /\ (LastEvent(i).sequence)' <= cursor[c]]_syncVars
  <2> SUFFICES ASSUME SyncInv, SyncInv', [SyncNext]_syncVars,
                      NEW c \in Client, NEW i \in Item, Missed(c, i)', ~ Missed(c, i)
               PROVE  LastEvent(i)' \notin events /\ (LastEvent(i).sequence)' <= cursor[c]
    OBVIOUS
  <2>1. CASE [Next]_vars /\ UNCHANGED clientVars
    BY <2>1, WriterMisses
  <2>2. ASSUME NEW d \in Client, Sync(d), d # c
        PROVE  Missed(c, i)
    <3>1. cursor'[c] = cursor[c] /\ known'[c] = known[c]
      BY <2>2, OtherClients
    <3>2. UNCHANGED <<contents, events>>
      BY <2>2 DEF Sync, vars
    <3> QED
      BY <3>1, <3>2 DEF Missed, Visible, LastEvent
  <2>3. ASSUME Sync(c) PROVE Missed(c, i)
    BY <2>3, PageMissesNothing
  <2> QED
    BY <2>1, <2>2, <2>3 DEF SyncNext, syncVars, clientVars
<1> QED
  BY <1>1, SyncInductive, PTL DEF SyncSpec, OnlyLateCommitsAreMissed
=============================================================================

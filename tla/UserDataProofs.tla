--------------------------- MODULE UserDataProofs ---------------------------
(***************************************************************************)
(* Theorems about UserData for any number of requests, entities, clocks,   *)
(* logins and migrated batches.                                            *)
(***************************************************************************)
EXTENDS UserData, FiniteSetTheorems, TLAPS

\* Where a handler is: between its statements, or at rest.
Working == {"write", "event", "commit"}
Listing == {"bookmark", "progress", "vocabulary", "grammar"}
Place == {"idle", "user", "lock", "cascade", "logout", "done"} \cup Working \cup Listing

\* What a request brings.
Input == [kind : {"none", "login", "change", "snapshot", "close", "logout"},
          batch : Seq(Changes), credential : Credential \cup {None},
          token : Token \cup {None}]

\* The tables a row can be deleted from.
Erasable == Bookmark \cup Vocabulary

\* The types of what the handlers keep, which are their local variables.
HandlerTypes ==
    /\ pc \in [Request -> Place]
    /\ input \in [Request -> Input]
    /\ todo \in [Request -> Seq(Changes)]
    /\ seen \in [Request -> [from : [Key -> Row], read : [Key -> Row \cup {Untouched}]]]
    /\ answer \in [Request -> Nat]

\* A row of user o in the table of k; a word has an id.
Sound(k, row, o) == row \in Row /\ o # 0 /\ row.owner = o /\ (k \in Vocabulary => row.id \in Id)

\* Everything that is committed belongs to the user there is.
CommittedInv ==
    /\ \A k \in Key : rows[k] = Absent \/ Sound(k, rows[k], account)
    /\ \A e \in events : e.owner = account /\ account # 0
    /\ \A t \in Token : sessions[t] \in {0, account}
    /\ \A c \in Credential : used[c] \in {0, account}
    /\ account <= born

\* A request has written, and not committed.
Touched(r) == \E k \in Key : dirty[r][k] # Untouched

\* How far a request has come, and what it holds there.
StageInv(r) ==
    /\ pc[r] = "idle" => input[r] = Nothing /\ owner[r] = 0
    /\ pc[r] # "done" => answer[r] = 0
    /\ pc[r] = "user" => input[r].kind = "login"
    /\ pc[r] \in Working => input[r].kind \in {"login", "change"} /\ owner[r] # 0
    /\ pc[r] \in Listing => input[r].kind = "snapshot" /\ owner[r] # 0
    /\ pc[r] \in {"lock", "cascade"} => input[r].kind = "close" /\ owner[r] # 0
    /\ pc[r] = "logout" => input[r].kind = "logout"
    /\ pc[r] \notin Working => ~ Touched(r) /\ drafts[r] = {}
    /\ hold[r] = "delete" <=> pc[r] = "cascade"
    /\ hold[r] = "update" <=> pc[r] \in Working /\ input[r].kind = "login"
    /\ hold[r] = "share" => pc[r] \in Working
    /\ owner[r] <= born

\* The user whose data a request has written is there, or it is the one that its
\* own login inserts.
OwnerInv(r) ==
    /\ hold[r] \in {"share", "delete"} => owner[r] = account
    /\ hold[r] = "update" =>
           \/ owner[r] = account
           \/ account = 0 /\ \A q \in Request \ {r} : owner[q] # owner[r]
    /\ Touched(r) => owner[r] = account \/ hold[r] = "update"
    /\ drafts[r] # {} => hold[r] # "none"
    /\ \A e \in drafts[r] : e.owner = owner[r]

\* What the locks exclude.
LockInv(q, r) ==
    /\ hold[q] \in {"update", "delete"} => hold[r] \notin {"update", "delete"}
    /\ hold[q] = "delete" /\ owner[r] = owner[q] => hold[r] = "none"
    /\ \A k \in Key : dirty[q][k] # Untouched => dirty[r][k] = Untouched

\* The changes of a request that it has still to write.
TodoInv(r) ==
    LET b == input[r].batch
    IN  /\ input[r].kind = "login" =>
               \A i \in 1 .. Len(b) : b[i].do = "put" /\ b[i].key \notin Retell
        /\ input[r].kind = "change" => Len(b) = 1
        /\ input[r].kind \notin {"login", "change"} => b = <<>>
        /\ pc[r] = "user" => todo[r] = b
        /\ pc[r] \in {"write", "event"} => todo[r] # <<>>
        /\ pc[r] \in Working =>
               /\ Len(todo[r]) <= Len(b)
               /\ \A j \in 1 .. Len(todo[r]) : todo[r][j] = b[Len(b) - Len(todo[r]) + j]
        /\ pc[r] = "write" /\ input[r].kind = "change" => ~ Touched(r)
        /\ pc[r] = "commit" /\ input[r].kind = "login" => todo[r] = <<>>
        /\ pc[r] = "commit" /\ todo[r] # <<>> => Len(b) = 1 /\ b[1].key \in Retell

\* The changes that a request has written so far.
Written(r) == Len(input[r].batch) - Len(todo[r]) + (IF pc[r] = "event" THEN 1 ELSE 0)

\* What a request has written is not older than what is committed and what it was
\* asked to write; only an erasable row of one change is deleted.
DraftInv(r) ==
    /\ \A k \in Key :
           \/ dirty[r][k] = Untouched
           \/ /\ dirty[r][k] = Absent /\ k \in Erasable
              /\ input[r].kind = "change" /\ pc[r] \in {"event", "commit"}
           \/ Sound(k, dirty[r][k], owner[r]) /\ dirty[r][k].at >= rows[k].at
    /\ pc[r] = "event" /\ todo[r][1].do = "put" =>
           Sound(todo[r][1].key, dirty[r][todo[r][1].key], owner[r])
    /\ pc[r] \in Working =>
           \A i \in 1 .. Written(r) :
               LET c == input[r].batch[i]
               IN  c.key \in Progress =>
                       /\ Sound(c.key, dirty[r][c.key], owner[r])
                       /\ dirty[r][c.key].at >= c.at

\* The events that a request has committed.
MigratedBy(r) == {e \in events : e.by = r}

\* A login has one event for each change it has written, and commits them together.
DraftedInv(r) ==
    /\ \A e \in drafts[r] : e.by = r /\ e.sequence <= sequence
    /\ IsFiniteSet(drafts[r])
    /\ pc[r] \in Working /\ input[r].kind = "login" =>
           Cardinality(drafts[r]) = Len(input[r].batch) - Len(todo[r])

\* A login that migrates shows all of its events or none.
WholeInv(r) ==
    /\ pc[r] # "done" => MigratedBy(r) = {}
    /\ input[r].kind = "login" =>
           /\ MigratedBy(r) = {} \/ Cardinality(MigratedBy(r)) = Len(input[r].batch)
           /\ answer[r] = 200 =>
                  /\ owner[r] # 0
                  /\ owner[r] = account => Cardinality(MigratedBy(r)) = Len(input[r].batch)

MigrationInv(r) == DraftedInv(r) /\ WholeInv(r)

\* What a snapshot has read of the tables it has listed.
Gathered(r) ==
    CASE pc[r] = "progress" -> Bookmark
      [] pc[r] = "vocabulary" -> Bookmark \cup Progress
      [] pc[r] = "grammar" -> Bookmark \cup Progress \cup Vocabulary
      [] pc[r] = "done" /\ answer[r] = 200 -> Key \ Retell
      [] OTHER -> {}

\* What a snapshot has read, and what it will read, is as late as when it began.
ReadInv(r) ==
    input[r].kind = "snapshot" =>
        /\ owner[r] # 0
        /\ \A k \in Key : k \in Gathered(r) => seen[r].read[k] # Untouched
        /\ owner[r] = account => \A k \in Progress :
               /\ rows[k].at >= seen[r].from[k].at
               /\ k \in Gathered(r) => seen[r].read[k].at >= seen[r].from[k].at

\* Whether a request has written a row and not deleted it.
Draws(r, k) == dirty[r][k] \notin {Untouched, Absent}

\* What the events of a row are about.
Named(k, row) == IF k \in Vocabulary THEN <<"entry", row.id>> ELSE k

\* No id names two words, whether they are committed or under way; a word that is
\* there keeps its id.
IdInv ==
    /\ \A j, k \in Vocabulary : rows[j].id = rows[k].id /\ rows[k] # Absent => j = k
    /\ \A r \in Request : \A j, k \in Vocabulary :
           Draws(r, j) /\ dirty[r][j].id = rows[k].id => j = k
    /\ \A q, r \in Request : \A j, k \in Vocabulary :
           Draws(q, j) /\ Draws(r, k) /\ dirty[q][j].id = dirty[r][k].id => j = k
    /\ \A r \in Request : \A k \in Vocabulary :
           Draws(r, k) /\ rows[k] # Absent => dirty[r][k].id = rows[k].id

\* The event of a deletion has a greater number than every upsert there was.
ErasureInv(r) ==
    \A k \in Key : dirty[r][k] = Absent =>
        /\ rows[k] # Absent
        /\ pc[r] = "event" => Entity(r, todo[r][1]) = Named(k, rows[k])
        /\ pc[r] = "commit" =>
               \E f \in drafts[r] :
                   /\ f.entity = Named(k, rows[k])
                   /\ \A e \in events : e.entity = f.entity /\ e.operation = "upsert"
                                            => e.sequence < f.sequence

\* The upserts a request tells of are rows it has written.
UpsertInv(r) ==
    /\ \A e \in drafts[r] :
           /\ e.sequence <= sequence
           /\ e.operation = "upsert" =>
                  \E k \in Key : Draws(r, k) /\ Named(k, dirty[r][k]) = e.entity
    /\ pc[r] = "event" /\ todo[r][1].do # "remove" =>
           \E k \in Key : Draws(r, k) /\ Named(k, dirty[r][k]) = Entity(r, todo[r][1])

\* The inductive invariant behind UpsertsTellTheState: the rows, the drafts and the
\* events name the same words in the order of the sequence.
EventInv ==
    /\ IdInv
    /\ \A r \in Request : ErasureInv(r) /\ UpsertInv(r)
    /\ \A e \in events : e.sequence <= sequence
                         /\ (e.operation = "upsert" => e.entity \notin Vocabulary)
    /\ UpsertsTellTheState

\* The inductive invariant the others rest on: every request at its place, with the
\* locks, the user and the rows it holds there.
AccountInv ==
    /\ TypeOK /\ HandlerTypes /\ CommittedInv
    /\ \A r \in Request : StageInv(r) /\ OwnerInv(r) /\ TodoInv(r) /\ DraftInv(r)
    /\ \A q, r \in Request : q # r => LockInv(q, r)

-----------------------------------------------------------------------------
\* The tables have rows of their own.
LEMMA KeyFacts ==
    /\ Progress \subseteq Key /\ Vocabulary \subseteq Key /\ Bookmark \subseteq Key
    /\ Grammar \subseteq Key /\ Retell \subseteq Key
    /\ \A k \in Key : k \in Progress \/ k \in Vocabulary \/ k \in Bookmark
                      \/ k \in Grammar \/ k \in Retell
    /\ \A k \in Progress : k \notin Vocabulary \cup Bookmark \cup Grammar \cup Retell
    /\ \A k \in Vocabulary : k \notin Progress \cup Bookmark \cup Grammar \cup Retell
    /\ \A k \in Bookmark : k \notin Progress \cup Vocabulary \cup Grammar \cup Retell
    /\ \A k \in Grammar : k \notin Progress \cup Vocabulary \cup Bookmark \cup Retell
    /\ \A k \in Retell : k \notin Progress \cup Vocabulary \cup Bookmark \cup Grammar
  BY DEF Key, Progress, Vocabulary, Bookmark, Grammar, Retell

\* What the endpoints accept.
LEMMA ChangeFacts ==
    ASSUME NEW c \in Changes
    PROVE  /\ c.do \in {"put", "review", "remove"}
           /\ c.at \in Clock \cup {0} /\ c.at \in Nat
           /\ c.id \in Id \cup {None}
           /\ c.do = "put" => c.key \in Key /\ (c.key \in Vocabulary => c.id \in Id)
           /\ c.do = "review" => c.key \in Retell \/ (c.key = None /\ c.id \in Id)
           /\ c.do = "remove" => c.key \in Bookmark \/ (c.key = None /\ c.id \in Id)
<1>0. \A t \in Clock \cup {0} : t \in Nat
  BY ClockAssumption
<1>1. CASE c \in BookmarkChanges
  BY <1>0, <1>1, KeyFacts DEF BookmarkChanges, Put, Remove
<1>2. CASE c \in ProgressChanges
  BY <1>0, <1>2, KeyFacts DEF ProgressChanges, Put
<1>3. CASE c \in GrammarChanges
  BY <1>0, <1>3, KeyFacts DEF GrammarChanges, Put
<1>4. CASE c \in RetellChanges
  BY <1>0, <1>4, KeyFacts DEF RetellChanges, Put, Review
<1>5. CASE c \in VocabularyChanges
  <2> DEFINE puts == {Put(k, i, t, TRUE) : k \in Vocabulary, i \in Id, t \in Clock \cup {0}}
             unsound == {Put(k, i, t, FALSE) : k \in Vocabulary, i \in Id, t \in Clock}
             reviews == {Review(None, i, t) : i \in Id, t \in Clock}
             removes == {Remove(None, i) : i \in Id}
  <2>1. CASE c \in puts
    BY <1>0, <2>1, KeyFacts DEF Put
  <2>2. CASE c \in unsound
    BY <1>0, <2>2, KeyFacts DEF Put
  <2>3. CASE c \in reviews
    BY <1>0, <2>3 DEF Review
  <2>4. CASE c \in removes
    BY <1>0, <2>4 DEF Remove
  <2>5. VocabularyChanges = puts \cup unsound \cup reviews \cup removes
    BY DEF VocabularyChanges
  <2> HIDE DEF puts, unsound, reviews, removes
  <2> QED
    BY <1>5, <2>1, <2>2, <2>3, <2>4, <2>5
<1> QED
  BY <1>1, <1>2, <1>3, <1>4, <1>5 DEF Changes

\* Values and their fields.
LEMMA RowFacts ==
    /\ Absent \in Row /\ Absent.owner = 0 /\ Absent.at = 0
    /\ Untouched \notin Row /\ Untouched # Absent
    /\ \A k, row, o : Sound(k, row, o) => row # Absent /\ row # Untouched
    /\ \A row \in Row : row.at \in Clock \cup {0} /\ row.at \in Nat /\ row.owner \in Nat
                        /\ row.id \in Id \cup {None} /\ row.value \in Writer
<1>1. Absent \in Row /\ Absent.owner = 0 /\ Absent.at = 0
  BY DEF Absent, Row, Writer
<1>2. ASSUME NEW row \in Row
      PROVE  row.at \in Clock \cup {0} /\ row.at \in Nat /\ row.owner \in Nat
             /\ row.id \in Id \cup {None} /\ row.value \in Writer
  <2>1. row.at \in Clock \cup {0} /\ row.owner \in Nat
        /\ row.id \in Id \cup {None} /\ row.value \in Writer
    BY DEF Row
  <2>2. \A t \in Clock \cup {0} : t \in Nat
    BY ClockAssumption
  <2> QED
    BY <2>1, <2>2
<1>3. Untouched.at = -1
  BY DEF Untouched
<1>4. Untouched \notin Row
  BY <1>2, <1>3
<1> QED
  BY <1>1, <1>2, <1>4 DEF Sound

\* The row that old becomes when r stamps it.
LEMMA StampedFacts ==
    ASSUME NEW r \in Request, NEW k, NEW o, NEW old, Sound(k, old, o),
           NEW c, c.at \in Clock \cup {0}
    PROVE  /\ Sound(k, Stamped(r, c, old), o)
           /\ Stamped(r, c, old).at >= old.at /\ Stamped(r, c, old).at >= c.at
<1> DEFINE new == [owner |-> old.owner, id |-> old.id, at |-> c.at, value |-> r]
<1>1. old \in Row /\ old.at \in Nat /\ c.at \in Nat
  BY RowFacts, ClockAssumption DEF Sound
<1>2. [old EXCEPT !.at = c.at, !.value = r] = new
  <2> PICK v : v = [old EXCEPT !.at = c.at, !.value = r]
    OBVIOUS
  <2>1. v = new
    BY <1>1 DEF Row
  <2> QED
    BY <2>1
<1>3. Sound(k, new, o)
  BY <1>1 DEF Sound, Row, Writer, Token
<1> QED
  BY <1>1, <1>2, <1>3 DEF Stamped

\* A put leaves a row of the request's user, not older than the row before and, for
\* progress, not older than the change.
LEMMA PutRowFacts ==
    ASSUME NEW r \in Request, owner[r] \in Nat \ {0},
           NEW c \in Changes, c.do = "put",
           NEW old, old = Absent \/ Sound(c.key, old, owner[r])
    PROVE  /\ Sound(c.key, PutRow(r, c, old), owner[r])
           /\ PutRow(r, c, old).at >= old.at
           /\ c.key \in Progress => PutRow(r, c, old).at >= c.at
<1> DEFINE k == c.key
           o == owner[r]
           ins == Inserted(r, c, old)
           new == [owner |-> o, id |-> c.id, at |-> 0, value |-> None]
<1>0. /\ k \in Key /\ (k \in Vocabulary => c.id \in Id) /\ c.id \in Id \cup {None}
      /\ c.at \in Clock \cup {0} /\ c.at \in Nat
      /\ old.at \in Nat
  BY ChangeFacts, RowFacts DEF Sound
<1>1. Sound(k, ins, o) /\ ins.at = old.at
  <2>1. CASE old = Absent
    <3>1. ins = new
      BY <2>1 DEF Inserted, Absent
    <3>2. Sound(k, new, o)
      BY <1>0 DEF Sound, Row, Writer
    <3> QED
      BY <2>1, <3>1, <3>2, RowFacts
  <2>2. CASE old # Absent
    BY <2>2 DEF Inserted
  <2> QED
    BY <2>1, <2>2
<1>2. Sound(k, [ins EXCEPT !.value = r], o) /\ [ins EXCEPT !.value = r].at = old.at
  <2> DEFINE v == [owner |-> ins.owner, id |-> ins.id, at |-> ins.at, value |-> r]
  <2>1. ins \in Row
    BY <1>1 DEF Sound
  <2>2. [ins EXCEPT !.value = r] = v
    BY <2>1 DEF Row
  <2>3. v \in Row
    BY <2>1 DEF Row, Writer, Token
  <2> HIDE DEF ins
  <2> QED
    BY <1>1, <2>2, <2>3 DEF Sound
<1>3. /\ Sound(k, Stamped(r, c, ins), o) /\ Stamped(r, c, ins).at >= old.at
      /\ Stamped(r, c, ins).at >= c.at
  BY <1>0, <1>1, StampedFacts
<1> HIDE DEF ins
<1>4. CASE k \in Bookmark
  BY <1>0, <1>2, <1>4, KeyFacts DEF PutRow, UpsertBookmark, ins
<1>5. CASE k \in Progress
  BY <1>0, <1>3, <1>5, KeyFacts DEF PutRow, UpsertProgress, ins
<1>6. CASE k \in Grammar
  BY <1>0, <1>2, <1>6, KeyFacts DEF PutRow, UpsertGrammarAttempt, ins
<1>7. CASE k \in Retell
  BY <1>0, <1>1, <1>7, KeyFacts DEF PutRow, UpsertRetellAttempt, ins
<1>8. CASE k \in Vocabulary
  BY <1>0, <1>1, <1>3, <1>8, KeyFacts
  DEF PutRow, PutWord, UpsertVocabularyEntry, UpdateVocabularyReview, ins
<1> QED
  BY <1>0, <1>4, <1>5, <1>6, <1>7, <1>8, KeyFacts

\* So does a review.
LEMMA ReviewRowFacts ==
    ASSUME NEW r \in Request, NEW k, NEW o, NEW c \in Changes, NEW row, Sound(k, row, o)
    PROVE  Sound(k, ReviewRow(r, k, c, row), o) /\ ReviewRow(r, k, c, row).at >= row.at
  BY ChangeFacts, StampedFacts DEF ReviewRow, UpdateRetellReview, UpdateVocabularyReview


-----------------------------------------------------------------------------
Holds == {"none", "share", "update", "delete"}

\* The types of the variables one by one.
VarTypes ==
    /\ account \in Nat /\ born \in Nat /\ sequence \in Nat
    /\ sessions \in [Token -> Nat]
    /\ used \in [Credential -> Nat]
    /\ rows \in [Key -> Row]
    /\ events \subseteq Event
    /\ owner \in [Request -> Nat]
    /\ dirty \in [Request -> [Key -> Row \cup {Untouched}]]
    /\ drafts \in [Request -> SUBSET Event]
    /\ hold \in [Request -> Holds]
    /\ HandlerTypes

RequestInv(r) == StageInv(r) /\ OwnerInv(r) /\ TodoInv(r) /\ DraftInv(r)

\* A step of r leaves the other requests where they are.
Others(r) ==
    \A q \in Request \ {r} :
        /\ pc'[q] = pc[q] /\ input'[q] = input[q] /\ owner'[q] = owner[q]
        /\ todo'[q] = todo[q] /\ dirty'[q] = dirty[q] /\ drafts'[q] = drafts[q]
        /\ hold'[q] = hold[q] /\ seen'[q] = seen[q] /\ answer'[q] = answer[q]

\* The invariant, put together from its parts.
LEMMA AccountParts ==
    AccountInv <=> /\ VarTypes /\ CommittedInv
                   /\ \A r \in Request : RequestInv(r)
                   /\ \A q, r \in Request : q # r => LockInv(q, r)
<1>1. ASSUME VarTypes, \A r \in Request : StageInv(r) PROVE TypeOK
  <2>1. ASSUME NEW r \in Request, pc[r] \in {"idle", "done"}
        PROVE  hold[r] = "none" /\ drafts[r] = {} /\ \A k \in Key : dirty[r][k] = Untouched
    BY <1>1, <2>1 DEF VarTypes, StageInv, Touched, Working, Holds
  <2> QED
    BY <1>1, <2>1 DEF VarTypes, TypeOK, Holds
<1>2. TypeOK /\ HandlerTypes => VarTypes
  BY DEF TypeOK, VarTypes, Holds
<1>3. VarTypes => HandlerTypes
  BY DEF VarTypes
<1> QED
  BY <1>1, <1>2, <1>3 DEF AccountInv, RequestInv

\* So it is after a step.
LEMMA AccountPartsNext ==
    ASSUME VarTypes', CommittedInv', (\A r \in Request : RequestInv(r))',
           (\A q, r \in Request : q # r => LockInv(q, r))'
    PROVE  AccountInv'
<1>1. TypeOK'
  <2>1. ASSUME NEW r \in Request, pc'[r] \in {"idle", "done"}
        PROVE  hold'[r] = "none" /\ drafts'[r] = {} /\ \A k \in Key : dirty'[r][k] = Untouched
    BY <2>1 DEF VarTypes, RequestInv, StageInv, Touched, Working, Holds
  <2> QED
    BY <2>1 DEF VarTypes, TypeOK, Holds
<1>2. HandlerTypes'
  BY DEF VarTypes
<1> QED
  BY <1>1, <1>2 DEF AccountInv, RequestInv

\* What has to be shown of a step that commits nothing but a new number or the end
\* of a session.
LEMMA QuietStep ==
    ASSUME AccountInv, NEW r \in Request, Others(r),
           UNCHANGED <<account, rows, events, used>>, born <= born', VarTypes',
           \A t \in Token : sessions'[t] \in {0, account},
           owner'[r] = owner[r] \/ account # 0
               \/ \A q \in Request \ {r} : hold[q] # "update",
           RequestInv(r)',
           \A q \in Request \ {r} : LockInv(q, r)' /\ LockInv(r, q)'
    PROVE  AccountInv'
<1>0. /\ VarTypes /\ CommittedInv
      /\ \A q \in Request : RequestInv(q)
      /\ \A p, q \in Request : p # q => LockInv(p, q)
  BY AccountParts
<1>1. account \in Nat /\ born \in Nat /\ born' \in Nat /\ \A q \in Request : owner[q] \in Nat
  BY <1>0 DEF VarTypes
<1>2. CommittedInv'
  BY <1>0, <1>1 DEF CommittedInv
<1>3. ASSUME NEW q \in Request \ {r} PROVE RequestInv(q)'
  <2>1. StageInv(q)'
    BY <1>0, <1>1 DEF StageInv, RequestInv, Others, Touched
  <2>2. OwnerInv(q)'
    BY <1>0 DEF OwnerInv, RequestInv, Others, Touched
  <2> DEFINE b == input[q].batch
             left == todo[q]
             own == dirty[q]
  <2>0. /\ TodoInv(q) /\ DraftInv(q) /\ input'[q] = input[q] /\ input'[q].batch = b
        /\ pc'[q] = pc[q] /\ todo'[q] = left /\ dirty'[q] = own /\ owner'[q] = owner[q]
        /\ Written(q)' = Written(q) /\ rows' = rows /\ (Touched(q)' <=> Touched(q))
    BY <1>0 DEF RequestInv, Others, Written, Touched
  <2>3. TodoInv(q)'
    BY <2>0 DEF TodoInv
  <2>4. DraftInv(q)'
    BY <2>0 DEF DraftInv
  <2> QED
    BY <2>1, <2>2, <2>3, <2>4 DEF RequestInv
<1>4. ASSUME NEW p \in Request \ {r}, NEW q \in Request \ {r}, p # q PROVE LockInv(p, q)'
  BY <1>0, <1>4 DEF LockInv, Others
<1>5. \A p \in Request : RequestInv(p)'
  BY <1>3
<1>6. \A p, q \in Request : p # q => LockInv(p, q)'
  BY <1>4
<1>7. (\A p \in Request : RequestInv(p))' /\ (\A p, q \in Request : p # q => LockInv(p, q))'
  BY <1>5, <1>6
<1> QED
  BY <1>2, <1>7, AccountPartsNext

\* The end of a request leaves nothing of it open.
LEMMA FinishFacts ==
    ASSUME VarTypes, NEW r \in Request, NEW status \in Nat, Finish(r, status)
    PROVE  /\ pc'[r] = "done" /\ answer'[r] = status /\ todo'[r] = <<>>
           /\ \A k \in Key : dirty'[r][k] = Untouched
           /\ drafts'[r] = {} /\ hold'[r] = "none"
           /\ input' = input /\ owner' = owner
           /\ pc' \in [Request -> Place] /\ answer' \in [Request -> Nat]
           /\ todo' \in [Request -> Seq(Changes)]
           /\ dirty' \in [Request -> [Key -> Row \cup {Untouched}]]
           /\ drafts' \in [Request -> SUBSET Event] /\ hold' \in [Request -> Holds]
           /\ \A q \in Request \ {r} :
                  /\ pc'[q] = pc[q] /\ answer'[q] = answer[q] /\ todo'[q] = todo[q]
                  /\ dirty'[q] = dirty[q] /\ drafts'[q] = drafts[q] /\ hold'[q] = hold[q]
<1>1. /\ pc \in [Request -> Place] /\ answer \in [Request -> Nat]
      /\ todo \in [Request -> Seq(Changes)]
      /\ dirty \in [Request -> [Key -> Row \cup {Untouched}]]
      /\ drafts \in [Request -> SUBSET Event] /\ hold \in [Request -> Holds]
  BY DEF VarTypes, HandlerTypes
<1>2. pc' = [pc EXCEPT ![r] = "done"] /\ "done" \in Place
  BY DEF Finish, Place
<1>3. answer' = [answer EXCEPT ![r] = status] /\ drafts' = [drafts EXCEPT ![r] = {}]
  BY DEF Finish
<1>4. todo' = [todo EXCEPT ![r] = <<>>] /\ <<>> \in Seq(Changes)
  BY DEF Finish
<1>5. hold' = [hold EXCEPT ![r] = "none"] /\ "none" \in Holds
  BY DEF Finish, Holds
<1>6. PICK clean : clean = [k \in Key |-> Untouched] /\ dirty' = [dirty EXCEPT ![r] = clean]
  BY DEF Finish
<1>7. clean \in [Key -> Row \cup {Untouched}] /\ \A k \in Key : clean[k] = Untouched
  BY <1>6
<1>8. UNCHANGED <<input, owner>>
  BY DEF Finish
<1> QED
  BY <1>1, <1>2, <1>3, <1>4, <1>5, <1>6, <1>7, <1>8

\* A request that ends is as it should be.
LEMMA EndedRequest ==
    ASSUME AccountInv, NEW r \in Request, NEW status \in Nat, Finish(r, status),
           born' = born
    PROVE  RequestInv(r)' /\ \A q \in Request \ {r} :
               hold'[q] = hold[q] /\ dirty'[q] = dirty[q] => LockInv(q, r)' /\ LockInv(r, q)'
<1>0. VarTypes /\ RequestInv(r)
  BY AccountParts
<1>1. /\ pc'[r] = "done" /\ todo'[r] = <<>> /\ drafts'[r] = {} /\ hold'[r] = "none"
      /\ \A k \in Key : dirty'[r][k] = Untouched
      /\ input' = input /\ owner' = owner
  BY <1>0, FinishFacts
<1>2. StageInv(r)' /\ OwnerInv(r)'
  BY <1>0, <1>1 DEF StageInv, OwnerInv, RequestInv, Touched, Working, Listing
<1>3. TodoInv(r)'
  BY <1>0, <1>1 DEF TodoInv, RequestInv, Working
<1>4. DraftInv(r)'
  BY <1>1 DEF DraftInv, Working
<1>5. \A q \in Request \ {r} :
          hold'[q] = hold[q] /\ dirty'[q] = dirty[q] => LockInv(q, r)' /\ LockInv(r, q)'
  BY <1>1 DEF LockInv
<1> QED
  BY <1>2, <1>3, <1>4, <1>5 DEF RequestInv

\* A transaction that is rolled back leaves everything as it was.
LEMMA AbortStep ==
    ASSUME AccountInv, NEW r \in Request, NEW status \in Nat, Abort(r, status)
    PROVE  AccountInv' /\ Others(r)
<1>0. /\ VarTypes /\ Finish(r, status) /\ CommittedInv
      /\ UNCHANGED <<account, born, sessions, used, rows, events, sequence, seen>>
  BY AccountParts DEF Abort, committed
<1>1. Others(r)
  BY <1>0, FinishFacts DEF Others
<1>2. VarTypes'
  BY <1>0, FinishFacts DEF VarTypes, HandlerTypes
<1>3. RequestInv(r)' /\ \A q \in Request \ {r} : LockInv(q, r)' /\ LockInv(r, q)'
  BY <1>0, <1>1, EndedRequest DEF Others
<1>4. owner' = owner /\ born <= born' /\ \A t \in Token : sessions'[t] \in {0, account}
  BY <1>0, FinishFacts DEF CommittedInv, VarTypes
<1> QED
  BY <1>0, <1>1, <1>2, <1>3, <1>4, QuietStep

\* The status of an error is a number.
LEMMA FailureFacts ==
    \A r \in Request : Failure(r) \in {401, 500, 503} /\ Failure(r) \in Nat
<1>1. \A r \in Request : Failure(r) \in {401, 500, 503}
  BY DEF Failure
<1> QED
  BY <1>1

\* So does one that fails.
LEMMA FailStep ==
    ASSUME AccountInv, NEW r \in Request, Abort(r, Failure(r))
    PROVE  AccountInv' /\ Others(r)
<1>1. PICK status \in Nat : status = Failure(r)
  BY FailureFacts
<1>2. Abort(r, status)
  BY <1>1
<1> QED
  BY <1>2, AbortStep

\* What a login migrates.
LEMMA BatchFacts ==
    \A b \in Batch : b \in Seq(Changes)
                     /\ \A i \in 1 .. Len(b) : b[i].do = "put" /\ b[i].key \notin Retell
<1> DEFINE Accepted == {c \in Changes : c.do = "put" /\ c.key \notin Retell}
<1>1. ASSUME NEW b \in Seq(Accepted)
      PROVE  b \in Seq(Changes) /\ \A i \in 1 .. Len(b) : b[i] \in Accepted
  OBVIOUS
<1>2. Batch \subseteq Seq(Accepted)
  BY BatchAssumption
<1> QED
  BY <1>1, <1>2

\* A request that arrives holds nothing yet, and acts for the user there is.
LEMMA BeginStep ==
    ASSUME AccountInv, NEW r \in Request, Begin(r)
    PROVE  AccountInv' /\ Others(r)
<1>0. VarTypes /\ CommittedInv /\ RequestInv(r)
  BY AccountParts
<1>1. /\ pc[r] = "idle" /\ hold[r] = "none" /\ drafts[r] = {} /\ answer[r] = 0
      /\ \A k \in Key : dirty[r][k] = Untouched
      /\ input[r] = Nothing /\ owner[r] = 0 /\ account \in Nat /\ born \in Nat
      /\ account <= born
      /\ UNCHANGED <<account, born, sessions, used, rows, events, sequence,
                     dirty, drafts, hold, answer>>
  BY <1>0 DEF Begin, committed, RequestInv, StageInv, Touched, VarTypes, Working, Holds, CommittedInv
<1>2. ASSUME NEW p, NEW a \in Input, NEW o \in Nat, o \in {0, account},
             pc' = [pc EXCEPT ![r] = p], input' = [input EXCEPT ![r] = a],
             owner'[r] = o, todo' \in [Request -> Seq(Changes)],
             owner' \in [Request -> Nat],
             \A q \in Request \ {r} : owner'[q] = owner[q] /\ seen'[q] = seen[q]
                                      /\ todo'[q] = todo[q],
             seen' \in [Request -> [from : [Key -> Row], read : [Key -> Row \cup {Untouched}]]],
             \/ /\ p = "user" /\ a.kind = "login" /\ todo'[r] = a.batch
                /\ \A i \in 1 .. Len(a.batch) : a.batch[i].do = "put" /\ a.batch[i].key \notin Retell
             \/ p = "write" /\ a.kind = "change" /\ o # 0 /\ todo'[r] = a.batch /\ Len(a.batch) = 1
             \/ p = "bookmark" /\ a.kind = "snapshot" /\ o # 0 /\ a.batch = <<>>
             \/ p = "lock" /\ a.kind = "close" /\ o # 0 /\ a.batch = <<>>
             \/ p = "logout" /\ a.kind = "logout" /\ a.batch = <<>>
      PROVE  AccountInv' /\ Others(r)
  <2>1. /\ pc \in [Request -> Place] /\ input \in [Request -> Input]
        /\ pc'[r] = p /\ input'[r] = a
        /\ \A q \in Request \ {r} : pc'[q] = pc[q] /\ input'[q] = input[q]
        /\ p \in Place
    BY <1>0, <1>2 DEF VarTypes, HandlerTypes, Place, Working, Listing
  <2>2. Others(r)
    BY <1>1, <1>2, <2>1 DEF Others
  <2>3. VarTypes'
    BY <1>0, <1>1, <1>2, <2>1 DEF VarTypes, HandlerTypes
  <2>4. a.batch \in Seq(Changes)
    BY <1>2 DEF Input
  <2>5. StageInv(r)'
    BY <1>1, <1>2, <2>1 DEF StageInv, Touched, Working, Listing
  <2>6. OwnerInv(r)'
    BY <1>1, <1>2, <2>1 DEF OwnerInv, Touched
  <2>7. TodoInv(r)'
    <3>1. /\ input'[r].batch = a.batch /\ input'[r].kind = a.kind
          /\ (Touched(r)' <=> FALSE)
      BY <1>1, <2>1 DEF Touched
    <3>2. ASSUME todo'[r] = a.batch
          PROVE  /\ Len(todo'[r]) <= Len(a.batch)
                 /\ \A j \in 1 .. Len(todo'[r]) :
                        todo'[r][j] = a.batch[Len(a.batch) - Len(todo'[r]) + j]
                 /\ Len(a.batch) = 1 => todo'[r] # <<>>
      <4>1. \A b \in Seq(Changes) :
                /\ Len(b) \in Nat /\ Len(b) <= Len(b) /\ (Len(b) = 1 => b # <<>>)
                /\ \A j \in 1 .. Len(b) : Len(b) - Len(b) + j = j
        OBVIOUS
      <4> QED
        BY <2>4, <3>2, <4>1
    <3> QED
      BY <1>2, <2>1, <3>1, <3>2 DEF TodoInv, Working
  <2>8. DraftInv(r)'
    <3>1. p = "write" => Written(r)' = 0
      BY <1>2, <2>1, <2>4 DEF Written
    <3> QED
      BY <1>1, <1>2, <2>1, <3>1 DEF DraftInv, Working
  <2>9. \A q \in Request \ {r} : LockInv(q, r)' /\ LockInv(r, q)'
    BY <1>1 DEF LockInv
  <2>10. owner'[r] = owner[r] \/ account # 0
    BY <1>1, <1>2
  <2>11. \A t \in Token : sessions'[t] \in {0, account}
    BY <1>0, <1>1 DEF CommittedInv
  <2> QED
    BY <1>1, <2>2, <2>3, <2>5, <2>6, <2>7, <2>8, <2>9, <2>10, <2>11, QuietStep DEF RequestInv
<1>3. /\ owner \in [Request -> Nat] /\ todo \in [Request -> Seq(Changes)]
      /\ seen \in [Request -> [from : [Key -> Row], read : [Key -> Row \cup {Untouched}]]]
      /\ rows \in [Key -> Row]
  BY <1>0 DEF VarTypes, HandlerTypes
<1>4. CASE \E b \in Batch, c \in Credential \cup {None} :
             /\ input' = [input EXCEPT ![r] = Ask("login", b, c, None)]
             /\ todo' = [todo EXCEPT ![r] = b]
             /\ pc' = [pc EXCEPT ![r] = "user"]
             /\ UNCHANGED <<owner, seen>>
  <2> PICK b \in Batch, c \in Credential \cup {None} :
             /\ input' = [input EXCEPT ![r] = Ask("login", b, c, None)]
             /\ todo' = [todo EXCEPT ![r] = b]
             /\ pc' = [pc EXCEPT ![r] = "user"]
             /\ UNCHANGED <<owner, seen>>
    BY <1>4
  <2>1. /\ b \in Seq(Changes)
        /\ \A i \in 1 .. Len(b) : b[i].do = "put" /\ b[i].key \notin Retell
    BY BatchFacts
  <2> DEFINE a == Ask("login", b, c, None)
  <2>2. a \in Input /\ a.kind = "login" /\ a.batch = b
    BY <2>1 DEF Ask, Input
  <2> HIDE DEF a
  <2> QED
    BY <1>1, <1>2, <1>3, <2>1, <2>2 DEF a
<1>5. ASSUME NEW t \in Token, sessions[t] # 0, owner' = [owner EXCEPT ![r] = sessions[t]],
             \E c \in Changes :
                      /\ input' = [input EXCEPT ![r] = Ask("change", <<c>>, None, None)]
                      /\ todo' = [todo EXCEPT ![r] = <<c>>]
                      /\ pc' = [pc EXCEPT ![r] = "write"]
                      /\ UNCHANGED seen
      PROVE  AccountInv' /\ Others(r)
  <2> PICK c \in Changes :
                      /\ input' = [input EXCEPT ![r] = Ask("change", <<c>>, None, None)]
                      /\ todo' = [todo EXCEPT ![r] = <<c>>]
                      /\ pc' = [pc EXCEPT ![r] = "write"]
                      /\ UNCHANGED seen
    BY <1>5
  <2> DEFINE a == Ask("change", <<c>>, None, None)
  <2>1. a \in Input /\ a.kind = "change" /\ a.batch = <<c>> /\ <<c>> \in Seq(Changes)
        /\ Len(<<c>>) = 1
    BY DEF Ask, Input
  <2>2. sessions[t] \in Nat /\ sessions[t] \in {0, account}
    BY <1>0 DEF VarTypes, CommittedInv
  <2> HIDE DEF a
  <2> QED
    BY <1>1, <1>2, <1>3, <1>5, <2>1, <2>2 DEF a
<1>6. ASSUME NEW kind \in {"snapshot", "close", "logout"}, NEW tok \in Token \cup {None}
      PROVE  /\ Ask(kind, <<>>, None, tok) \in Input
             /\ Ask(kind, <<>>, None, tok).kind = kind
             /\ Ask(kind, <<>>, None, tok).batch = <<>>
  BY DEF Ask, Input
<1>7. ASSUME NEW t \in Token, sessions[t] # 0, owner' = [owner EXCEPT ![r] = sessions[t]],
             \/ /\ input' = [input EXCEPT ![r] = Ask("snapshot", <<>>, None, None)]
                /\ seen' = [seen EXCEPT ![r].from = rows]
                /\ pc' = [pc EXCEPT ![r] = "bookmark"]
                /\ UNCHANGED todo
             \/ /\ input' = [input EXCEPT ![r] = Ask("close", <<>>, None, None)]
                /\ pc' = [pc EXCEPT ![r] = "lock"]
                /\ UNCHANGED <<todo, seen>>
             \/ /\ input' = [input EXCEPT ![r] = Ask("logout", <<>>, None, t)]
                /\ pc' = [pc EXCEPT ![r] = "logout"]
                /\ UNCHANGED <<todo, seen>>
      PROVE  AccountInv' /\ Others(r)
  <2>0. /\ sessions[t] \in Nat /\ sessions[t] \in {0, account}
        /\ \A v \in {seen, [seen EXCEPT ![r].from = rows]} :
               /\ v \in [Request -> [from : [Key -> Row], read : [Key -> Row \cup {Untouched}]]]
               /\ \A q \in Request \ {r} : v[q] = seen[q]
    BY <1>0, <1>3 DEF VarTypes, CommittedInv
  <2>1. CASE /\ input' = [input EXCEPT ![r] = Ask("snapshot", <<>>, None, None)]
             /\ seen' = [seen EXCEPT ![r].from = rows]
             /\ pc' = [pc EXCEPT ![r] = "bookmark"]
             /\ UNCHANGED todo
    <3> DEFINE a == Ask("snapshot", <<>>, None, None)
    <3>1. a \in Input /\ a.kind = "snapshot" /\ a.batch = <<>>
      BY <1>6
    <3> HIDE DEF a
    <3> QED
      BY <1>1, <1>2, <1>3, <1>7, <2>0, <2>1, <3>1 DEF a
  <2>2. CASE /\ input' = [input EXCEPT ![r] = Ask("close", <<>>, None, None)]
             /\ pc' = [pc EXCEPT ![r] = "lock"]
             /\ UNCHANGED <<todo, seen>>
    <3> DEFINE a == Ask("close", <<>>, None, None)
    <3>1. a \in Input /\ a.kind = "close" /\ a.batch = <<>>
      BY <1>6
    <3> HIDE DEF a
    <3> QED
      BY <1>1, <1>2, <1>3, <1>7, <2>0, <2>2, <3>1 DEF a
  <2>3. CASE /\ input' = [input EXCEPT ![r] = Ask("logout", <<>>, None, t)]
             /\ pc' = [pc EXCEPT ![r] = "logout"]
             /\ UNCHANGED <<todo, seen>>
    <3> DEFINE a == Ask("logout", <<>>, None, t)
    <3>1. a \in Input /\ a.kind = "logout" /\ a.batch = <<>>
      BY <1>6
    <3> HIDE DEF a
    <3> QED
      BY <1>1, <1>2, <1>3, <1>7, <2>0, <2>3, <3>1 DEF a
  <2> QED
    BY <1>7, <2>1, <2>2, <2>3
<1> QED
  BY <1>4, <1>5, <1>7 DEF Begin

\* A login holds the row of users, of the user there is or of a new one.
LEMMA SignInStep ==
    ASSUME AccountInv, NEW r \in Request, SignIn(r)
    PROVE  AccountInv' /\ Others(r)
<1> DEFINE c == input[r].credential
           id == IF account # 0 THEN account ELSE born + 1
<1>0. VarTypes /\ CommittedInv /\ \A q \in Request : RequestInv(q)
  BY AccountParts
<1>1. CASE Abort(r, Failure(r))
  BY <1>1, FailStep
<1>2. CASE ~ Abort(r, Failure(r))
  <2>1. /\ born' = IF account # 0 THEN born ELSE id
        /\ owner' = [owner EXCEPT ![r] = id]
        /\ hold' = [hold EXCEPT ![r] = "update"]
        /\ pc' = [pc EXCEPT ![r] = AfterEvent(todo[r])]
        /\ UNCHANGED <<account, sessions, used, rows, events, sequence,
                       input, todo, dirty, drafts, seen, answer>>
        /\ pc[r] = "user"
        /\ \A q \in Request : hold[q] \notin {"update", "delete"}
    BY <1>2 DEF SignIn
  <2>2. /\ account \in Nat /\ born \in Nat /\ account <= born
        /\ \A q \in Request : owner[q] \in Nat /\ owner[q] <= born
        /\ hold \in [Request -> Holds] /\ pc \in [Request -> Place]
        /\ owner \in [Request -> Nat]
        /\ todo[r] \in Seq(Changes) /\ input[r].batch = todo[r] /\ input[r].kind = "login"
        /\ drafts[r] = {} /\ (\A k \in Key : dirty[r][k] = Untouched) /\ answer[r] = 0
    BY <1>0, <2>1
    DEF VarTypes, HandlerTypes, CommittedInv, RequestInv, StageInv, TodoInv, Working, Touched
  <2>3. /\ id \in Nat /\ id # 0 /\ born' \in Nat /\ born <= born' /\ id <= born'
        /\ \/ id = account
           \/ account = 0 /\ \A q \in Request : owner[q] # id
    BY <2>1, <2>2
  <2> HIDE DEF id
  <2>4. /\ hold'[r] = "update" /\ owner'[r] = id /\ pc'[r] = AfterEvent(todo[r])
        /\ AfterEvent(todo[r]) \in {"write", "commit"}
        /\ AfterEvent(todo[r]) = "commit" <=> todo[r] = <<>>
        /\ \A q \in Request \ {r} : hold'[q] = hold[q] /\ owner'[q] = owner[q] /\ pc'[q] = pc[q]
    BY <2>1, <2>2 DEF AfterEvent
  <2>5. Others(r)
    BY <2>1, <2>4 DEF Others
  <2>6. VarTypes'
    <3>1. "update" \in Holds /\ AfterEvent(todo[r]) \in Place
      BY <2>4 DEF Holds, Place, Working
    <3> QED
      BY <1>0, <2>1, <2>2, <2>3, <3>1 DEF VarTypes, HandlerTypes
  <2>7. StageInv(r)'
    BY <2>1, <2>2, <2>3, <2>4 DEF StageInv, Working, Listing, Touched
  <2>8. OwnerInv(r)'
    BY <2>1, <2>2, <2>3, <2>4 DEF OwnerInv, Touched
  <2>9. TodoInv(r)'
    <3>1. TodoInv(r)
      BY <1>0 DEF RequestInv
    <3> QED
      BY <2>1, <2>2, <2>4, <3>1 DEF TodoInv, Working
  <2>10. DraftInv(r)'
    <3>1. Written(r)' = 0
      BY <2>1, <2>2, <2>4 DEF Written
    <3> QED
      BY <2>1, <2>2, <2>4, <3>1 DEF DraftInv
  <2>11. \A q \in Request \ {r} : LockInv(q, r)' /\ LockInv(r, q)'
    BY <2>1, <2>2, <2>4 DEF LockInv
  <2>12. \A t \in Token : sessions'[t] \in {0, account}
    BY <1>0, <2>1 DEF CommittedInv
  <2> QED
    BY <2>1, <2>3, <2>5, <2>6, <2>7, <2>8, <2>9, <2>10, <2>11, <2>12, QuietStep DEF RequestInv
<1> QED
  BY <1>1, <1>2

\* What a request under way sees and has locked: the rows of its user, and no other
\* request has written one that it may write.
LEMMA WriterFacts ==
    ASSUME AccountInv, NEW r \in Request, pc[r] \in Working,
           owner[r] = account \/ hold[r] = "update"
    PROVE  /\ owner[r] # 0
           /\ \A q \in Request \ {r}, k \in Key :
                  dirty[q][k] # Untouched => owner[q] = owner[r]
<1>0. /\ VarTypes /\ \A q \in Request : RequestInv(q)
      /\ \A p, q \in Request : p # q => LockInv(p, q)
  BY AccountParts
<1>1. owner[r] # 0
  BY <1>0 DEF RequestInv, StageInv
<1>2. ASSUME NEW q \in Request \ {r}, NEW k \in Key, dirty[q][k] # Untouched
      PROVE  owner[q] = owner[r]
  <2>1. Touched(q)
    BY <1>2 DEF Touched
  <2>2. owner[q] # 0 /\ (owner[q] = account \/ hold[q] = "update")
    BY <1>0, <2>1 DEF RequestInv, StageInv, OwnerInv
  <2>3. hold[q] = "update" => hold[r] # "update"
    BY <1>0 DEF LockInv
  <2>4. /\ hold[q] = "update" => owner[q] = account \/ account = 0
        /\ hold[r] = "update" => owner[r] = account \/ account = 0
    BY <1>0 DEF RequestInv, OwnerInv
  <2> QED
    BY <1>1, <2>2, <2>3, <2>4
<1> QED
  BY <1>1, <1>2

\* The row a request sees is sound, and not older than the committed one.
LEMMA ViewFacts ==
    ASSUME AccountInv, NEW r \in Request, pc[r] = "write", NEW k \in Key
    PROVE  /\ View(r, k) = Absent \/ Sound(k, View(r, k), owner[r])
           /\ View(r, k) # Absent => owner[r] = account \/ hold[r] = "update"
           /\ owner[r] = account \/ hold[r] = "update" => View(r, k).at >= rows[k].at
           /\ dirty[r][k] # Untouched => View(r, k) = dirty[r][k]
<1>0. VarTypes /\ CommittedInv /\ RequestInv(r)
  BY AccountParts
<1>1. /\ rows[k] = Absent \/ Sound(k, rows[k], account)
      /\ rows[k].at \in Nat /\ rows[k] \in Row
  BY <1>0, RowFacts DEF CommittedInv, VarTypes
<1>2. CASE dirty[r][k] # Untouched
  <2>1. Sound(k, dirty[r][k], owner[r]) /\ dirty[r][k].at >= rows[k].at
    BY <1>0, <1>2 DEF RequestInv, DraftInv
  <2>2. owner[r] = account \/ hold[r] = "update"
    BY <1>0, <1>2 DEF RequestInv, OwnerInv, Touched
  <2> QED
    BY <1>2, <2>1, <2>2 DEF View
<1>3. CASE dirty[r][k] = Untouched
  <2>1. owner[r] # 0 /\ (hold[r] = "update" => owner[r] = account \/ account = 0)
    BY <1>0 DEF RequestInv, StageInv, OwnerInv, Working
  <2>2. CASE rows[k].owner = owner[r]
    <3>1. View(r, k) = rows[k]
      BY <1>3, <2>2 DEF View
    <3>2. rows[k] # Absent
      BY <2>1, <2>2, RowFacts
    <3>3. Sound(k, rows[k], account) /\ owner[r] = account
      BY <1>1, <2>2, <3>2 DEF Sound
    <3> QED
      BY <1>1, <1>3, <3>1, <3>3
  <2>3. CASE rows[k].owner # owner[r]
    <3>1. View(r, k) = Absent
      BY <1>3, <2>3 DEF View
    <3>2. owner[r] = account \/ hold[r] = "update" => rows[k] = Absent
      BY <1>1, <2>1, <2>3 DEF Sound
    <3> QED
      BY <1>3, <3>1, <3>2, RowFacts
  <2> QED
    BY <2>2, <2>3
<1> QED
  BY <1>2, <1>3

\* The change a request writes next.
LEMMA NextChange ==
    ASSUME AccountInv, NEW r \in Request, pc[r] \in {"write", "event"}
    PROVE  /\ todo[r] \in Seq(Changes) /\ todo[r] # <<>> /\ Len(todo[r]) \in Nat \ {0}
           /\ Head(todo[r]) = todo[r][1] /\ todo[r][1] \in Changes
           /\ input[r].batch \in Seq(Changes) /\ Len(input[r].batch) \in Nat
           /\ Len(todo[r]) <= Len(input[r].batch)
           /\ todo[r][1] = input[r].batch[Len(input[r].batch) - Len(todo[r]) + 1]
           /\ input[r].kind \in {"login", "change"}
           /\ input[r].kind = "login" => todo[r][1].do = "put" /\ todo[r][1].key \notin Retell
           /\ input[r].kind = "change" => Len(input[r].batch) = 1 /\ Len(todo[r]) = 1
<1>0. VarTypes /\ RequestInv(r)
  BY AccountParts
<1>1. todo[r] \in Seq(Changes) /\ input[r].batch \in Seq(Changes)
  BY <1>0 DEF VarTypes, HandlerTypes, Input
<1>2. /\ todo[r] # <<>> /\ Len(todo[r]) <= Len(input[r].batch)
      /\ input[r].kind \in {"login", "change"}
      /\ input[r].kind = "change" => Len(input[r].batch) = 1
      /\ \A j \in 1 .. Len(todo[r]) :
             todo[r][j] = input[r].batch[Len(input[r].batch) - Len(todo[r]) + j]
  BY <1>0 DEF RequestInv, TodoInv, StageInv, Working
<1>3. /\ Len(todo[r]) \in Nat \ {0} /\ Len(input[r].batch) \in Nat
      /\ Head(todo[r]) = todo[r][1] /\ todo[r][1] \in Changes
  BY <1>1, <1>2
<1>4. PICK m \in Nat \ {0}, n \in Nat : m = Len(todo[r]) /\ n = Len(input[r].batch)
  BY <1>3
<1>5. m <= n /\ 1 \in 1 .. m /\ n - m + 1 \in 1 .. n
  <2>1. m <= n
    BY <1>2, <1>4
  <2> QED
    BY <2>1
<1>6. todo[r][1] = input[r].batch[n - m + 1]
  BY <1>2, <1>4, <1>5
<1>7. input[r].kind = "login" => todo[r][1].do = "put" /\ todo[r][1].key \notin Retell
  BY <1>0, <1>4, <1>5, <1>6 DEF RequestInv, TodoInv
<1>8. input[r].kind = "change" => m = 1 /\ n = 1
  <2>1. input[r].kind = "change" => n = 1
    BY <1>2, <1>4
  <2> QED
    BY <1>5, <2>1
<1> QED
  BY <1>1, <1>2, <1>3, <1>4, <1>6, <1>7, <1>8

\* A statement that writes a row.
LEMMA WriteStep ==
    ASSUME AccountInv, NEW r \in Request, pc[r] = "write",
           NEW k \in Key, NEW row, Write(r, k, row), ~ Locked(r, k),
           NEW h, hold' = [hold EXCEPT ![r] = h],
           h = hold[r] \/ (hold[r] = "none" /\ h = "share" /\ Free(r, {"delete"})),
           owner[r] = account \/ hold[r] = "update",
           \/ /\ row = Absent /\ k \in Erasable /\ todo[r][1].do # "put"
           \/ /\ Sound(k, row, owner[r]) /\ row.at >= rows[k].at
              /\ dirty[r][k] # Untouched => row.at >= dirty[r][k].at,
           todo[r][1].do = "put" => k = todo[r][1].key /\ Sound(k, row, owner[r])
                                    /\ (k \in Progress => row.at >= todo[r][1].at),
           k \in Retell => todo[r][1].key = k
    PROVE  AccountInv' /\ Others(r)
<1> DEFINE c == todo[r][1]
           b == input[r].batch
           m == Len(todo[r])
           n == Len(b)
<1>0. /\ VarTypes /\ CommittedInv /\ RequestInv(r)
      /\ \A q \in Request : RequestInv(q)
      /\ \A p, q \in Request : p # q => LockInv(p, q)
  BY AccountParts
<1>1. /\ UNCHANGED <<account, born, sessions, used, rows, events, sequence>>
      /\ UNCHANGED <<input, owner, todo, drafts, seen, answer>>
      /\ pc' = [pc EXCEPT ![r] = IF k \in Retell THEN "commit" ELSE "event"]
      /\ dirty' = [dirty EXCEPT ![r][k] = row]
  BY DEF Write, committed
<1>2. /\ pc'[r] = (IF k \in Retell THEN "commit" ELSE "event")
      /\ hold'[r] = h
      /\ \A q \in Request \ {r} : pc'[q] = pc[q] /\ hold'[q] = hold[q]
      /\ pc' \in [Request -> Place] /\ hold' \in [Request -> Holds]
  <2>1. pc \in [Request -> Place] /\ hold \in [Request -> Holds] /\ h \in Holds
    BY <1>0 DEF VarTypes, HandlerTypes, Holds
  <2>2. {"commit", "event"} \subseteq Place
    BY DEF Place, Working
  <2> QED
    BY <1>1, <2>1, <2>2
<1>3. row \in Row
  BY RowFacts DEF Sound
<1>4. /\ dirty'[r][k] = row
      /\ \A j \in Key \ {k} : dirty'[r][j] = dirty[r][j]
      /\ \A q \in Request \ {r} : dirty'[q] = dirty[q]
      /\ dirty' \in [Request -> [Key -> Row \cup {Untouched}]]
  <2>1. dirty \in [Request -> [Key -> Row \cup {Untouched}]]
    BY <1>0 DEF VarTypes
  <2> QED
    BY <1>1, <1>3, <2>1
<1>5. Others(r)
  BY <1>1, <1>2, <1>4 DEF Others
<1>6. VarTypes'
  BY <1>0, <1>1, <1>2, <1>4 DEF VarTypes, HandlerTypes
<1>7. /\ owner[r] # 0 /\ \A q \in Request \ {r} : dirty[q][k] = Untouched
  BY WriterFacts DEF Working, Locked
<1>8. /\ todo[r] \in Seq(Changes) /\ m \in Nat \ {0} /\ todo[r] # <<>>
      /\ b \in Seq(Changes) /\ n \in Nat /\ m <= n
      /\ c = b[n - m + 1] /\ c \in Changes
      /\ input[r].kind \in {"login", "change"}
      /\ input[r].kind = "login" => c.do = "put" /\ c.key \notin Retell
      /\ input[r].kind = "change" => n = 1 /\ m = 1
  BY NextChange
<1>81. Len(todo[r]) = m /\ Len(b) = n /\ \A i \in 1 .. n : b[i] \in Changes
  BY <1>8
<1> HIDE DEF m, n
<1>82. n = 1 /\ m = 1 => b[1] = c
  BY <1>8
<1>9. StageInv(r)'
  <2>1. StageInv(r)
    BY <1>0 DEF RequestInv
  <2>2. pc[r] # "done" /\ pc'[r] \in {"commit", "event"}
    BY <1>2
  <2> QED
    BY <1>1, <1>2, <2>1, <2>2 DEF StageInv, Working, Listing
<1>10. OwnerInv(r)'
  <2>1. OwnerInv(r) /\ h # "delete"
    BY <1>0 DEF RequestInv, StageInv
  <2> QED
    BY <1>1, <1>2, <2>1 DEF OwnerInv
<1>11. TodoInv(r)'
  <2>1. TodoInv(r)
    BY <1>0 DEF RequestInv
  <2>2. /\ pc'[r] = "commit" \/ pc'[r] = "event"
        /\ pc'[r] = "commit" => c.key \in Retell /\ input[r].kind = "change" /\ Len(b) = 1
                                /\ b[1].key \in Retell
    BY <1>2, <1>8, <1>81, <1>82
  <2>3. input'[r].batch = b /\ input'[r].kind = input[r].kind /\ todo'[r] = todo[r]
    BY <1>1
  <2> QED
    BY <1>8, <1>81, <2>1, <2>2, <2>3 DEF TodoInv, Working
<1>12. DraftInv(r)'
  <2>0. DraftInv(r) /\ input'[r] = input[r] /\ todo'[r] = todo[r] /\ owner'[r] = owner[r]
        /\ rows' = rows
    BY <1>0, <1>1 DEF RequestInv
  <2>1. ASSUME NEW j \in Key
        PROVE  \/ dirty'[r][j] = Untouched
               \/ /\ dirty'[r][j] = Absent /\ j \in Erasable
                  /\ input'[r].kind = "change" /\ pc'[r] \in {"event", "commit"}
               \/ Sound(j, dirty'[r][j], owner'[r]) /\ dirty'[r][j].at >= rows'[j].at
    <3>1. CASE j = k
      BY <1>2, <1>4, <1>8, <2>0, <3>1
    <3>2. CASE j # k
      BY <1>2, <1>4, <2>0, <3>2 DEF DraftInv
    <3> QED
      BY <3>1, <3>2
  <2>2. pc'[r] = "event" /\ todo'[r][1].do = "put" =>
            Sound(todo'[r][1].key, dirty'[r][todo'[r][1].key], owner'[r])
    BY <1>4, <2>0
  <2>3. ASSUME NEW i \in 1 .. Written(r)', input'[r].batch[i].key \in Progress
        PROVE  /\ Sound(input'[r].batch[i].key, dirty'[r][input'[r].batch[i].key], owner'[r])
               /\ dirty'[r][input'[r].batch[i].key].at >= input'[r].batch[i].at
    <3> DEFINE d == b[i]
    <3>1. Written(r)' = n - m + (IF k \in Retell THEN 0 ELSE 1)
      BY <1>2, <1>81, <2>0 DEF Written
    <3>2. Written(r) = n - m
      BY <1>81 DEF Written
    <3>3. b \in Seq(Changes) /\ input'[r].batch[i] = d
      BY <1>0, <2>0 DEF VarTypes, HandlerTypes, Input
    <3>4. i \in 1 .. n /\ d \in Changes
      BY <1>8, <1>81, <2>3, <3>1, <3>3
    <3>5. CASE i \in 1 .. Written(r)
      <4>1. Sound(d.key, dirty[r][d.key], owner[r]) /\ dirty[r][d.key].at >= d.at
        BY <2>0, <2>3, <3>3, <3>5 DEF DraftInv, Working
      <4>2. CASE d.key = k
        <5>1. c.do = "put"
          BY <1>8, <3>2, <3>5
        <5>2. dirty[r][k] # Untouched /\ Sound(k, row, owner[r]) /\ row.at >= dirty[r][k].at
          BY <4>1, <4>2, <5>1, RowFacts
        <5>3. row.at \in Nat /\ dirty[r][k].at \in Nat /\ d.at \in Nat
          BY <1>3, <3>4, <4>1, <4>2, RowFacts, ChangeFacts DEF Sound
        <5> QED
          BY <1>4, <2>0, <3>3, <4>1, <4>2, <5>2, <5>3
      <4>3. CASE d.key # k
        <5>1. d.key \in Key
          BY <2>3, <3>3, KeyFacts
        <5> QED
          BY <1>4, <2>0, <3>3, <4>1, <4>3, <5>1
      <4> QED
        BY <4>2, <4>3
    <3>6. CASE i \notin 1 .. Written(r)
      <4>1. k \notin Retell /\ i = n - m + 1
        BY <1>8, <2>3, <3>1, <3>2, <3>6
      <4>2. d = c /\ c.key \in Progress
        BY <1>8, <2>3, <3>3, <4>1
      <4>3. c.do = "put"
        BY <1>8, <4>2, ChangeFacts, KeyFacts, NoneAssumption
      <4> QED
        BY <1>4, <2>0, <3>3, <4>2, <4>3
    <3> QED
      BY <3>5, <3>6
  <2> QED
    BY <2>1, <2>2, <2>3 DEF DraftInv
<1>13. ASSUME NEW q \in Request \ {r} PROVE LockInv(q, r)' /\ LockInv(r, q)'
  <2>1. LockInv(q, r) /\ LockInv(r, q)
    BY <1>0
  <2>2. hold[r] # "delete"
    BY <1>0 DEF RequestInv, StageInv
  <2> QED
    BY <1>1, <1>2, <1>4, <1>7, <2>1, <2>2 DEF LockInv, Free
<1>14. \A t \in Token : sessions'[t] \in {0, account}
  BY <1>0, <1>1 DEF CommittedInv
<1>15. born <= born' /\ owner'[r] = owner[r]
  BY <1>0, <1>1 DEF VarTypes
<1> QED
  BY <1>1, <1>5, <1>6, <1>9, <1>10, <1>11, <1>12, <1>13, <1>14, <1>15, QuietStep
  DEF RequestInv

\* The rows that a review or a deletion finds.
LEMMA FoundFacts ==
    ASSUME NEW r \in Request, NEW c \in Changes, c.do \in {"review", "remove"},
           NEW k \in Found(r, c)
    PROVE  /\ k \in Key /\ View(r, k) # Absent
           /\ k \in Retell => c.key = k
           /\ c.do = "remove" => k \in Erasable
<1>1. /\ k \in IF c.key = None THEN Vocabulary ELSE {c.key}
      /\ View(r, k) # Absent
  BY DEF Found
<1>2. CASE c.key = None
  BY <1>1, <1>2, KeyFacts DEF Erasable
<1>3. CASE c.key # None
  <2>1. k = c.key /\ (c.key \in Retell \/ (c.key \in Bookmark /\ c.do = "remove"))
        /\ (c.do = "remove" => c.key \in Bookmark)
    BY <1>1, <1>3, ChangeFacts
  <2> QED
    BY <1>1, <2>1, KeyFacts DEF Erasable
<1> QED
  BY <1>2, <1>3

\* A statement of PutChange, or its end.
LEMMA PutStep ==
    ASSUME AccountInv, NEW r \in Request, PutChange(r)
    PROVE  AccountInv' /\ Others(r)
<1> DEFINE c == todo[r][1]
           old == View(r, c.key)
           row == PutRow(r, c, old)
           h == IF old = Absent /\ hold[r] = "none" THEN "share" ELSE hold[r]
<1>0. pc[r] = "write" /\ VarTypes /\ RequestInv(r)
  BY AccountParts DEF PutChange
<1>1. CASE Abort(r, Failure(r))
  BY <1>1, FailStep
<1>2. CASE ~ Abort(r, Failure(r))
  <2>1. Head(todo[r]) = c /\ c \in Changes
    BY <1>0, NextChange
  <2>2. /\ c.do = "put" /\ ~ Locked(r, c.key)
        /\ old = Absent => Free(r, {"delete"}) /\ Referenced(r)
        /\ Write(r, c.key, row)
        /\ hold' = [hold EXCEPT ![r] = h]
    BY <1>2, <2>1 DEF PutChange
  <2>3. c.key \in Key
    BY <2>1, <2>2, ChangeFacts
  <2>4. /\ old = Absent \/ Sound(c.key, old, owner[r])
        /\ owner[r] = account \/ hold[r] = "update"
        /\ old.at >= rows[c.key].at
        /\ dirty[r][c.key] # Untouched => old = dirty[r][c.key]
    BY <1>0, <2>2, <2>3, ViewFacts DEF Referenced
  <2>5. owner[r] \in Nat \ {0} /\ rows[c.key] \in Row
    BY <1>0, <2>3 DEF VarTypes, RequestInv, StageInv, Working
  <2>6. /\ Sound(c.key, row, owner[r]) /\ row.at >= old.at
        /\ c.key \in Progress => row.at >= c.at
    BY <2>1, <2>2, <2>4, <2>5, PutRowFacts
  <2>7. row.at \in Nat /\ old.at \in Nat /\ rows[c.key].at \in Nat
    BY <2>4, <2>5, <2>6, RowFacts DEF Sound
  <2> HIDE DEF old, row
  <2>8. row.at >= rows[c.key].at /\ (dirty[r][c.key] # Untouched => row.at >= dirty[r][c.key].at)
    BY <2>4, <2>6, <2>7
  <2>9. h = hold[r] \/ (hold[r] = "none" /\ h = "share" /\ Free(r, {"delete"}))
    BY <2>2
  <2> HIDE DEF h
  <2> QED
    BY <1>0, <2>2, <2>3, <2>4, <2>6, <2>8, <2>9, WriteStep
<1> QED
  BY <1>1, <1>2

\* A statement of ReviewChange.
LEMMA ReviewStep ==
    ASSUME AccountInv, NEW r \in Request, ReviewChange(r)
    PROVE  AccountInv' /\ Others(r)
<1> DEFINE c == todo[r][1]
<1>0. pc[r] = "write" /\ VarTypes /\ RequestInv(r) /\ hold \in [Request -> Holds]
  BY AccountParts DEF ReviewChange, VarTypes
<1>1. CASE Abort(r, 404)
  BY <1>1, AbortStep
<1>2. CASE ~ Abort(r, 404)
  <2>1. Head(todo[r]) = c /\ c \in Changes
    BY <1>0, NextChange
  <2>2. /\ c.do = "review" /\ \A k \in Found(r, c) : ~ Locked(r, k)
        /\ \E k \in Found(r, c) : Write(r, k, ReviewRow(r, k, c, View(r, k))) /\ UNCHANGED hold
    BY <1>2, <2>1 DEF ReviewChange
  <2>3. PICK k \in Found(r, c) :
            Write(r, k, ReviewRow(r, k, c, View(r, k))) /\ UNCHANGED hold
    BY <2>2
  <2> DEFINE row == ReviewRow(r, k, c, View(r, k))
             old == View(r, k)
  <2>4. k \in Key /\ old # Absent /\ (k \in Retell => c.key = k)
    BY <2>1, <2>2, FoundFacts
  <2>5. /\ Sound(k, old, owner[r])
        /\ owner[r] = account \/ hold[r] = "update"
        /\ old.at >= rows[k].at
        /\ dirty[r][k] # Untouched => old = dirty[r][k]
    BY <1>0, <2>4, ViewFacts
  <2>6. Sound(k, row, owner[r]) /\ row.at >= old.at
    BY <2>1, <2>5, ReviewRowFacts
  <2>7. row.at \in Nat /\ old.at \in Nat /\ rows[k].at \in Nat
    BY <1>0, <2>4, <2>5, <2>6, RowFacts DEF Sound, VarTypes
  <2>8. ~ Locked(r, k) /\ hold' = [hold EXCEPT ![r] = hold[r]] /\ Write(r, k, row)
    BY <1>0, <2>2, <2>3
  <2> HIDE DEF old, row
  <2>9. row.at >= rows[k].at /\ (dirty[r][k] # Untouched => row.at >= dirty[r][k].at)
    BY <2>5, <2>6, <2>7
  <2> QED
    BY <1>0, <2>2, <2>4, <2>5, <2>6, <2>8, <2>9, WriteStep
<1> QED
  BY <1>1, <1>2

\* A statement of RemoveChange, whether it finds a row or none.
LEMMA RemoveStep ==
    ASSUME AccountInv, NEW r \in Request, RemoveChange(r)
    PROVE  AccountInv' /\ Others(r)
<1> DEFINE c == todo[r][1]
           b == input[r].batch
<1>0. /\ pc[r] = "write" /\ VarTypes /\ CommittedInv /\ RequestInv(r)
      /\ hold \in [Request -> Holds]
      /\ \A p, q \in Request : p # q => LockInv(p, q)
  BY AccountParts DEF RemoveChange, VarTypes
<1>1. Head(todo[r]) = c /\ c \in Changes
  BY <1>0, NextChange
<1>2. c.do = "remove" /\ (\A k \in Found(r, c) : ~ Locked(r, k)) /\ UNCHANGED hold
  BY <1>1 DEF RemoveChange
<1>3. CASE Found(r, c) # {}
  <2>1. PICK k \in Found(r, c) : Write(r, k, Absent)
    BY <1>1, <1>3 DEF RemoveChange
  <2>2. k \in Key /\ View(r, k) # Absent /\ (k \in Retell => c.key = k) /\ k \in Erasable
    BY <1>1, <1>2, FoundFacts
  <2>3. owner[r] = account \/ hold[r] = "update"
    BY <1>0, <2>2, ViewFacts
  <2>4. ~ Locked(r, k) /\ hold' = [hold EXCEPT ![r] = hold[r]]
    BY <1>0, <1>2
  <2> QED
    BY <1>0, <1>2, <2>1, <2>2, <2>3, <2>4, WriteStep
<1>4. CASE Found(r, c) = {}
  <2>1. /\ pc' = [pc EXCEPT ![r] = "event"]
        /\ UNCHANGED <<account, born, sessions, used, rows, events, sequence>>
        /\ UNCHANGED <<input, owner, todo, dirty, drafts, hold, seen, answer>>
    BY <1>1, <1>2, <1>4 DEF RemoveChange, committed
  <2>2. /\ pc'[r] = "event" /\ \A q \in Request \ {r} : pc'[q] = pc[q]
        /\ pc' \in [Request -> Place]
    <3>1. pc \in [Request -> Place] /\ "event" \in Place
      BY <1>0 DEF VarTypes, HandlerTypes, Place, Working
    <3> QED
      BY <2>1, <3>1
  <2>3. Others(r) /\ VarTypes'
    BY <1>0, <2>1, <2>2 DEF Others, VarTypes, HandlerTypes
  <2>4. /\ todo[r] # <<>> /\ input[r].kind = "change" /\ Len(b) = 1 /\ Len(todo[r]) = 1
        /\ c = b[Len(b) - Len(todo[r]) + 1]
    BY <1>0, <1>2, NextChange
  <2>5. b[1] = c /\ c.key \notin Progress
    BY <1>1, <1>2, <2>4, ChangeFacts, KeyFacts, NoneAssumption
  <2>6. StageInv(r)' /\ OwnerInv(r)'
    BY <1>0, <2>1, <2>2 DEF RequestInv, StageInv, OwnerInv, Touched, Working, Listing
  <2>7. TodoInv(r)'
    <3>1. TodoInv(r) /\ input'[r] = input[r] /\ todo'[r] = todo[r]
      BY <1>0, <2>1 DEF RequestInv
    <3> QED
      BY <1>0, <2>2, <2>4, <3>1 DEF TodoInv, Working
  <2>8. DraftInv(r)'
    <3>1. DraftInv(r) /\ input'[r] = input[r] /\ todo'[r] = todo[r] /\ dirty' = dirty
          /\ owner' = owner /\ rows' = rows /\ ~ Touched(r)
      BY <1>0, <2>1, <2>4 DEF RequestInv, TodoInv
    <3>2. Written(r)' = 1
      <4>1. Len(input'[r].batch) = 1 /\ Len(todo'[r]) = 1 /\ pc'[r] = "event"
        BY <2>2, <2>4, <3>1
      <4> QED
        BY <4>1 DEF Written
    <3>3. \A k \in Key : dirty[r][k] = Untouched
      BY <3>1 DEF Touched
    <3>4. \A i \in 1 .. Written(r)' : i = 1
      BY <3>2
    <3> QED
      BY <1>2, <2>2, <2>5, <3>1, <3>3, <3>4 DEF DraftInv
  <2>9. \A q \in Request \ {r} : LockInv(q, r)' /\ LockInv(r, q)'
    BY <1>0, <2>1 DEF LockInv
  <2>10. /\ \A t \in Token : sessions'[t] \in {0, account}
         /\ born <= born' /\ owner'[r] = owner[r]
    BY <1>0, <2>1 DEF CommittedInv, VarTypes
  <2> QED
    BY <2>1, <2>3, <2>6, <2>7, <2>8, <2>9, <2>10, QuietStep DEF RequestInv
<1> QED
  BY <1>3, <1>4

\* An event is about a row or the id of a word.
LEMMA EntityFacts ==
    ASSUME AccountInv, NEW r \in Request, pc[r] = "event"
    PROVE  Entity(r, todo[r][1]) \in Key \cup ({"entry"} \X Id)
<1> DEFINE c == todo[r][1]
<1>0. /\ c \in Changes /\ c.do \in {"put", "review", "remove"}
      /\ c.do = "put" => c.key \in Key
      /\ c.do = "review" => c.key \in Retell \/ (c.key = None /\ c.id \in Id)
      /\ c.do = "remove" => c.key \in Bookmark \/ (c.key = None /\ c.id \in Id)
  BY NextChange, ChangeFacts
<1> HIDE DEF c
<1>1. CASE c.key = None
  <2>1. c.id \in Id
    BY <1>0, <1>1, NoneAssumption, KeyFacts
  <2>2. <<"entry", c.id>> \in {"entry"} \X Id
    BY <2>1
  <2> QED
    BY <1>1, <2>2 DEF Entity, c
<1>2. CASE c.key # None /\ c.key \in Vocabulary
  <2>1. c.do = "put"
    BY <1>0, <1>2, KeyFacts
  <2>2. Sound(c.key, dirty[r][c.key], owner[r])
    BY <2>1, AccountParts DEF RequestInv, DraftInv, c
  <2>3. <<"entry", dirty[r][c.key].id>> \in {"entry"} \X Id
    BY <1>2, <2>2 DEF Sound
  <2> QED
    BY <1>2, <2>3 DEF Entity, c
<1>3. CASE c.key # None /\ c.key \notin Vocabulary
  <2>1. c.key \in Key
    BY <1>0, <1>3, KeyFacts
  <2> QED
    BY <1>3, <2>1 DEF Entity, c
<1> QED
  BY <1>1, <1>2, <1>3 DEF c

\* Tails.
LEMMA TailFacts ==
    ASSUME NEW S, NEW s \in Seq(S), s # <<>>
    PROVE  /\ Tail(s) \in Seq(S) /\ Len(Tail(s)) = Len(s) - 1
           /\ Tail(s) = <<>> <=> Len(s) = 1
           /\ \A j \in 1 .. Len(s) - 1 : Tail(s)[j] = s[j + 1]
<1>1. PICK n \in Nat : n = Len(s)
  OBVIOUS
<1>2. n # 0
  BY <1>1
<1>3. Tail(s) \in Seq(S) /\ Len(Tail(s)) = n - 1
  BY <1>1, <1>2
<1>4. \A j \in 1 .. n - 1 : Tail(s)[j] = s[j + 1]
  BY <1>1, <1>2
<1>5. \A q \in Seq(S) : q = <<>> <=> Len(q) = 0
  OBVIOUS
<1>6. Tail(s) = <<>> <=> n = 1
  <2>1. PICK t \in Seq(S) : t = Tail(s)
    BY <1>3
  <2>2. Len(t) = n - 1 /\ (t = <<>> <=> Len(t) = 0)
    BY <1>3, <1>5, <2>1
  <2>3. t = <<>> <=> n = 1
    BY <1>1, <2>2
  <2> QED
    BY <2>1, <2>3
<1> QED
  BY <1>1, <1>3, <1>4, <1>6

\* The event of the change that has been written.
LEMMA AddEventStep ==
    ASSUME AccountInv, NEW r \in Request, AddEvent(r)
    PROVE  AccountInv' /\ Others(r)
<1> DEFINE c == todo[r][1]
           b == input[r].batch
           m == Len(todo[r])
           n == Len(b)
           rest == Tail(todo[r])
           e == [sequence |-> sequence + 1, owner |-> owner[r], entity |-> Entity(r, c),
                 operation |-> IF c.do = "remove" THEN "delete" ELSE "upsert", by |-> r]
           h == IF hold[r] = "none" THEN "share" ELSE hold[r]
<1>0. /\ pc[r] = "event" /\ VarTypes /\ CommittedInv /\ RequestInv(r)
      /\ \A p, q \in Request : p # q => LockInv(p, q)
  BY AccountParts DEF AddEvent
<1>1. CASE Abort(r, Failure(r))
  BY <1>1, FailStep
<1>2. CASE ~ Abort(r, Failure(r))
  <2>1. /\ todo[r] \in Seq(Changes) /\ todo[r] # <<>> /\ m \in Nat \ {0}
        /\ Head(todo[r]) = c /\ c \in Changes
        /\ b \in Seq(Changes) /\ n \in Nat /\ m <= n
        /\ input[r].kind = "change" => n = 1 /\ m = 1
    BY <1>0, NextChange
  <2>2. /\ Free(r, {"delete"}) /\ Referenced(r)
        /\ sequence' = sequence + 1
        /\ drafts' = [drafts EXCEPT ![r] = drafts[r] \cup {e}]
        /\ hold' = [hold EXCEPT ![r] = h]
        /\ todo' = [todo EXCEPT ![r] = rest]
        /\ pc' = [pc EXCEPT ![r] = AfterEvent(rest)]
        /\ UNCHANGED <<account, born, sessions, used, rows, events,
                       input, owner, dirty, seen, answer>>
    BY <1>2, <2>1 DEF AddEvent
  <2>3. /\ pc \in [Request -> Place] /\ hold \in [Request -> Holds]
        /\ todo \in [Request -> Seq(Changes)] /\ drafts \in [Request -> SUBSET Event]
        /\ sequence \in Nat /\ owner[r] \in Nat
    BY <1>0 DEF VarTypes, HandlerTypes
  <2>4. /\ rest \in Seq(Changes) /\ Len(rest) = m - 1
        /\ rest = <<>> <=> m = 1
        /\ \A j \in 1 .. m - 1 : rest[j] = todo[r][j + 1]
    BY <2>1, TailFacts
  <2> HIDE DEF rest
  <2>5. e \in Event
    <3>1. Entity(r, c) \in Key \cup ({"entry"} \X Id)
      BY <1>0, EntityFacts
    <3> QED
      BY <2>3, <3>1 DEF Event, Token
  <2>6. e.owner = owner[r]
    OBVIOUS
  <2> HIDE DEF e
  <2>7. h \in Holds /\ h # "none" /\ AfterEvent(rest) \in {"write", "commit"}
        /\ (AfterEvent(rest) = "commit" <=> rest = <<>>) /\ AfterEvent(rest) \in Place
        /\ (h = hold[r] \/ (hold[r] = "none" /\ h = "share"))
    BY <2>3 DEF Holds, AfterEvent, Place, Working
  <2> HIDE DEF h
  <2>8. /\ pc'[r] = AfterEvent(rest) /\ hold'[r] = h /\ todo'[r] = rest
        /\ drafts'[r] = drafts[r] \cup {e}
        /\ \A q \in Request \ {r} : pc'[q] = pc[q] /\ hold'[q] = hold[q] /\ todo'[q] = todo[q]
                                    /\ drafts'[q] = drafts[q]
        /\ pc' \in [Request -> Place] /\ hold' \in [Request -> Holds]
        /\ todo' \in [Request -> Seq(Changes)] /\ drafts' \in [Request -> SUBSET Event]
        /\ sequence' \in Nat
    BY <2>2, <2>3, <2>4, <2>5, <2>7
  <2>9. Others(r) /\ VarTypes'
    BY <1>0, <2>2, <2>8 DEF Others, VarTypes, HandlerTypes
  <2>10. StageInv(r)' /\ OwnerInv(r)'
    <3>1. StageInv(r) /\ OwnerInv(r)
      BY <1>0 DEF RequestInv
    <3>2. StageInv(r)'
      BY <1>0, <2>2, <2>7, <2>8, <3>1 DEF StageInv, Working, Listing, Touched
    <3>3. h = "share" => owner[r] = account
      BY <1>0, <2>2, <2>7, <3>1 DEF OwnerInv, StageInv, Referenced
    <3>4. h # "delete"
      BY <1>0, <2>7, <3>1 DEF StageInv
    <3>5. OwnerInv(r)'
      BY <2>2, <2>6, <2>7, <2>8, <3>1, <3>3, <3>4 DEF OwnerInv, Touched
    <3> QED
      BY <3>2, <3>5
  <2>11. TodoInv(r)'
    <3>1. TodoInv(r)
      BY <1>0 DEF RequestInv
    <3>2. input'[r] = input[r] /\ input'[r].batch = b
      BY <2>2
    <3>3. Len(todo[r]) = m /\ Len(b) = n /\ Len(todo'[r]) = m - 1
      BY <2>1, <2>4, <2>8
    <3> HIDE DEF m, n
    <3>4. \A j \in 1 .. m : todo[r][j] = b[n - m + j]
      BY <1>0, <3>1, <3>3 DEF TodoInv, Working
    <3>5. \A j \in 1 .. m - 1 : todo'[r][j] = b[n - (m - 1) + j]
      <4> TAKE j \in 1 .. m - 1
      <4>1. j + 1 \in 1 .. m /\ n - m + (j + 1) = n - (m - 1) + j
        BY <2>1
      <4> QED
        BY <2>4, <2>8, <3>4, <4>1
    <3>6. m - 1 <= n /\ (pc'[r] = "write" => todo'[r] # <<>> /\ input[r].kind # "change")
          /\ (pc'[r] = "commit" => todo'[r] = <<>>) /\ pc'[r] \in {"write", "commit"}
      BY <2>1, <2>4, <2>7, <2>8
    <3> QED
      BY <3>1, <3>2, <3>3, <3>5, <3>6 DEF TodoInv, Working
  <2>12. DraftInv(r)'
    <3>1. DraftInv(r) /\ input'[r] = input[r] /\ dirty' = dirty /\ owner' = owner /\ rows' = rows
      BY <1>0, <2>2 DEF RequestInv
    <3>2. Written(r)' = Written(r)
      <4>1. Len(todo[r]) = m /\ Len(b) = n /\ Len(todo'[r]) = m - 1
        BY <2>1, <2>4, <2>8
      <4>2. Written(r) = n - m + 1
        BY <1>0 DEF Written
      <4>3. Written(r)' = n - (m - 1) + 0
        BY <2>7, <2>8, <3>1, <4>1 DEF Written
      <4> HIDE DEF m, n
      <4> QED
        BY <2>1, <4>2, <4>3
    <3>3. input[r].kind = "change" => pc'[r] = "commit"
      BY <2>1, <2>4, <2>7, <2>8
    <3>4. pc'[r] \in {"write", "commit"}
      BY <2>7, <2>8
    <3> QED
      BY <1>0, <3>1, <3>2, <3>3, <3>4 DEF DraftInv, Working
  <2>13. ASSUME NEW q \in Request \ {r} PROVE LockInv(q, r)' /\ LockInv(r, q)'
    <3>1. LockInv(q, r) /\ LockInv(r, q) /\ hold[r] # "delete"
      BY <1>0 DEF RequestInv, StageInv
    <3> QED
      BY <2>2, <2>7, <2>8, <3>1 DEF LockInv, Free
  <2>14. /\ \A t \in Token : sessions'[t] \in {0, account}
         /\ born <= born' /\ owner'[r] = owner[r]
    BY <1>0, <2>2 DEF CommittedInv, VarTypes
  <2> QED
    BY <2>2, <2>9, <2>10, <2>11, <2>12, <2>13, <2>14, QuietStep DEF RequestInv
<1> QED
  BY <1>1, <1>2

\* What has to be shown of the other requests when rows are committed.
LEMMA OtherRequest ==
    ASSUME AccountInv, NEW r \in Request, Others(r), NEW q \in Request \ {r},
           born' = born, OwnerInv(q)',
           \A k \in Key : dirty[q][k] # Untouched => rows'[k] = rows[k]
    PROVE  RequestInv(q)'
<1>0. RequestInv(q)
  BY AccountParts
<1>1. /\ input'[q] = input[q] /\ pc'[q] = pc[q] /\ todo'[q] = todo[q]
      /\ dirty'[q] = dirty[q] /\ owner'[q] = owner[q] /\ drafts'[q] = drafts[q]
      /\ hold'[q] = hold[q] /\ answer'[q] = answer[q]
      /\ Written(q)' = Written(q) /\ (Touched(q)' <=> Touched(q))
  BY DEF Others, Written, Touched
<1>2. StageInv(q)'
  BY <1>0, <1>1 DEF RequestInv, StageInv
<1>3. TodoInv(q)'
  BY <1>0, <1>1 DEF RequestInv, TodoInv
<1>4. DraftInv(q)'
  BY <1>0, <1>1 DEF RequestInv, DraftInv
<1> QED
  BY <1>2, <1>3, <1>4 DEF RequestInv

\* The user whose transaction commits is there, or nothing is and it comes with it.
LEMMA CommitOwner ==
    ASSUME AccountInv, NEW r \in Request, Commit(r)
    PROVE  /\ owner[r] # 0 /\ input[r].kind \in {"login", "change"}
           /\ input[r].kind = "login" =>
                  /\ hold[r] = "update"
                  /\ \/ owner[r] = account
                     \/ account = 0 /\ \A q \in Request \ {r} : owner[q] # owner[r]
           /\ input[r].kind = "change" => ~ hold[r] = "update"
                  /\ (Touched(r) \/ drafts[r] # {} => owner[r] = account)
  BY AccountParts
  DEF Commit, RequestInv, StageInv, OwnerInv, Working, VarTypes, Holds

\* A commit: the rows of r become the committed ones.
LEMMA CommitStep ==
    ASSUME AccountInv, NEW r \in Request, Commit(r)
    PROVE  AccountInv' /\ Others(r)
<1>0. /\ pc[r] = "commit" /\ VarTypes /\ CommittedInv
      /\ \A q \in Request : RequestInv(q)
      /\ \A p, q \in Request : p # q => LockInv(p, q)
  BY AccountParts DEF Commit
<1>1. PICK status \in Nat : Finish(r, status)
  <2>1. \E status \in {200, Failure(r)} : Finish(r, status)
    BY DEF Commit
  <2> QED
    BY <2>1, FailureFacts
<1>2. /\ rows' = [k \in Key |-> IF dirty[r][k] # Untouched THEN dirty[r][k] ELSE rows[k]]
      /\ events' = events \cup drafts[r]
      /\ UNCHANGED <<born, sequence, seen>>
  BY DEF Commit
<1>3. /\ owner[r] # 0 /\ owner[r] \in Nat /\ account \in Nat /\ born \in Nat
      /\ owner[r] <= born /\ account <= born
  BY <1>0, CommitOwner DEF VarTypes, RequestInv, StageInv, CommittedInv
<1>4. Others(r) /\ input' = input /\ owner' = owner
  BY <1>0, <1>1, <1>2, FinishFacts DEF Others
<1>5. /\ rows' \in [Key -> Row]
      /\ \A k \in Key : rows'[k] = IF dirty[r][k] # Untouched THEN dirty[r][k] ELSE rows[k]
  <2>1. \A k \in Key : rows[k] \in Row /\ dirty[r][k] \in Row \cup {Untouched}
    BY <1>0 DEF VarTypes
  <2> QED
    BY <1>2, <2>1
<1>6. /\ \A k \in Key : rows[k] = Absent \/ Sound(k, rows[k], account)
      /\ \A k \in Key : \/ dirty[r][k] = Untouched \/ dirty[r][k] = Absent
                        \/ Sound(k, dirty[r][k], owner[r])
      /\ \A e \in events : e.owner = account /\ account # 0
      /\ \A e \in drafts[r] : e.owner = owner[r]
      /\ \A t \in Token : sessions[t] \in {0, account}
      /\ \A d \in Credential : used[d] \in {0, account}
      /\ sessions \in [Token -> Nat] /\ used \in [Credential -> Nat]
  BY <1>0 DEF CommittedInv, VarTypes, RequestInv, DraftInv, OwnerInv
<1>7. events' \subseteq Event
  BY <1>0, <1>2 DEF VarTypes
<1>8. ASSUME NEW q \in Request \ {r}, NEW k \in Key, dirty[q][k] # Untouched
      PROVE  rows'[k] = rows[k]
  <2>1. LockInv(q, r)
    BY <1>0
  <2>2. dirty[r][k] = Untouched
    BY <1>8, <2>1 DEF LockInv
  <2> QED
    BY <1>5, <2>2
<1>9. CASE input[r].kind = "login"
  <2>1. /\ account' = owner[r]
        /\ sessions' = [sessions EXCEPT ![r] = owner[r]]
        /\ used' = [d \in Credential |->
                       IF d = input[r].credential THEN owner[r] ELSE used[d]]
    BY <1>9 DEF Commit
  <2>2. /\ sessions' \in [Token -> Nat] /\ used' \in [Credential -> Nat]
        /\ \A t \in Token : sessions'[t] \in {sessions[t], owner[r]}
        /\ \A d \in Credential : used'[d] \in {used[d], owner[r]}
    BY <1>3, <1>6, <2>1 DEF Token
  <2>3. /\ hold[r] = "update"
        /\ \/ owner[r] = account
           \/ account = 0 /\ \A q \in Request \ {r} : owner[q] # owner[r]
    BY <1>9, CommitOwner
  <2>4. VarTypes'
    BY <1>0, <1>1, <1>2, <1>3, <1>5, <1>7, <2>1, <2>2, FinishFacts DEF VarTypes, HandlerTypes
  <2>5. CommittedInv'
    <3>1. \A k \in Key : rows[k] = Absent \/ Sound(k, rows[k], owner[r])
      BY <1>6, <2>3 DEF Sound
    <3>2. \A e \in events : e.owner = owner[r]
      BY <1>6, <2>3
    <3>3. /\ \A t \in Token : sessions[t] \in {0, owner[r]}
          /\ \A d \in Credential : used[d] \in {0, owner[r]}
      BY <1>6, <2>3
    <3>4. \A k \in Key : rows'[k] = Absent \/ Sound(k, rows'[k], owner[r])
      BY <1>5, <1>6, <3>1
    <3>5. \A e \in events' : e.owner = owner[r]
      BY <1>2, <1>6, <3>2
    <3> QED
      BY <1>2, <1>3, <2>1, <2>2, <3>3, <3>4, <3>5 DEF CommittedInv
  <2>6. ASSUME NEW q \in Request \ {r} PROVE OwnerInv(q)'
    <3>1. LockInv(r, q) /\ OwnerInv(q) /\ StageInv(q)
      BY <1>0 DEF RequestInv
    <3>2. hold[q] \notin {"update", "delete"}
      BY <2>3, <3>1 DEF LockInv
    <3>3. /\ pc'[q] = pc[q] /\ hold'[q] = hold[q] /\ owner'[q] = owner[q]
          /\ drafts'[q] = drafts[q] /\ (Touched(q)' <=> Touched(q))
      BY <1>4 DEF Others, Touched
    <3>4. CASE owner[r] = account
      BY <2>1, <3>1, <3>2, <3>3, <3>4 DEF OwnerInv
    <3>5. CASE account = 0 /\ \A p \in Request \ {r} : owner[p] # owner[r]
      <4>1. hold[q] = "share" => owner[q] # 0
        BY <3>1 DEF StageInv
      <4>2. Touched(q) => owner[q] # 0
        BY <3>1 DEF StageInv
      <4>3. hold[q] # "share" /\ ~ Touched(q)
        BY <3>1, <3>2, <3>5, <4>1, <4>2 DEF OwnerInv
      <4> QED
        BY <3>1, <3>2, <3>3, <4>3 DEF OwnerInv
    <3> QED
      BY <2>3, <3>4, <3>5
  <2>7. \A q \in Request \ {r} : RequestInv(q)'
    BY <1>2, <1>4, <1>8, <2>6, OtherRequest
  <2>8. RequestInv(r)' /\ \A q \in Request \ {r} : LockInv(q, r)' /\ LockInv(r, q)'
    BY <1>1, <1>2, <1>4, EndedRequest DEF Others
  <2>9. \A p, q \in Request \ {r} : p # q => LockInv(p, q)'
    BY <1>0, <1>4 DEF LockInv, Others
  <2> QED
    BY <1>4, <2>4, <2>5, <2>7, <2>8, <2>9, AccountPartsNext
<1>10. CASE input[r].kind # "login"
  <2>1. UNCHANGED <<account, sessions, used>>
    BY <1>10 DEF Commit
  <2>2. Touched(r) \/ drafts[r] # {} => owner[r] = account
    BY <1>10, CommitOwner
  <2>3. VarTypes'
    BY <1>0, <1>1, <1>2, <1>5, <1>7, <2>1, FinishFacts DEF VarTypes, HandlerTypes
  <2>4. CommittedInv'
    <3>1. \A k \in Key : rows'[k] = Absent \/ Sound(k, rows'[k], account)
      BY <1>5, <1>6, <2>2 DEF Touched
    <3>2. \A e \in events' : e.owner = account /\ account # 0
      BY <1>2, <1>3, <1>6, <2>2
    <3> QED
      BY <1>0, <1>2, <2>1, <3>1, <3>2 DEF CommittedInv
  <2>5. ASSUME NEW q \in Request \ {r} PROVE OwnerInv(q)'
    <3>1. OwnerInv(q)
      BY <1>0 DEF RequestInv
    <3> QED
      BY <1>4, <2>1, <3>1 DEF OwnerInv, Others, Touched
  <2>6. \A q \in Request \ {r} : RequestInv(q)'
    BY <1>2, <1>4, <1>8, <2>5, OtherRequest
  <2>7. RequestInv(r)' /\ \A q \in Request \ {r} : LockInv(q, r)' /\ LockInv(r, q)'
    BY <1>1, <1>2, <1>4, EndedRequest DEF Others
  <2>8. \A p, q \in Request \ {r} : p # q => LockInv(p, q)'
    BY <1>0, <1>4 DEF LockInv, Others
  <2> QED
    BY <1>4, <2>3, <2>4, <2>6, <2>7, <2>8, AccountPartsNext
<1> QED
  BY <1>9, <1>10

\* The row of users is locked for its deletion.
LEMMA LockAccountStep ==
    ASSUME AccountInv, NEW r \in Request, LockAccount(r)
    PROVE  AccountInv' /\ Others(r)
<1>0. /\ pc[r] = "lock" /\ VarTypes /\ CommittedInv
      /\ \A q \in Request : RequestInv(q)
      /\ \A p, q \in Request : p # q => LockInv(p, q)
  BY AccountParts DEF LockAccount
<1>1. CASE account # owner[r]
  BY <1>1, AbortStep DEF LockAccount
<1>2. CASE account = owner[r]
  <2>1. /\ Free(r, {"share", "update", "delete"})
        /\ hold' = [hold EXCEPT ![r] = "delete"]
        /\ pc' = [pc EXCEPT ![r] = "cascade"]
        /\ UNCHANGED <<account, born, sessions, used, rows, events, sequence>>
        /\ UNCHANGED <<input, owner, todo, dirty, drafts, seen, answer>>
    BY <1>2 DEF LockAccount, committed
  <2>2. /\ pc'[r] = "cascade" /\ hold'[r] = "delete"
        /\ \A q \in Request \ {r} : pc'[q] = pc[q] /\ hold'[q] = hold[q]
        /\ pc' \in [Request -> Place] /\ hold' \in [Request -> Holds]
    <3>1. /\ pc \in [Request -> Place] /\ hold \in [Request -> Holds]
          /\ "cascade" \in Place /\ "delete" \in Holds
      BY <1>0 DEF VarTypes, HandlerTypes, Place, Holds
    <3> QED
      BY <2>1, <3>1
  <2>3. Others(r) /\ VarTypes'
    BY <1>0, <2>1, <2>2 DEF Others, VarTypes, HandlerTypes
  <2>4. StageInv(r)' /\ OwnerInv(r)'
    <3>1. StageInv(r) /\ OwnerInv(r)
      BY <1>0 DEF RequestInv
    <3> QED
      BY <1>0, <1>2, <2>1, <2>2, <3>1 DEF StageInv, OwnerInv, Touched, Working, Listing
  <2>5. TodoInv(r)' /\ DraftInv(r)'
    <3>1. /\ TodoInv(r) /\ StageInv(r) /\ input'[r] = input[r] /\ todo'[r] = todo[r]
          /\ dirty' = dirty
      BY <1>0, <2>1 DEF RequestInv
    <3>2. \A k \in Key : dirty[r][k] = Untouched
      BY <1>0, <3>1 DEF StageInv, Working, Touched
    <3>3. TodoInv(r)'
      BY <2>2, <3>1 DEF TodoInv, Working
    <3>4. DraftInv(r)'
      BY <2>2, <3>1, <3>2 DEF DraftInv, Working
    <3> QED
      BY <3>3, <3>4
  <2>6. ASSUME NEW q \in Request \ {r} PROVE LockInv(q, r)' /\ LockInv(r, q)'
    <3>1. LockInv(q, r) /\ LockInv(r, q) /\ StageInv(q) /\ OwnerInv(q) /\ StageInv(r)
      BY <1>0 DEF RequestInv
    <3>2. owner[r] # 0
      BY <1>0, <3>1 DEF StageInv
    <3>3. owner[q] = owner[r] => hold[q] = "none"
      BY <1>0, <2>1 DEF Free, VarTypes, Holds
    <3>4. hold[q] \notin {"update", "delete"}
      BY <1>2, <3>1, <3>2, <3>3 DEF OwnerInv
    <3> QED
      BY <2>1, <2>2, <3>1, <3>3, <3>4 DEF LockInv
  <2>7. /\ \A t \in Token : sessions'[t] \in {0, account}
        /\ born <= born' /\ owner'[r] = owner[r]
    BY <1>0, <2>1 DEF CommittedInv, VarTypes
  <2> QED
    BY <2>1, <2>3, <2>4, <2>5, <2>6, <2>7, QuietStep DEF RequestInv
<1> QED
  BY <1>1, <1>2

\* Nobody writes for an account whose deletion is under way.
LEMMA CascadeFacts ==
    ASSUME AccountInv, NEW r \in Request, Cascade(r)
    PROVE  /\ owner[r] = account /\ account # 0
           /\ \A q \in Request \ {r} : hold[q] = "none" /\ ~ Touched(q) /\ drafts[q] = {}
<1>0. /\ pc[r] = "cascade" /\ VarTypes
      /\ \A q \in Request : RequestInv(q)
      /\ \A p, q \in Request : p # q => LockInv(p, q)
  BY AccountParts DEF Cascade
<1>1. hold[r] = "delete" /\ owner[r] = account /\ account # 0
  BY <1>0 DEF RequestInv, StageInv, OwnerInv
<1>2. ASSUME NEW q \in Request \ {r}
      PROVE  hold[q] = "none" /\ ~ Touched(q) /\ drafts[q] = {}
  <2>1. LockInv(r, q) /\ OwnerInv(q) /\ hold[q] \in Holds
    BY <1>0 DEF RequestInv, VarTypes
  <2>2. hold[q] = "none"
    BY <1>1, <2>1 DEF LockInv, OwnerInv, Holds
  <2>3. ~ Touched(q)
    <3>1. SUFFICES ASSUME Touched(q) PROVE FALSE
      OBVIOUS
    <3>2. owner[q] = owner[r]
      BY <1>1, <2>1, <2>2, <3>1 DEF OwnerInv
    <3> QED
      BY <3>1, <3>2 DEF Cascade, Locked, Touched
  <2> QED
    BY <2>1, <2>2, <2>3 DEF OwnerInv
<1> QED
  BY <1>1, <1>2

\* The account is deleted with everything that refers to it.
LEMMA CascadeStep ==
    ASSUME AccountInv, NEW r \in Request, Cascade(r)
    PROVE  AccountInv' /\ Others(r)
<1>0. /\ pc[r] = "cascade" /\ VarTypes /\ CommittedInv
      /\ \A q \in Request : RequestInv(q)
      /\ \A p, q \in Request : p # q => LockInv(p, q)
  BY AccountParts DEF Cascade
<1>1. PICK status \in Nat : Finish(r, status)
  BY DEF Cascade
<1>2. /\ account' = 0
      /\ rows' = [k \in Key |-> Absent]
      /\ events' = {}
      /\ sessions' = [t \in Token |-> IF sessions[t] = owner[r] THEN 0 ELSE sessions[t]]
      /\ used' = [d \in Credential |-> IF used[d] = owner[r] THEN 0 ELSE used[d]]
      /\ UNCHANGED <<born, sequence, seen>>
  BY DEF Cascade
<1>3. /\ owner[r] = account /\ account # 0
      /\ \A q \in Request \ {r} : hold[q] = "none" /\ ~ Touched(q) /\ drafts[q] = {}
  BY CascadeFacts
<1>4. Others(r) /\ input' = input /\ owner' = owner
  BY <1>0, <1>1, <1>2, FinishFacts DEF Others
<1>5. /\ \A t \in Token : sessions[t] \in {0, account}
      /\ \A d \in Credential : used[d] \in {0, account}
      /\ born \in Nat
  BY <1>0 DEF CommittedInv, VarTypes
<1>6. /\ \A t \in Token : sessions'[t] = 0
      /\ \A d \in Credential : used'[d] = 0
      /\ sessions' \in [Token -> Nat] /\ used' \in [Credential -> Nat]
      /\ rows' \in [Key -> Row] /\ \A k \in Key : rows'[k] = Absent
  <2>1. Absent \in Row
    BY RowFacts
  <2>2. \A t \in Token : (IF sessions[t] = owner[r] THEN 0 ELSE sessions[t]) = 0
    BY <1>3, <1>5
  <2>3. \A d \in Credential : (IF used[d] = owner[r] THEN 0 ELSE used[d]) = 0
    BY <1>3, <1>5
  <2> QED
    BY <1>2, <2>1, <2>2, <2>3
<1>7. VarTypes'
  BY <1>0, <1>1, <1>2, <1>6, FinishFacts DEF VarTypes, HandlerTypes
<1>8. CommittedInv'
  BY <1>2, <1>5, <1>6 DEF CommittedInv
<1>9. ASSUME NEW q \in Request \ {r} PROVE OwnerInv(q)'
  BY <1>3, <1>4 DEF OwnerInv, Others, Touched
<1>10. \A q \in Request \ {r} : RequestInv(q)'
  <2>1. \A q \in Request \ {r} : \A k \in Key : dirty[q][k] = Untouched
    BY <1>3 DEF Touched
  <2> QED
    BY <1>2, <1>4, <1>9, <2>1, OtherRequest
<1>11. RequestInv(r)' /\ \A q \in Request \ {r} : LockInv(q, r)' /\ LockInv(r, q)'
  BY <1>1, <1>2, <1>4, EndedRequest DEF Others
<1>12. \A p, q \in Request \ {r} : p # q => LockInv(p, q)'
  BY <1>0, <1>4 DEF LockInv, Others
<1> QED
  BY <1>4, <1>7, <1>8, <1>10, <1>11, <1>12, AccountPartsNext

\* A session ends.
LEMMA LogoutStep ==
    ASSUME AccountInv, NEW r \in Request, Logout(r)
    PROVE  AccountInv' /\ Others(r)
<1>0. VarTypes /\ CommittedInv
  BY AccountParts
<1>1. PICK status \in Nat : Finish(r, status)
  BY DEF Logout
<1>2. /\ sessions' = [sessions EXCEPT ![input[r].token] = 0]
      /\ UNCHANGED <<account, born, used, rows, events, sequence, seen>>
  BY DEF Logout
<1>3. Others(r) /\ owner' = owner
  BY <1>0, <1>1, <1>2, FinishFacts DEF Others
<1>4. /\ sessions' \in [Token -> Nat]
      /\ \A t \in Token : sessions'[t] \in {0, account}
      /\ born <= born'
  <2>1. PICK tok : sessions' = [sessions EXCEPT ![tok] = 0]
    BY <1>2
  <2>2. /\ sessions \in [Token -> Nat] /\ born \in Nat
        /\ \A t \in Token : sessions[t] \in {0, account}
    BY <1>0 DEF VarTypes, CommittedInv
  <2>3. sessions' \in [Token -> Nat] /\ \A t \in Token : sessions'[t] \in {0, sessions[t]}
    BY <2>1, <2>2
  <2>4. born <= born'
    BY <1>2, <2>2
  <2> QED
    BY <2>2, <2>3, <2>4
<1>5. VarTypes'
  BY <1>0, <1>1, <1>2, <1>4, FinishFacts DEF VarTypes, HandlerTypes
<1>6. RequestInv(r)' /\ \A q \in Request \ {r} : LockInv(q, r)' /\ LockInv(r, q)'
  BY <1>1, <1>2, <1>3, EndedRequest DEF Others
<1> QED
  BY <1>2, <1>3, <1>4, <1>5, <1>6, QuietStep

\* What a snapshot has listed of the tables.
LEMMA ListedFacts ==
    ASSUME AccountInv, NEW r \in Request, pc[r] \in Listing, NEW table
    PROVE  /\ Listed(r, table) \in [Key -> Row \cup {Untouched}]
           /\ \A k \in Key : Listed(r, table)[k] =
                  IF k \in table THEN View(r, k) ELSE seen[r].read[k]
           /\ \A k \in Key : View(r, k) = IF rows[k].owner = owner[r] THEN rows[k] ELSE Absent
<1>1. /\ rows \in [Key -> Row] /\ seen[r].read \in [Key -> Row \cup {Untouched}]
      /\ \A k \in Key : dirty[r][k] = Untouched
  BY AccountParts DEF VarTypes, HandlerTypes, RequestInv, StageInv, Listing, Working, Touched
<1>2. \A k \in Key : View(r, k) = IF rows[k].owner = owner[r] THEN rows[k] ELSE Absent
  BY <1>1 DEF View
<1> QED
  BY <1>1, <1>2, RowFacts DEF Listed

\* One of the four queries of GET /me.
LEMMA ListStep ==
    ASSUME AccountInv, NEW r \in Request,
           NEW at \in Listing, NEW table, NEW next \in Listing \cup {"done"},
           ListThen(r, at, table, next)
    PROVE  AccountInv' /\ Others(r)
<1>0. pc[r] = at /\ VarTypes /\ CommittedInv /\ RequestInv(r)
      /\ \A p, q \in Request : p # q => LockInv(p, q)
  BY AccountParts DEF ListThen
<1>1. /\ UNCHANGED <<account, born, sessions, used, rows, events, sequence>>
      /\ seen' = [seen EXCEPT ![r].read = Listed(r, table)]
  BY DEF ListThen, committed
<1>2. /\ seen' \in [Request -> [from : [Key -> Row], read : [Key -> Row \cup {Untouched}]]]
      /\ \A q \in Request \ {r} : seen'[q] = seen[q]
  <2>1. /\ seen \in [Request -> [from : [Key -> Row], read : [Key -> Row \cup {Untouched}]]]
        /\ Listed(r, table) \in [Key -> Row \cup {Untouched}]
    BY <1>0, ListedFacts DEF VarTypes, HandlerTypes
  <2> QED
    BY <1>1, <2>1
<1>3. /\ \A t \in Token : sessions'[t] \in {0, account}
      /\ born <= born'
  BY <1>0, <1>1 DEF CommittedInv, VarTypes
<1>4. CASE next = "done"
  <2>1. Finish(r, 200)
    BY <1>4 DEF ListThen
  <2>2. Others(r) /\ owner' = owner
    BY <1>0, <1>2, <2>1, FinishFacts DEF Others
  <2>3. VarTypes'
    <3>1. PICK status \in Nat : Finish(r, status)
      BY <2>1
    <3> QED
      BY <1>0, <1>1, <1>2, <3>1, FinishFacts DEF VarTypes, HandlerTypes
  <2>4. RequestInv(r)' /\ \A q \in Request \ {r} : LockInv(q, r)' /\ LockInv(r, q)'
    BY <1>1, <2>1, <2>2, EndedRequest DEF Others
  <2> QED
    BY <1>1, <1>3, <2>2, <2>3, <2>4, QuietStep
<1>5. CASE next # "done"
  <2>1. /\ pc' = [pc EXCEPT ![r] = next]
        /\ UNCHANGED <<input, owner, todo, dirty, drafts, hold, answer>>
    BY <1>5 DEF ListThen
  <2>2. /\ pc'[r] = next /\ next \in Listing /\ \A q \in Request \ {r} : pc'[q] = pc[q]
        /\ pc' \in [Request -> Place]
    <3>1. pc \in [Request -> Place] /\ next \in Place /\ next \in Listing
      BY <1>0, <1>5 DEF VarTypes, HandlerTypes, Place
    <3> QED
      BY <2>1, <3>1
  <2>3. Others(r) /\ VarTypes'
    BY <1>0, <1>1, <1>2, <2>1, <2>2 DEF Others, VarTypes, HandlerTypes
  <2>4. StageInv(r)' /\ OwnerInv(r)'
    <3>1. StageInv(r) /\ OwnerInv(r)
      BY <1>0 DEF RequestInv
    <3> QED
      BY <1>0, <1>1, <2>1, <2>2, <3>1 DEF StageInv, OwnerInv, Touched, Working, Listing
  <2>5. TodoInv(r)' /\ DraftInv(r)'
    <3>1. /\ TodoInv(r) /\ StageInv(r) /\ input'[r] = input[r] /\ todo'[r] = todo[r]
          /\ dirty' = dirty
      BY <1>0, <2>1 DEF RequestInv
    <3>2. \A k \in Key : dirty[r][k] = Untouched
      BY <1>0, <3>1 DEF StageInv, Working, Listing, Touched
    <3>3. TodoInv(r)'
      BY <2>2, <3>1 DEF TodoInv, Working, Listing
    <3>4. DraftInv(r)'
      BY <2>2, <3>1, <3>2 DEF DraftInv, Working, Listing
    <3> QED
      BY <3>3, <3>4
  <2>6. \A q \in Request \ {r} : LockInv(q, r)' /\ LockInv(r, q)'
    BY <1>0, <2>1 DEF LockInv
  <2> QED
    BY <1>1, <1>3, <2>1, <2>3, <2>4, <2>5, <2>6, QuietStep DEF RequestInv
<1> QED
  BY <1>4, <1>5

\* A step of no request: a session that expires, or nothing at all.
LEMMA IdleStep ==
    ASSUME AccountInv, UNCHANGED <<account, born, used, rows, events, sequence, handler>>,
           \/ UNCHANGED sessions
           \/ \E t \in Token : sessions' = [sessions EXCEPT ![t] = 0]
    PROVE  AccountInv'
<1>0. /\ VarTypes /\ CommittedInv
      /\ \A q \in Request : RequestInv(q)
      /\ \A p, q \in Request : p # q => LockInv(p, q)
      /\ UNCHANGED <<pc, input, owner, todo, dirty, drafts, hold, seen, answer>>
  BY AccountParts DEF handler
<1>1. /\ sessions' \in [Token -> Nat]
      /\ \A t \in Token : sessions'[t] \in {0, account}
  BY <1>0 DEF VarTypes, CommittedInv
<1>2. VarTypes' /\ CommittedInv'
  BY <1>0, <1>1 DEF VarTypes, HandlerTypes, CommittedInv
<1>3. ASSUME NEW q \in Request PROVE RequestInv(q)'
  <2>1. /\ StageInv(q) /\ OwnerInv(q) /\ TodoInv(q) /\ DraftInv(q)
        /\ (Touched(q)' <=> Touched(q)) /\ Written(q)' = Written(q)
    BY <1>0 DEF RequestInv, Touched, Written
  <2>2. StageInv(q)' /\ OwnerInv(q)'
    BY <1>0, <2>1 DEF StageInv, OwnerInv
  <2>3. TodoInv(q)'
    BY <1>0, <2>1 DEF TodoInv
  <2>4. DraftInv(q)'
    BY <1>0, <2>1 DEF DraftInv
  <2> QED
    BY <2>2, <2>3, <2>4 DEF RequestInv
<1>4. \A p, q \in Request : p # q => LockInv(p, q)'
  BY <1>0 DEF LockInv
<1> QED
  BY <1>2, <1>3, <1>4, AccountPartsNext

\* Every step of a request keeps the invariant and the other requests.
LEMMA RequestStep ==
    ASSUME AccountInv, NEW r \in Request, Begin(r) \/ Refuse(r) \/ Handler(r) \/ Fail(r)
    PROVE  AccountInv' /\ Others(r)
<1>1. CASE Begin(r)
  BY <1>1, BeginStep
<1>2. CASE Refuse(r)
  BY <1>2, AbortStep DEF Refuse
<1>3. CASE Fail(r)
  BY <1>3, FailStep DEF Fail
<1>4. CASE SignIn(r)
  BY <1>4, SignInStep
<1>5. CASE PutChange(r) \/ ReviewChange(r) \/ RemoveChange(r)
  BY <1>5, PutStep, ReviewStep, RemoveStep
<1>6. CASE AddEvent(r) \/ Commit(r)
  BY <1>6, AddEventStep, CommitStep
<1>7. CASE LockAccount(r) \/ Cascade(r)
  BY <1>7, LockAccountStep, CascadeStep
<1>8. CASE Logout(r)
  BY <1>8, LogoutStep
<1>9. CASE Victim(r)
  BY <1>9, AbortStep DEF Victim
<1>10. CASE ListBookmarks(r)
  BY <1>10, ListStep DEF ListBookmarks, Listing
<1>11. CASE ListProgress(r)
  BY <1>11, ListStep DEF ListProgress, Listing
<1>12. CASE ListVocabularyEntries(r)
  BY <1>12, ListStep DEF ListVocabularyEntries, Listing
<1>13. CASE ListGrammarAttempts(r)
  BY <1>13, ListStep DEF ListGrammarAttempts, Listing
<1> QED
  BY <1>1, <1>2, <1>3, <1>4, <1>5, <1>6, <1>7, <1>8, <1>9, <1>10, <1>11, <1>12, <1>13 DEF Handler

\* What the earlier login has migrated is a sound row of user 1.
LEMMA InitFacts ==
    ASSUME Init
    PROVE  AccountInv
<1>0. PICK b \in Batch :
           /\ Migrated(b)
           /\ rows = [k \in Key |->
                  IF \E i \in DOMAIN b : b[i].key = k
                  THEN LET c == b[CHOOSE i \in DOMAIN b : b[i].key = k]
                       IN  [owner |-> 1, id |-> c.id, at |-> c.at,
                            value |-> IF k \in Vocabulary /\ c.at = 0 THEN None ELSE Earlier]
                  ELSE Absent]
           /\ events = {[sequence |-> i, owner |-> 1, operation |-> "upsert", by |-> Earlier,
                         entity |-> IF b[i].key \in Vocabulary THEN <<"entry", b[i].id>>
                                    ELSE b[i].key] : i \in DOMAIN b}
           /\ sequence = Len(b)
  BY DEF Init
<1>1. /\ b \in Seq(Changes) /\ DOMAIN b = 1 .. Len(b) /\ Len(b) \in Nat
      /\ \A i \in DOMAIN b : b[i] \in Changes /\ b[i].do = "put"
  <2>1. /\ b \in Seq(Changes) /\ \A i \in 1 .. Len(b) : b[i].do = "put"
    BY BatchFacts
  <2>2. DOMAIN b = 1 .. Len(b) /\ Len(b) \in Nat /\ \A i \in 1 .. Len(b) : b[i] \in Changes
    BY <2>1
  <2> QED
    BY <2>1, <2>2
<1>2. \A i \in DOMAIN b :
          /\ b[i].key \in Key /\ b[i].id \in Id \cup {None} /\ b[i].at \in Clock \cup {0}
          /\ b[i].key \in Vocabulary => b[i].id \in Id
  BY <1>1, ChangeFacts
<1>3. ASSUME NEW k \in Key
      PROVE  rows[k] = Absent \/ Sound(k, rows[k], 1)
  <2>1. CASE \E i \in DOMAIN b : b[i].key = k
    <3>1. PICK i \in DOMAIN b : i = CHOOSE j \in DOMAIN b : b[j].key = k
      BY <2>1
    <3>2. b[i].key = k
      BY <2>1, <3>1
    <3> DEFINE v == IF k \in Vocabulary /\ b[i].at = 0 THEN None ELSE Earlier
               row == [owner |-> 1, id |-> b[i].id, at |-> b[i].at, value |-> v]
    <3>3. rows[k] = row
      BY <1>0, <2>1, <3>1
    <3>4. v \in Writer
      BY DEF Writer, Token
    <3> HIDE DEF v
    <3>5. row \in Row
      BY <1>2, <3>4 DEF Row
    <3> QED
      BY <1>2, <3>2, <3>3, <3>5 DEF Sound
  <2>2. CASE ~ \E i \in DOMAIN b : b[i].key = k
    BY <1>0, <2>2
  <2> QED
    BY <2>1, <2>2
<1>4. rows \in [Key -> Row]
  <2>1. \A k \in Key : rows[k] \in Row
    BY <1>3, RowFacts DEF Sound
  <2>2. rows = [k \in Key |-> rows[k]]
    BY <1>0
  <2> QED
    BY <2>1, <2>2
<1>5. events \subseteq Event /\ \A e \in events : e.owner = 1
  <2>1. ASSUME NEW i \in DOMAIN b
        PROVE  [sequence |-> i, owner |-> 1, operation |-> "upsert", by |-> Earlier,
                entity |-> IF b[i].key \in Vocabulary THEN <<"entry", b[i].id>>
                           ELSE b[i].key] \in Event
    <3>1. (IF b[i].key \in Vocabulary THEN <<"entry", b[i].id>> ELSE b[i].key)
              \in Key \cup ({"entry"} \X Id)
      BY <1>2
    <3>2. i \in Nat
      BY <1>1
    <3> QED
      BY <3>1, <3>2 DEF Event, Token
  <2> QED
    BY <1>0, <2>1
<1>6. /\ account = 1 /\ born = 1 /\ sequence \in Nat
      /\ sessions \in [Token -> Nat] /\ \A t \in Token : sessions[t] \in {0, 1}
      /\ used \in [Credential -> Nat] /\ \A d \in Credential : used[d] = 0
  BY <1>0, <1>1 DEF Init
<1>7. /\ pc \in [Request -> Place] /\ \A r \in Request : pc[r] = "idle"
      /\ owner \in [Request -> Nat] /\ \A r \in Request : owner[r] = 0
      /\ todo \in [Request -> Seq(Changes)]
      /\ drafts \in [Request -> SUBSET Event] /\ \A r \in Request : drafts[r] = {}
      /\ hold \in [Request -> Holds] /\ \A r \in Request : hold[r] = "none"
      /\ answer \in [Request -> Nat] /\ \A r \in Request : answer[r] = 0
  BY DEF Init, Place, Holds
<1>8. PICK clean : clean = [k \in Key |-> Untouched]
  OBVIOUS
<1>9. /\ clean \in [Key -> Row \cup {Untouched}]
      /\ dirty = [r \in Request |-> clean]
      /\ seen = [r \in Request |-> [from |-> rows, read |-> clean]]
  BY <1>8 DEF Init
<1>10. /\ dirty \in [Request -> [Key -> Row \cup {Untouched}]]
       /\ \A r \in Request : \A k \in Key : dirty[r][k] = Untouched
       /\ seen \in [Request -> [from : [Key -> Row], read : [Key -> Row \cup {Untouched}]]]
  BY <1>4, <1>8, <1>9
<1>11. /\ Nothing \in Input /\ Nothing.kind = "none" /\ Nothing.batch = <<>>
       /\ input \in [Request -> Input] /\ \A r \in Request : input[r] = Nothing
  <2>1. Nothing \in Input /\ Nothing.kind = "none" /\ Nothing.batch = <<>>
    BY DEF Nothing, Ask, Input
  <2> QED
    BY <2>1 DEF Init
<1>12. VarTypes
  BY <1>4, <1>5, <1>6, <1>7, <1>10, <1>11 DEF VarTypes, HandlerTypes
<1>13. CommittedInv
  BY <1>3, <1>5, <1>6 DEF CommittedInv
<1>14. ASSUME NEW r \in Request PROVE RequestInv(r)
  <2>1. StageInv(r) /\ OwnerInv(r)
    BY <1>6, <1>7, <1>10, <1>11 DEF StageInv, OwnerInv, Touched, Working, Listing
  <2>2. TodoInv(r) /\ DraftInv(r)
    BY <1>7, <1>10, <1>11 DEF TodoInv, DraftInv, Working
  <2> QED
    BY <2>1, <2>2 DEF RequestInv
<1>15. \A q, r \in Request : q # r => LockInv(q, r)
  BY <1>7, <1>10 DEF LockInv
<1> QED
  BY <1>12, <1>13, <1>14, <1>15, AccountParts

\* Whatever the devices ask for, in whatever order the statements of their
\* transactions meet: every request holds the locks of the place it has reached, the
\* rows it has written belong to the user it acts for, and no other request has
\* written them.
THEOREM AccountInductive == Spec => []AccountInv
<1>1. Init => AccountInv
  BY InitFacts
<1>2. AccountInv /\ [Next]_vars => AccountInv'
  <2> SUFFICES ASSUME AccountInv, [Next]_vars PROVE AccountInv'
    OBVIOUS
  <2>1. CASE \E r \in Request : Begin(r) \/ Refuse(r) \/ Handler(r) \/ Fail(r)
    BY <2>1, RequestStep
  <2>2. CASE \E t \in Token : Expire(t)
    BY <2>2, IdleStep DEF Expire
  <2>3. CASE UNCHANGED vars
    BY <2>3, IdleStep DEF vars, handler
  <2> QED
    BY <2>1, <2>2, <2>3 DEF Next
<1> QED
  BY <1>1, <1>2, PTL DEF Spec

\* Every variable has its type; a transaction that ended locks nothing.
THEOREM AccountTypes == Spec => []TypeOK
<1>1. AccountInv => TypeOK
  BY DEF AccountInv
<1> QED
  BY <1>1, AccountInductive, PTL

\* Nothing of a closed account stays behind (DeleteUser and its cascades, while the
\* account's other requests are under way).
THEOREM ClosedAccountsAreGone == Spec => []NothingOutlivesTheAccount
<1>1. AccountInv => NothingOutlivesTheAccount
  BY DEF AccountInv, CommittedInv, NothingOutlivesTheAccount, Sound
<1> QED
  BY <1>1, AccountInductive, PTL

-----------------------------------------------------------------------------
Step(r) == Begin(r) \/ Refuse(r) \/ Handler(r) \/ Fail(r)

\* What a step of a request changes of the committed state.
LEMMA StepEffects ==
    ASSUME AccountInv, NEW r \in Request, Step(r)
    PROVE  /\ Commit(r) \/ Cascade(r) \/ UNCHANGED <<account, rows, events>>
           /\ sequence <= sequence'
           /\ pc[r] # "done"
<1>0. sequence \in Nat /\ sequence <= sequence /\ sequence <= sequence + 1
  BY AccountParts DEF VarTypes
<1> DEFINE Quiet == UNCHANGED <<account, rows, events, sequence>>
<1>1. CASE Begin(r)
  BY <1>0, <1>1 DEF Begin, committed
<1>2. CASE Refuse(r)
  BY <1>0, <1>2 DEF Refuse, Abort, committed
<1>3. CASE Fail(r)
  BY <1>0, <1>3 DEF Fail, Abort, committed
<1>4. CASE SignIn(r)
  <2>1. Quiet /\ pc[r] = "user"
    BY <1>4 DEF SignIn, Abort, committed
  <2> QED
    BY <1>0, <2>1
<1>5. CASE PutChange(r) \/ ReviewChange(r) \/ RemoveChange(r)
  <2>1. Quiet /\ pc[r] = "write"
    BY <1>5 DEF PutChange, ReviewChange, RemoveChange, Write, Abort, committed
  <2> QED
    BY <1>0, <2>1
<1>6. CASE AddEvent(r)
  <2>1. UNCHANGED <<account, rows, events>> /\ sequence' \in {sequence, sequence + 1}
        /\ pc[r] = "event"
    BY <1>6 DEF AddEvent, Abort, committed
  <2> QED
    BY <1>0, <2>1
<1>7. CASE Commit(r)
  BY <1>0, <1>7 DEF Commit
<1>8. CASE Cascade(r)
  BY <1>0, <1>8 DEF Cascade
<1>9. CASE LockAccount(r) \/ Logout(r)
  BY <1>0, <1>9 DEF LockAccount, Logout, Abort, committed
<1>10. CASE Victim(r)
  BY <1>0, <1>10 DEF Victim, Deadlocked, Abort, committed
<1>11. CASE ListBookmarks(r) \/ ListProgress(r) \/ ListVocabularyEntries(r)
            \/ ListGrammarAttempts(r)
  BY <1>0, <1>11
  DEF ListBookmarks, ListProgress, ListVocabularyEntries, ListGrammarAttempts, ListThen, committed
<1> QED
  BY <1>1, <1>2, <1>3, <1>4, <1>5, <1>6, <1>7, <1>8, <1>9, <1>10, <1>11 DEF Step, Handler

\* A person who comes back after closing the account is another user, for whom no
\* other request acts.
LEMMA AccountChange ==
    ASSUME AccountInv, NEW r \in Request, Step(r), NEW q \in Request \ {r},
           owner[q] # 0, owner[q] = account'
    PROVE  account' = account
<1>1. CASE Commit(r)
  <2>1. CASE input[r].kind = "login"
    BY <1>1, <2>1, CommitOwner DEF Commit
  <2>2. CASE input[r].kind # "login"
    BY <1>1, <2>2 DEF Commit
  <2> QED
    BY <2>1, <2>2
<1>2. CASE Cascade(r)
  BY <1>2 DEF Cascade
<1> QED
  BY <1>1, <1>2, StepEffects

\* As long as the account is the same one, progress is only replaced by progress that
\* is not older (UpsertProgress: client_updated_at <= EXCLUDED.client_updated_at).
LEMMA ProgressGrows ==
    ASSUME AccountInv, NEW r \in Request, Step(r), account' = account, NEW k \in Progress
    PROVE  /\ rows[k].at \in Nat /\ rows'[k].at \in Nat /\ rows'[k].at >= rows[k].at
<1>0. /\ k \in Key /\ k \notin Erasable /\ rows[k] \in Row /\ rows'[k] \in Row
  BY RequestStep, AccountParts, KeyFacts DEF Step, AccountInv, TypeOK, Erasable
<1>1. rows[k].at \in Nat /\ rows'[k].at \in Nat
  BY <1>0, RowFacts
<1>2. CASE Commit(r)
  <2>1. rows'[k] = IF dirty[r][k] # Untouched THEN dirty[r][k] ELSE rows[k]
    BY <1>0, <1>2 DEF Commit
  <2>2. dirty[r][k] = Untouched \/ dirty[r][k].at >= rows[k].at
    BY <1>0, AccountParts DEF RequestInv, DraftInv
  <2> QED
    BY <1>1, <2>1, <2>2
<1>3. ~ Cascade(r)
  BY CascadeFacts DEF Cascade
<1> QED
  BY <1>1, <1>2, <1>3, StepEffects

\* Which steps answer 200.
LEMMA OwnAnswer ==
    ASSUME AccountInv, NEW r \in Request, Step(r), answer'[r] = 200
    PROVE  /\ Commit(r) \/ input'[r].kind \in {"close", "logout", "snapshot"}
           /\ pc'[r] = "done" /\ input' = input /\ owner' = owner
<1>0. /\ VarTypes /\ RequestInv(r) /\ answer[r] = 0 /\ answer \in [Request -> Nat]
      /\ Failure(r) # 200 /\ Failure(r) \in Nat
  <2>1. Failure(r) # 200 /\ Failure(r) \in Nat
    BY FailureFacts
  <2>2. pc[r] # "done" /\ VarTypes /\ RequestInv(r)
    BY StepEffects, AccountParts
  <2> QED
    BY <2>1, <2>2 DEF RequestInv, StageInv, VarTypes, HandlerTypes
<1>1. ASSUME NEW status \in Nat, Finish(r, status)
      PROVE  status = 200 /\ pc'[r] = "done" /\ input' = input /\ owner' = owner
  BY <1>0, <1>1, FinishFacts
<1>2. ~ UNCHANGED answer
  BY <1>0
<1>3. CASE Begin(r) \/ Refuse(r) \/ Fail(r)
  BY <1>0, <1>1, <1>2, <1>3 DEF Begin, Refuse, Fail, Abort
<1>4. CASE SignIn(r)
  BY <1>0, <1>1, <1>2, <1>4 DEF SignIn, Abort
<1>5. CASE PutChange(r) \/ ReviewChange(r) \/ RemoveChange(r)
  BY <1>0, <1>1, <1>2, <1>5 DEF PutChange, ReviewChange, RemoveChange, Write, Abort
<1>6. CASE AddEvent(r)
  BY <1>0, <1>1, <1>2, <1>6 DEF AddEvent, Abort
<1>7. CASE Commit(r)
  BY <1>0, <1>1, <1>7 DEF Commit
<1>8. CASE LockAccount(r) \/ Cascade(r)
  <2>1. input[r].kind = "close"
    BY <1>0, <1>8 DEF RequestInv, StageInv, LockAccount, Cascade
  <2>2. \E status \in Nat : Finish(r, status)
    BY <1>2, <1>8 DEF LockAccount, Cascade, Abort
  <2> QED
    BY <1>1, <2>1, <2>2
<1>9. CASE Logout(r)
  <2>1. input[r].kind = "logout"
    BY <1>0, <1>9 DEF RequestInv, StageInv, Logout
  <2>2. \E status \in Nat : Finish(r, status)
    BY <1>9 DEF Logout
  <2> QED
    BY <1>1, <2>1, <2>2
<1>10. CASE Victim(r)
  BY <1>0, <1>1, <1>10 DEF Victim, Abort
<1>11. CASE ListBookmarks(r) \/ ListProgress(r) \/ ListVocabularyEntries(r)
            \/ ListGrammarAttempts(r)
  <2>1. input[r].kind = "snapshot"
    BY <1>0, <1>11 DEF RequestInv, StageInv, Listing, ListBookmarks, ListProgress,
                       ListVocabularyEntries, ListGrammarAttempts, ListThen
  <2>2. Finish(r, 200)
    BY <1>2, <1>11 DEF ListBookmarks, ListProgress, ListVocabularyEntries,
                       ListGrammarAttempts, ListThen
  <2> QED
    BY <1>1, <2>1, <2>2
<1> QED
  BY <1>3, <1>4, <1>5, <1>6, <1>7, <1>8, <1>9, <1>10, <1>11 DEF Step, Handler

-----------------------------------------------------------------------------
\* Progress that was acknowledged is there, or newer progress, as long as the account
\* is the one it was saved for.
AckInv(r) ==
    answer[r] = 200 /\ input[r].batch # <<>> =>
        /\ owner[r] # 0
        /\ owner[r] = account =>
               \A i \in DOMAIN input[r].batch :
                   input[r].batch[i].key \in Progress =>
                       rows[input[r].batch[i].key].at >= input[r].batch[i].at

\* A request that commits has written all of its progress.
LEMMA CommittedProgress ==
    ASSUME AccountInv, NEW r \in Request, Commit(r),
           NEW i \in DOMAIN input[r].batch, input[r].batch[i].key \in Progress
    PROVE  rows'[input[r].batch[i].key].at >= input[r].batch[i].at
<1> DEFINE b == input[r].batch
           d == b[i]
<1>0. pc[r] = "commit" /\ VarTypes /\ RequestInv(r)
  BY AccountParts DEF Commit
<1>1. /\ b \in Seq(Changes) /\ DOMAIN b = 1 .. Len(b) /\ Len(b) \in Nat
      /\ input[r].kind \in {"login", "change"}
  BY <1>0 DEF VarTypes, HandlerTypes, Input, RequestInv, StageInv, Working
<1>2. todo[r] = <<>>
  <2>1. SUFFICES ASSUME todo[r] # <<>> PROVE FALSE
    OBVIOUS
  <2>2. Len(b) = 1 /\ b[1].key \in Retell
    BY <1>0, <2>1 DEF RequestInv, TodoInv
  <2>3. i = 1
    BY <1>1, <2>2
  <2> QED
    BY <2>2, <2>3, KeyFacts
<1>3. Written(r) = Len(b)
  BY <1>0, <1>1, <1>2 DEF Written
<1>4. Sound(d.key, dirty[r][d.key], owner[r]) /\ dirty[r][d.key].at >= d.at
  BY <1>0, <1>1, <1>3 DEF RequestInv, DraftInv, Working
<1>5. d.key \in Key /\ dirty[r][d.key] # Untouched
  BY <1>4, KeyFacts, RowFacts
<1>6. rows'[d.key] = dirty[r][d.key]
  BY <1>5 DEF Commit
<1> QED
  BY <1>4, <1>6

\* A step keeps what devices were told is saved.
LEMMA AckStep ==
    ASSUME AccountInv, \A q \in Request : AckInv(q), NEW r \in Request, Step(r)
    PROVE  \A q \in Request : AckInv(q)'
<1>0. AccountInv' /\ Others(r)
  BY RequestStep DEF Step
<1>1. ASSUME NEW q \in Request \ {r} PROVE AckInv(q)'
  <2>1. SUFFICES ASSUME answer[q] = 200, input[q].batch # <<>>
                 PROVE  AckInv(q)'
    BY <1>0 DEF AckInv, Others
  <2>2. owner[q] # 0
    BY <2>1 DEF AckInv
  <2>3. SUFFICES ASSUME owner[q] = account',
                        NEW i \in DOMAIN input[q].batch, input[q].batch[i].key \in Progress
                 PROVE  rows'[input[q].batch[i].key].at >= input[q].batch[i].at
    BY <1>0, <2>2 DEF AckInv, Others
  <2>4. account' = account
    BY <2>2, <2>3, AccountChange
  <2>5. rows[input[q].batch[i].key].at >= input[q].batch[i].at
    BY <2>1, <2>3, <2>4 DEF AckInv
  <2>6. input[q].batch[i] \in Changes
    BY AccountParts DEF VarTypes, HandlerTypes, Input
  <2>7. input[q].batch[i].at \in Nat
    BY <2>6, ChangeFacts
  <2> QED
    BY <2>3, <2>4, <2>5, <2>7, ProgressGrows
<1>2. AckInv(r)'
  <2>1. SUFFICES ASSUME answer'[r] = 200, input'[r].batch # <<>> PROVE AckInv(r)'
    BY DEF AckInv
  <2>2. /\ Commit(r) \/ input'[r].kind \in {"close", "logout", "snapshot"}
        /\ input' = input /\ owner' = owner
    BY <2>1, OwnAnswer
  <2>3. RequestInv(r)
    BY AccountParts
  <2>4. Commit(r)
    BY <2>1, <2>2, <2>3 DEF RequestInv, TodoInv
  <2>5. owner[r] # 0
    BY <2>4, CommitOwner
  <2>6. ASSUME NEW i \in DOMAIN input[r].batch, input[r].batch[i].key \in Progress
        PROVE  rows'[input[r].batch[i].key].at >= input[r].batch[i].at
    BY <2>4, <2>6, CommittedProgress
  <2> QED
    BY <2>2, <2>5, <2>6 DEF AckInv
<1> QED
  BY <1>1, <1>2

\* Progress that a device was told is saved is never replaced by older progress, by
\* whatever other devices, logins and a login's migrated progress write at the time.
THEOREM ProgressHolds == Spec => []AcknowledgedProgressHolds
<1> DEFINE Acks == \A q \in Request : AckInv(q)
<1>1. Init => Acks
  BY DEF Init, AckInv
<1>2. AccountInv /\ Acks /\ [Next]_vars => Acks'
  <2> SUFFICES ASSUME AccountInv, Acks, [Next]_vars PROVE Acks'
    OBVIOUS
  <2>1. CASE \E r \in Request : Step(r)
    BY <2>1, AckStep
  <2>2. CASE (\E t \in Token : Expire(t)) \/ UNCHANGED vars
    <3>1. UNCHANGED <<account, rows, input, owner, answer>>
      BY <2>2 DEF Expire, vars, handler
    <3> QED
      BY <3>1 DEF AckInv
  <2> QED
    BY <2>1, <2>2 DEF Next, Step
<1>3. AccountInv /\ Acks => AcknowledgedProgressHolds
  <2> SUFFICES ASSUME AccountInv, Acks, NEW r \in Request,
                      answer[r] = 200, owner[r] = account,
                      NEW i \in DOMAIN input[r].batch, input[r].batch[i].key \in Progress
               PROVE  rows[input[r].batch[i].key].at >= input[r].batch[i].at
    BY DEF AcknowledgedProgressHolds
  <2>1. input[r].batch # <<>>
    OBVIOUS
  <2> QED
    BY <2>1 DEF AckInv
<1> HIDE DEF Acks
<1> QED
  BY <1>1, <1>2, <1>3, AccountInductive, PTL DEF Spec

-----------------------------------------------------------------------------
\* A step of another request leaves a migration as it is, unless it closes the account.
LEMMA OtherMigration ==
    ASSUME AccountInv, NEW r \in Request, Step(r), NEW q \in Request \ {r},
           MigrationInv(q), MigrationInv(r)
    PROVE  MigrationInv(q)'
<1>0. /\ Others(r) /\ sequence <= sequence' /\ sequence \in Nat /\ sequence' \in Nat
      /\ \A e \in Event : e.sequence \in Nat
      /\ drafts[q] \subseteq Event
  BY RequestStep, StepEffects, AccountParts DEF Step, AccountInv, TypeOK, Event
<1>1. /\ input'[q] = input[q] /\ pc'[q] = pc[q] /\ todo'[q] = todo[q]
      /\ owner'[q] = owner[q] /\ drafts'[q] = drafts[q] /\ answer'[q] = answer[q]
  BY <1>0 DEF Others
<1>2. \A e \in drafts[q] : e.by = q /\ e.sequence <= sequence'
  BY <1>0 DEF MigrationInv, DraftedInv, WholeInv
<1>3. CASE Cascade(r)
  <2>1. MigratedBy(q)' = {} /\ account' = 0
    BY <1>3 DEF Cascade, MigratedBy
  <2> QED
    BY <1>1, <1>2, <2>1 DEF MigrationInv, DraftedInv, WholeInv
<1>4. CASE ~ Cascade(r)
  <2>1. MigratedBy(q)' = MigratedBy(q)
    <3>1. CASE Commit(r)
      <4>1. events' = events \cup drafts[r]
        BY <3>1 DEF Commit
      <4>2. \A e \in drafts[r] : e.by = r
        BY DEF MigrationInv, DraftedInv, WholeInv
      <4> QED
        BY <4>1, <4>2 DEF MigratedBy
    <3>2. CASE ~ Commit(r)
      BY <1>4, <3>2, StepEffects DEF MigratedBy
    <3> QED
      BY <3>1, <3>2
  <2>2. owner[q] # 0 /\ owner[q] = account' => account' = account
    BY AccountChange
  <2> QED
    BY <1>1, <1>2, <2>1, <2>2 DEF MigrationInv, DraftedInv, WholeInv
<1> QED
  BY <1>3, <1>4

\* What a step of a request does to its own migration.
LEMMA OwnMigration ==
    ASSUME AccountInv, NEW r \in Request, Step(r), MigrationInv(r)
    PROVE  MigrationInv(r)'
<1>0. /\ VarTypes /\ RequestInv(r) /\ pc[r] # "done" /\ answer[r] = 0
      /\ MigratedBy(r) = {} /\ sequence \in Nat
      /\ Cardinality({}) = 0 /\ IsFiniteSet({})
  BY StepEffects, AccountParts, FS_EmptySet
  DEF RequestInv, StageInv, MigrationInv, WholeInv, VarTypes
<1>1. ASSUME NEW status \in Nat, Finish(r, status), ~ Commit(r)
      PROVE  MigrationInv(r)'
  <2>1. pc'[r] = "done" /\ drafts'[r] = {}
    BY <1>0, <1>1, FinishFacts
  <2>2. MigratedBy(r)' = {}
    <3>1. events' = events \/ events' = {}
      BY <1>1, StepEffects DEF Cascade
    <3> QED
      BY <1>0, <3>1 DEF MigratedBy
  <2>3. answer'[r] = 200 => input'[r].kind # "login"
    BY <1>1, OwnAnswer
  <2> QED
    BY <1>0, <2>1, <2>2, <2>3 DEF MigrationInv, DraftedInv, WholeInv, Working
<1>2. ASSUME UNCHANGED <<events, sequence, drafts, answer>>, pc'[r] # "done",
             pc'[r] \in Working /\ input'[r].kind = "login" =>
                 Cardinality(drafts[r]) = Len(input'[r].batch) - Len(todo'[r])
      PROVE  MigrationInv(r)'
  <2>1. MigratedBy(r)' = {} /\ answer'[r] = 0 /\ drafts'[r] = drafts[r] /\ sequence' = sequence
    BY <1>0, <1>2 DEF MigratedBy
  <2>2. /\ IsFiniteSet(drafts'[r])
        /\ \A e \in drafts'[r] : e.by = r /\ e.sequence <= sequence'
    BY <2>1 DEF MigrationInv, DraftedInv, WholeInv
  <2>3. pc'[r] \in Working /\ input'[r].kind = "login" =>
            Cardinality(drafts'[r]) = Len(input'[r].batch) - Len(todo'[r])
    BY <1>2, <2>1
  <2>4. DraftedInv(r)'
    BY <2>2, <2>3 DEF DraftedInv
  <2>5. WholeInv(r)'
    BY <2>1 DEF WholeInv
  <2> QED
    BY <2>4, <2>5 DEF MigrationInv
<1>3. CASE Commit(r)
  <2>1. PICK status \in Nat : Finish(r, status)
    BY <1>3, FailureFacts DEF Commit
  <2>2. pc'[r] = "done" /\ drafts'[r] = {} /\ input' = input /\ owner' = owner
    BY <1>0, <2>1, FinishFacts
  <2>3. MigratedBy(r)' = drafts[r]
    <3>1. events' = events \cup drafts[r]
      BY <1>3 DEF Commit
    <3> QED
      BY <1>0, <3>1 DEF MigratedBy, MigrationInv, DraftedInv
  <2>4. input[r].kind = "login" => Cardinality(drafts[r]) = Len(input[r].batch)
    <3>1. pc[r] = "commit" /\ (input[r].kind = "login" => todo[r] = <<>>)
      BY <1>0, <1>3 DEF Commit, RequestInv, TodoInv
    <3>2. PICK n \in Nat : n = Len(input[r].batch)
      BY <1>0 DEF VarTypes, HandlerTypes, Input
    <3>3. input[r].kind = "login" => Cardinality(drafts[r]) = n - 0
      BY <3>1, <3>2 DEF MigrationInv, DraftedInv, WholeInv, Working
    <3> QED
      BY <3>2, <3>3
  <2>5. owner[r] # 0
    BY <1>3, CommitOwner
  <2> QED
    BY <1>0, <2>2, <2>3, <2>4, <2>5 DEF MigrationInv, DraftedInv, WholeInv, Working
<1>4. CASE Begin(r)
  <2>1. /\ UNCHANGED <<events, sequence, drafts, answer>> /\ pc'[r] # "done"
        /\ pc'[r] \in Working => input'[r].kind # "login"
    BY <1>0, <1>4
    DEF Begin, committed, VarTypes, HandlerTypes, Ask, Working
  <2> QED
    BY <1>2, <2>1
<1>5. CASE ~ Commit(r) /\ (Refuse(r) \/ Fail(r) \/ Victim(r))
  BY <1>1, <1>5, FailureFacts DEF Refuse, Fail, Victim, Abort
<1>6. CASE SignIn(r)
  <2>1. ~ Commit(r) /\ drafts[r] = {} /\ todo[r] = input[r].batch
        /\ Len(input[r].batch) \in Nat
    BY <1>0, <1>6
    DEF SignIn, Commit, RequestInv, StageInv, TodoInv, Working, VarTypes, HandlerTypes, Input
  <2>2. CASE Abort(r, Failure(r))
    BY <1>1, <2>1, <2>2, FailureFacts DEF Abort
  <2>3. CASE ~ Abort(r, Failure(r))
    <3>1. /\ UNCHANGED <<events, sequence, drafts, answer, input, todo>>
          /\ pc'[r] # "done"
      BY <1>0, <1>6, <2>3 DEF SignIn, AfterEvent, VarTypes, HandlerTypes
    <3>2. Cardinality(drafts[r]) = Len(input'[r].batch) - Len(todo'[r])
      <4>1. PICK n \in Nat : n = Len(input[r].batch)
        BY <2>1
      <4>2. Len(input'[r].batch) = n /\ Len(todo'[r]) = n /\ Cardinality(drafts[r]) = n - n
        BY <1>0, <2>1, <3>1, <4>1
      <4> QED
        BY <4>2
    <3> QED
      BY <1>2, <3>1, <3>2
  <2> QED
    BY <2>2, <2>3
<1>7. CASE PutChange(r) \/ ReviewChange(r) \/ RemoveChange(r)
  <2>1. pc[r] = "write" /\ ~ Commit(r)
    BY <1>7 DEF PutChange, ReviewChange, RemoveChange, Commit
  <2>2. CASE \E status \in Nat : Finish(r, status)
    BY <1>1, <2>1, <2>2
  <2>3. CASE ~ \E status \in Nat : Finish(r, status)
    <3>1. /\ UNCHANGED <<events, sequence, drafts, answer, input, todo>>
          /\ pc'[r] # "done"
      BY <1>0, <1>7, <2>3, FailureFacts
      DEF PutChange, ReviewChange, RemoveChange, Write, Abort, committed, VarTypes, HandlerTypes
    <3> QED
      BY <1>2, <2>1, <3>1 DEF MigrationInv, DraftedInv, WholeInv, Working
  <2> QED
    BY <2>2, <2>3
<1>8. CASE AddEvent(r)
  <2>1. pc[r] = "event" /\ ~ Commit(r)
    BY <1>8 DEF AddEvent, Commit
  <2>2. CASE Abort(r, Failure(r))
    BY <1>1, <2>1, <2>2, FailureFacts DEF Abort
  <2>3. CASE ~ Abort(r, Failure(r))
    <3> DEFINE e == [sequence |-> sequence + 1, owner |-> owner[r],
                     entity |-> Entity(r, Head(todo[r])),
                     operation |-> IF Head(todo[r]).do = "remove" THEN "delete" ELSE "upsert",
                     by |-> r]
    <3>1. /\ UNCHANGED <<events, answer, input>> /\ sequence' = sequence + 1
          /\ drafts' = [drafts EXCEPT ![r] = drafts[r] \cup {e}]
          /\ todo' = [todo EXCEPT ![r] = Tail(todo[r])]
          /\ pc' = [pc EXCEPT ![r] = AfterEvent(Tail(todo[r]))]
      BY <1>8, <2>3 DEF AddEvent
    <3>2. e.by = r /\ e.sequence = sequence + 1
      OBVIOUS
    <3> HIDE DEF e
    <3>3. drafts'[r] = drafts[r] \cup {e} /\ todo'[r] = Tail(todo[r]) /\ pc'[r] # "done"
      BY <1>0, <3>1 DEF VarTypes, HandlerTypes, AfterEvent
    <3>4. \A d \in drafts[r] : d.sequence \in Nat
      BY <1>0 DEF VarTypes, Event
    <3>5. e \notin drafts[r]
      BY <1>0, <3>2, <3>4 DEF MigrationInv, DraftedInv, WholeInv
    <3>6. /\ IsFiniteSet(drafts'[r])
          /\ Cardinality(drafts'[r]) = Cardinality(drafts[r]) + 1
          /\ Cardinality(drafts[r]) \in Nat
      <4>1. IsFiniteSet(drafts[r])
        BY DEF MigrationInv, DraftedInv, WholeInv
      <4>2. PICK old : old = drafts[r] /\ IsFiniteSet(old) /\ e \notin old
        BY <3>5, <4>1
      <4>3. /\ IsFiniteSet(old \cup {e}) /\ Cardinality(old \cup {e}) = Cardinality(old) + 1
            /\ Cardinality(old) \in Nat
        BY <4>2, FS_AddElement, FS_CardinalityType
      <4> QED
        BY <3>3, <4>2, <4>3
    <3>7. PICK m \in Nat \ {0}, n \in Nat :
              /\ m = Len(todo[r]) /\ n = Len(input[r].batch) /\ Len(todo'[r]) = m - 1
      <4>1. /\ todo[r] \in Seq(Changes) /\ todo[r] # <<>> /\ Len(todo[r]) \in Nat \ {0}
            /\ Len(input[r].batch) \in Nat
        BY <2>1, NextChange
      <4>2. Len(Tail(todo[r])) = Len(todo[r]) - 1
        BY <4>1, TailFacts
      <4> QED
        BY <3>3, <4>1, <4>2
    <3>8. input[r].kind = "login" => Cardinality(drafts[r]) = n - m
      BY <2>1, <3>7 DEF MigrationInv, DraftedInv, WholeInv, Working
    <3>9. input'[r].kind = "login" =>
              Cardinality(drafts'[r]) = Len(input'[r].batch) - Len(todo'[r])
      <4>1. input'[r] = input[r]
        BY <3>1
      <4>2. ASSUME input[r].kind = "login" PROVE Cardinality(drafts'[r]) = n - (m - 1)
        <5>1. PICK size \in Nat : size = Cardinality(drafts[r])
          BY <3>6
        <5>2. size = n - m /\ Cardinality(drafts'[r]) = size + 1
          BY <3>6, <3>8, <4>2, <5>1
        <5> QED
          BY <3>7, <5>1, <5>2
      <4> QED
        BY <3>7, <4>1, <4>2
    <3>10. \A d \in drafts'[r] : d.by = r /\ d.sequence <= sequence'
      BY <1>0, <3>1, <3>2, <3>3, <3>4 DEF MigrationInv, DraftedInv, WholeInv
    <3>11. MigratedBy(r)' = {} /\ answer'[r] = 0
      BY <1>0, <3>1 DEF MigratedBy
    <3>12. DraftedInv(r)'
      BY <3>6, <3>9, <3>10 DEF DraftedInv
    <3>13. WholeInv(r)'
      BY <3>11 DEF WholeInv
    <3> QED
      BY <3>12, <3>13 DEF MigrationInv
  <2> QED
    BY <2>2, <2>3
<1>9. CASE Cascade(r) \/ Logout(r)
  <2>1. ~ Commit(r) /\ \E status \in Nat : Finish(r, status)
    BY <1>9 DEF Cascade, Logout, Commit
  <2> QED
    BY <1>1, <2>1
<1>10. CASE LockAccount(r)
  <2>1. ~ Commit(r) /\ input[r].kind # "login"
    BY <1>0, <1>10 DEF LockAccount, Commit, RequestInv, StageInv
  <2>2. CASE Abort(r, 200)
    BY <1>1, <2>1, <2>2 DEF Abort
  <2>3. CASE ~ Abort(r, 200)
    <3>1. UNCHANGED <<events, sequence, drafts, answer, input>> /\ pc'[r] # "done"
      BY <1>0, <1>10, <2>3 DEF LockAccount, committed, VarTypes, HandlerTypes
    <3> QED
      BY <1>2, <2>1, <3>1
  <2> QED
    BY <2>2, <2>3
<1>11. CASE ListBookmarks(r) \/ ListProgress(r) \/ ListVocabularyEntries(r)
            \/ ListGrammarAttempts(r)
  <2>1. ~ Commit(r) /\ input[r].kind # "login"
    BY <1>0, <1>11 DEF ListBookmarks, ListProgress, ListVocabularyEntries,
        ListGrammarAttempts, ListThen, Commit, RequestInv, StageInv, Listing
  <2>2. CASE \E status \in Nat : Finish(r, status)
    BY <1>1, <2>1, <2>2
  <2>3. CASE ~ \E status \in Nat : Finish(r, status)
    <3>1. UNCHANGED <<events, sequence, drafts, answer, input>> /\ pc'[r] # "done"
      BY <1>0, <1>11, <2>3, ZenonT(60) DEF ListBookmarks, ListProgress, ListVocabularyEntries,
          ListGrammarAttempts, ListThen, committed, VarTypes, HandlerTypes
    <3> QED
      BY <1>2, <2>1, <3>1
  <2> QED
    BY <2>2, <2>3
<1> QED
  BY <1>3, <1>4, <1>5, <1>6, <1>7, <1>8, <1>9, <1>10, <1>11 DEF Step, Handler

\* The data of an anonymous device is taken over as a whole or not at all, wherever
\* its login fails and whatever the other devices do (SignInWithApple: the migration
\* is part of the transaction of the login).
THEOREM MigrationsAreWhole == Spec => []MigrationIsWhole
<1> DEFINE Migrations == \A q \in Request : MigrationInv(q)
<1>1. Init => Migrations
  <2> SUFFICES ASSUME Init, NEW r \in Request PROVE MigrationInv(r)
    OBVIOUS
  <2>1. /\ drafts[r] = {} /\ pc[r] = "idle" /\ input[r] = Nothing /\ answer[r] = 0
        /\ \A e \in events : e.by = Earlier
    BY DEF Init
  <2>2. MigratedBy(r) = {}
    BY <2>1, EarlierAssumption DEF MigratedBy
  <2>3. IsFiniteSet({})
    BY FS_EmptySet
  <2> QED
    BY <2>1, <2>2, <2>3 DEF MigrationInv, DraftedInv, WholeInv, Nothing, Ask, Working
<1>2. AccountInv /\ Migrations /\ [Next]_vars => Migrations'
  <2> SUFFICES ASSUME AccountInv, Migrations, [Next]_vars PROVE Migrations'
    OBVIOUS
  <2>1. CASE \E r \in Request : Step(r)
    <3> PICK r \in Request : Step(r)
      BY <2>1
    <3>1. ASSUME NEW q \in Request PROVE MigrationInv(q)'
      <4>1. CASE q = r
        BY <4>1, OwnMigration
      <4>2. CASE q # r
        BY <4>2, OtherMigration
      <4> QED
        BY <4>1, <4>2
    <3> QED
      BY <3>1
  <2>2. CASE (\E t \in Token : Expire(t)) \/ UNCHANGED vars
    <3>1. UNCHANGED <<account, events, sequence, pc, input, owner, todo, drafts, answer>>
      BY <2>2 DEF Expire, vars, handler
    <3>2. \A q \in Request : MigratedBy(q)' = MigratedBy(q)
      BY <3>1 DEF MigratedBy
    <3> QED
      BY <3>1, <3>2, ZenonT(60) DEF MigrationInv, DraftedInv, WholeInv
  <2> QED
    BY <2>1, <2>2 DEF Next, Step
<1>3. AccountInv /\ Migrations => MigrationIsWhole
  BY DEF MigrationIsWhole, MigrationInv, WholeInv, MigratedBy
<1> HIDE DEF Migrations
<1> QED
  BY <1>1, <1>2, <1>3, AccountInductive, PTL DEF Spec

-----------------------------------------------------------------------------
\* A step of another request makes nothing older that a snapshot began with.
LEMMA OtherRead ==
    ASSUME AccountInv, NEW r \in Request, Step(r), NEW q \in Request \ {r}, ReadInv(q)
    PROVE  ReadInv(q)'
<1>1. /\ input'[q] = input[q] /\ pc'[q] = pc[q] /\ owner'[q] = owner[q]
      /\ seen'[q] = seen[q] /\ answer'[q] = answer[q]
  BY RequestStep DEF Step, Others
<1>2. Gathered(q)' = Gathered(q)
  BY <1>1 DEF Gathered
<1>3. SUFFICES ASSUME input[q].kind = "snapshot", owner[q] = account', NEW k \in Progress
               PROVE  /\ rows'[k].at >= seen[q].from[k].at
                      /\ k \in Gathered(q) => seen[q].read[k].at >= seen[q].from[k].at
  BY <1>1, <1>2 DEF ReadInv
<1>4. account' = account
  BY <1>3, AccountChange DEF ReadInv
<1>5. /\ rows[k].at >= seen[q].from[k].at
      /\ k \in Gathered(q) => seen[q].read[k].at >= seen[q].from[k].at
  BY <1>3, <1>4 DEF ReadInv
<1>6. /\ rows[k].at \in Nat /\ rows'[k].at \in Nat /\ rows'[k].at >= rows[k].at
  BY <1>3, <1>4, ProgressGrows
<1>7. seen[q].from[k].at \in Nat
  <2>1. seen[q].from[k] \in Row
    BY AccountParts, KeyFacts DEF VarTypes, HandlerTypes
  <2> QED
    BY <2>1, RowFacts
<1> QED
  BY <1>5, <1>6, <1>7

\* A query lists the rows of the user as they are committed.
LEMMA ListRead ==
    ASSUME AccountInv, NEW r \in Request, ReadInv(r),
           NEW at \in Listing, NEW table, NEW next, ListThen(r, at, table, next),
           \A k \in Key : k \in Gathered(r)' => k \in Gathered(r) \/ k \in table
    PROVE  ReadInv(r)'
<1>0. pc[r] = at /\ VarTypes /\ CommittedInv /\ RequestInv(r)
  BY AccountParts DEF ListThen
<1>1. /\ UNCHANGED <<account, rows, input, owner>>
      /\ seen' = [seen EXCEPT ![r].read = Listed(r, table)]
  BY DEF ListThen, committed, Finish
<1>2. /\ seen \in [Request -> [from : [Key -> Row], read : [Key -> Row \cup {Untouched}]]]
      /\ input[r].kind = "snapshot" /\ owner[r] # 0 /\ rows \in [Key -> Row]
  BY <1>0 DEF VarTypes, HandlerTypes, RequestInv, StageInv
<1>3. /\ \A k \in Key : Listed(r, table)[k] = IF k \in table THEN View(r, k) ELSE seen[r].read[k]
      /\ \A k \in Key : View(r, k) = IF rows[k].owner = owner[r] THEN rows[k] ELSE Absent
  BY <1>0, ListedFacts
<1>4. /\ seen'[r].from = seen[r].from
      /\ \A k \in Key : seen'[r].read[k] = IF k \in table THEN View(r, k) ELSE seen[r].read[k]
  <2>1. seen'[r].from = seen[r].from /\ seen'[r].read = Listed(r, table)
    BY <1>1, <1>2
  <2> QED
    BY <1>3, <2>1
<1>5. ASSUME NEW k \in Key PROVE View(r, k) # Untouched
  BY <1>2, <1>3, RowFacts
<1>6. ASSUME NEW k \in Key, owner[r] = account PROVE View(r, k).at = rows[k].at
  BY <1>0, <1>2, <1>3, <1>6, RowFacts DEF CommittedInv, Sound
<1>7. ASSUME NEW k \in Key, k \in Gathered(r)' PROVE seen'[r].read[k] # Untouched
  <2>1. k \in Gathered(r) \/ k \in table
    BY <1>7
  <2> QED
    BY <1>2, <1>4, <1>5, <2>1 DEF ReadInv
<1>8. ASSUME owner[r] = account, NEW k \in Progress
      PROVE  /\ rows[k].at >= seen'[r].from[k].at
             /\ k \in Gathered(r)' => seen'[r].read[k].at >= seen'[r].from[k].at
  <2>1. k \in Key /\ (k \in Gathered(r)' => k \in Gathered(r) \/ k \in table)
    BY KeyFacts
  <2>2. /\ rows[k].at >= seen[r].from[k].at
        /\ k \in Gathered(r) => seen[r].read[k].at >= seen[r].from[k].at
    BY <1>2, <1>8 DEF ReadInv
  <2> QED
    BY <1>4, <1>6, <1>8, <2>1, <2>2
<1> QED
  BY <1>1, <1>2, <1>7, <1>8 DEF ReadInv

\* What a step of a request does to its own snapshot.
LEMMA OwnRead ==
    ASSUME AccountInv, NEW r \in Request, Step(r), ReadInv(r)
    PROVE  ReadInv(r)'
<1>0. /\ VarTypes /\ RequestInv(r) /\ pc[r] # "done"
      /\ Failure(r) # 200 /\ Failure(r) \in Nat
  BY StepEffects, AccountParts, FailureFacts
<1>1. AccountInv' /\ RequestInv(r)'
  <2>1. AccountInv'
    BY RequestStep DEF Step
  <2> QED
    BY <2>1 DEF AccountInv, RequestInv
<1>2. SUFFICES ASSUME input'[r].kind = "snapshot" PROVE ReadInv(r)'
  BY DEF ReadInv
<1>3. CASE Begin(r)
  <2>1. /\ pc'[r] = "bookmark" /\ seen' = [seen EXCEPT ![r].from = rows] /\ UNCHANGED rows
        /\ sessions \in [Token -> Nat] /\ owner'[r] # 0
    <3>1. /\ pc \in [Request -> Place] /\ input \in [Request -> Input]
          /\ owner \in [Request -> Nat] /\ sessions \in [Token -> Nat]
      BY <1>0 DEF VarTypes, HandlerTypes
    <3> QED
      BY <1>2, <1>3, <3>1 DEF Begin, committed, Ask
  <2>2. seen \in [Request -> [from : [Key -> Row], read : [Key -> Row \cup {Untouched}]]]
        /\ rows \in [Key -> Row]
    BY <1>0 DEF VarTypes, HandlerTypes
  <2>3. seen'[r].from = rows
    BY <2>1, <2>2
  <2>4. \A k \in Progress : rows[k].at \in Nat
    BY <2>2, KeyFacts, RowFacts
  <2>5. Gathered(r)' = {}
    BY <2>1 DEF Gathered
  <2> QED
    BY <2>1, <2>3, <2>4, <2>5 DEF ReadInv
<1>4. CASE ~ Begin(r)
  <2>1. input'[r] = input[r]
    BY <1>4
    DEF Step, Handler, Refuse, Fail, SignIn, PutChange, ReviewChange, RemoveChange, Write, AddEvent,
        Commit, LockAccount, Cascade, Logout, Victim, ListBookmarks, ListProgress,
        ListVocabularyEntries, ListGrammarAttempts, ListThen, Abort, Finish
  <2>2. pc[r] \in Listing
    <3>1. pc[r] \in Place /\ input[r].kind = "snapshot"
      BY <1>0, <1>2, <2>1 DEF VarTypes, HandlerTypes
    <3> QED
      BY <1>0, <3>1 DEF RequestInv, StageInv, Place, Nothing, Ask
  <2>3. \/ Fail(r) \/ ListBookmarks(r) \/ ListProgress(r) \/ ListVocabularyEntries(r)
        \/ ListGrammarAttempts(r)
    BY <1>4, <2>2
    DEF Step, Handler, Listing, Refuse, SignIn, PutChange, ReviewChange, RemoveChange, AddEvent,
        Commit, LockAccount, Cascade, Logout, Victim, Deadlocked
  <2>4. CASE Fail(r)
    <3>1. PICK status \in Nat : status # 200 /\ Abort(r, status)
      BY <1>0, <2>4 DEF Fail
    <3>2. /\ pc'[r] = "done" /\ answer'[r] = status /\ owner' = owner
          /\ UNCHANGED <<account, rows, seen>>
      BY <1>0, <3>1, FinishFacts DEF Abort, committed
    <3>3. Gathered(r)' = {}
      BY <3>1, <3>2 DEF Gathered
    <3> QED
      BY <1>2, <2>1, <3>2, <3>3 DEF ReadInv
  <2>5. ASSUME NEW next, NEW at, NEW table, ListThen(r, at, table, next)
        PROVE  /\ next # "done" => pc'[r] = next
               /\ next = "done" => pc'[r] = "done"
    BY <1>0, <2>5 DEF ListThen, Finish, VarTypes, HandlerTypes
  <2>6. CASE ListBookmarks(r)
    <3>1. ListThen(r, "bookmark", Bookmark, "progress") /\ pc'[r] = "progress"
      BY <2>5, <2>6 DEF ListBookmarks
    <3>2. Gathered(r)' = Bookmark
      BY <3>1 DEF Gathered
    <3> QED
      BY <3>1, <3>2, ListRead DEF Listing
  <2>7. CASE ListProgress(r)
    <3>1. /\ ListThen(r, "progress", Progress, "vocabulary") /\ pc'[r] = "vocabulary"
          /\ pc[r] = "progress"
      BY <2>5, <2>7 DEF ListProgress, ListThen
    <3>2. Gathered(r)' = Bookmark \cup Progress /\ Gathered(r) = Bookmark
      BY <3>1 DEF Gathered
    <3> QED
      BY <3>1, <3>2, ListRead DEF Listing
  <2>8. CASE ListVocabularyEntries(r)
    <3>1. /\ ListThen(r, "vocabulary", Vocabulary, "grammar") /\ pc'[r] = "grammar"
          /\ pc[r] = "vocabulary"
      BY <2>5, <2>8 DEF ListVocabularyEntries, ListThen
    <3>2. /\ Gathered(r)' = Bookmark \cup Progress \cup Vocabulary
          /\ Gathered(r) = Bookmark \cup Progress
      BY <3>1 DEF Gathered
    <3> QED
      BY <3>1, <3>2, ListRead DEF Listing
  <2>9. CASE ListGrammarAttempts(r)
    <3>1. /\ ListThen(r, "grammar", Grammar, "done") /\ pc'[r] = "done" /\ pc[r] = "grammar"
      BY <2>5, <2>9 DEF ListGrammarAttempts, ListThen
    <3>2. Gathered(r) = Bookmark \cup Progress \cup Vocabulary
      BY <3>1 DEF Gathered
    <3>3. \A k \in Key : k \in Gathered(r)' => k \notin Retell
      BY <3>1 DEF Gathered
    <3>4. \A k \in Key : k \in Gathered(r)' => k \in Gathered(r) \/ k \in Grammar
      BY <3>2, <3>3, KeyFacts
    <3> QED
      BY <3>1, <3>4, ListRead DEF Listing
  <2> QED
    BY <2>3, <2>4, <2>6, <2>7, <2>8, <2>9
<1> QED
  BY <1>3, <1>4

\* GET /me never passes off an incomplete account for the whole, and never answers
\* with progress older than when it was asked, unless the account was closed.
THEOREM SnapshotsAreCurrent == Spec => []SnapshotIsCurrent
<1> DEFINE Reads == \A q \in Request : ReadInv(q)
<1>1. Init => Reads
  BY DEF Init, ReadInv, Nothing, Ask
<1>2. AccountInv /\ Reads /\ [Next]_vars => Reads'
  <2> SUFFICES ASSUME AccountInv, Reads, [Next]_vars PROVE Reads'
    OBVIOUS
  <2>1. CASE \E r \in Request : Step(r)
    <3> PICK r \in Request : Step(r)
      BY <2>1
    <3>1. ASSUME NEW q \in Request PROVE ReadInv(q)'
      <4>1. CASE q = r
        BY <4>1, OwnRead
      <4>2. CASE q # r
        BY <4>2, OtherRead
      <4> QED
        BY <4>1, <4>2
    <3> QED
      BY <3>1
  <2>2. CASE (\E t \in Token : Expire(t)) \/ UNCHANGED vars
    <3>1. UNCHANGED <<account, rows, pc, input, owner, seen, answer>>
      BY <2>2 DEF Expire, vars, handler
    <3>2. \A q \in Request : Gathered(q)' = Gathered(q)
      BY <3>1 DEF Gathered
    <3> QED
      BY <3>1, <3>2 DEF ReadInv
  <2> QED
    BY <2>1, <2>2 DEF Next, Step
<1>3. AccountInv /\ Reads => SnapshotIsCurrent
  <2> SUFFICES ASSUME AccountInv, Reads, NEW r \in Request,
                      input[r].kind = "snapshot", answer[r] = 200, owner[r] = account
               PROVE  /\ \A k \in Key \ Retell : seen[r].read[k] # Untouched
                      /\ \A k \in Progress : seen[r].read[k].at >= seen[r].from[k].at
    BY DEF SnapshotIsCurrent
  <2>1. pc[r] = "done"
    BY AccountParts DEF RequestInv, StageInv
  <2>2. Gathered(r) = Key \ Retell
    BY <2>1 DEF Gathered
  <2>3. Progress \subseteq Key \ Retell
    BY KeyFacts
  <2> QED
    BY <2>2, <2>3 DEF ReadInv
<1> HIDE DEF Reads
<1> QED
  BY <1>1, <1>2, <1>3, AccountInductive, PTL DEF Spec

-----------------------------------------------------------------------------
\* The registers that the rows are.
LEMMA LatestFacts ==
    ASSUME VarTypes
    PROVE  /\ Latest \in [Key -> [at : Clock \cup {0}, value : Writer] \cup {NoValue}]
           /\ \A k \in Key :
                  /\ rows[k] = Absent => Latest[k] = NoValue
                  /\ rows[k] # Absent =>
                         Latest[k] = [at |-> rows[k].at, value |-> rows[k].value]
<1>1. \A k \in Key : rows[k] \in Row
  BY DEF VarTypes
<1>2. \A k \in Key : [at |-> rows[k].at, value |-> rows[k].value]
                         \in [at : Clock \cup {0}, value : Writer]
  BY <1>1, RowFacts
<1> QED
  BY <1>2 DEF Latest

\* A transaction leaves in each register what it held, a write that is not older, or
\* nothing where the user may delete.
LEMMA CommitTransacts ==
    ASSUME AccountInv, NEW r \in Request, Commit(r)
    PROVE  Registers!Transact
<1> DEFINE Stamps == [at : Clock \cup {0}, value : Writer]
<1>0. VarTypes /\ RequestInv(r)
  BY AccountParts
<1>1. VarTypes'
  <2>1. AccountInv'
    BY CommitStep
  <2> QED
    BY <2>1 DEF AccountInv, TypeOK, VarTypes, Holds
<1>2. /\ Latest' \in [Key -> Stamps \cup {NoValue}]
      /\ \A k \in Key :
             /\ rows'[k] = Absent => Latest'[k] = NoValue
             /\ rows'[k] # Absent =>
                    Latest'[k] = [at |-> rows'[k].at, value |-> rows'[k].value]
  <2>1. \A k \in Key : rows'[k] \in Row
    BY <1>1 DEF VarTypes
  <2>2. \A k \in Key : [at |-> rows'[k].at, value |-> rows'[k].value] \in Stamps
    BY <2>1, RowFacts
  <2> QED
    BY <2>2 DEF Latest
<1>3. ASSUME NEW k \in Key PROVE Latest'[k] \in Registers!After(k)
  <2>1. rows'[k] = IF dirty[r][k] # Untouched THEN dirty[r][k] ELSE rows[k]
    BY DEF Commit
  <2>2. CASE rows'[k] = rows[k]
    <3>1. Latest'[k] = Latest[k]
      BY <1>0, <1>2, <2>2, LatestFacts
    <3> QED
      BY <3>1 DEF Registers!After
  <2>3. CASE rows'[k] # rows[k] /\ rows'[k] = Absent
    <3>1. dirty[r][k] = Absent /\ dirty[r][k] # Untouched
      BY <2>1, <2>3
    <3>2. k \in Erasable
      BY <1>0, <3>1, RowFacts DEF RequestInv, DraftInv
    <3>3. Latest'[k] = NoValue
      BY <1>2, <2>3
    <3> QED
      BY <3>2, <3>3 DEF Registers!After, Erasable
  <2>4. CASE rows'[k] # rows[k] /\ rows'[k] # Absent
    <3> DEFINE new == [at |-> rows'[k].at, value |-> rows'[k].value]
               old == Latest[k]
    <3>1. /\ rows'[k] = dirty[r][k] /\ Sound(k, rows'[k], owner[r])
          /\ rows'[k].at >= rows[k].at
      BY <1>0, <2>1, <2>4 DEF RequestInv, DraftInv
    <3>2. /\ rows'[k].at \in Nat /\ rows[k].at \in Nat /\ rows[k] \in Row
          /\ rows'[k].at \in Clock \cup {0} /\ rows'[k].value \in Writer
      BY <1>0, <3>1, RowFacts DEF Sound, VarTypes
    <3>3. new \in Stamps /\ new.at = rows'[k].at /\ Latest'[k] = new
      BY <1>2, <2>4, <3>2
    <3>4. old # NoValue => old.at = rows[k].at
      BY <1>0, LatestFacts
    <3>5. Registers!Kept(old, new) = new
      BY <3>1, <3>2, <3>3, <3>4 DEF Registers!Kept
    <3> HIDE DEF new
    <3>6. new \in {Registers!Kept(old, s) : s \in Stamps}
      BY <3>3, <3>5
    <3> QED
      BY <3>3, <3>6 DEF Registers!After
  <2> QED
    BY <2>2, <2>3, <2>4
<1> QED
  BY <1>2, <1>3 DEF Registers!Transact

\* The transactions of all devices together leave nothing but what last-writer-wins
\* registers could hold: no update is lost and none comes back.
THEOREM RegistersAreImplemented == Spec => ImplementsRegisters
<1>1. AccountInv => Registers!Init
  BY AccountParts, LatestFacts DEF Registers!Init
<1>2. AccountInv /\ [Next]_vars => [Registers!Next]_Latest
  <2> SUFFICES ASSUME AccountInv, [Next]_vars PROVE Registers!Next \/ UNCHANGED Latest
    OBVIOUS
  <2>1. CASE \E r \in Request : Step(r)
    <3> PICK r \in Request : Step(r)
      BY <2>1
    <3>1. CASE Commit(r)
      BY <3>1, CommitTransacts DEF Registers!Next
    <3>2. CASE Cascade(r)
      <4>1. \A k \in Key : rows'[k] = Absent
        BY <3>2 DEF Cascade
      <4>2. Latest' = [k \in Key |-> NoValue]
        BY <4>1 DEF Latest
      <4> QED
        BY <4>2 DEF Registers!Next, Registers!Close
    <3>3. CASE UNCHANGED rows
      BY <3>3 DEF Latest
    <3> QED
      BY <3>1, <3>2, <3>3, StepEffects
  <2>2. CASE (\E t \in Token : Expire(t)) \/ UNCHANGED vars
    <3>1. UNCHANGED rows
      BY <2>2 DEF Expire, vars
    <3> QED
      BY <3>1 DEF Latest
  <2> QED
    BY <2>1, <2>2 DEF Next, Step
<1> QED
  BY <1>1, <1>2, AccountInductive, PTL DEF Spec, ImplementsRegisters, Registers!Spec

-----------------------------------------------------------------------------
\* Whether a table has the row that an event is about.
There(table, entity) ==
    \E k \in Key : table[k] # Absent /\ Named(k, table[k]) = entity

\* Two events are about the same row, or about the words of the same id.
LEMMA NamedFacts ==
    ASSUME NEW j \in Key, NEW k \in Key, NEW x, NEW y, Named(j, x) = Named(k, y)
    PROVE  /\ j \in Vocabulary => k \in Vocabulary /\ x.id = y.id
           /\ j \notin Vocabulary => j = k
<1>1. \A i : <<"entry", i>> \notin Key
  BY DEF Key, Progress, Vocabulary, Bookmark, Grammar, Retell
<1> QED
  BY <1>1 DEF Named

\* No event is about the key of a word.
LEMMA NamedEntity ==
    ASSUME NEW k \in Key, NEW x
    PROVE  Named(k, x) \notin Vocabulary
  BY DEF Named, Vocabulary

\* Rows of the same id have events about the same entity.
LEMMA NamedAgain ==
    ASSUME NEW k, NEW x, NEW y, k \in Vocabulary => x.id = y.id
    PROVE  Named(k, x) = Named(k, y)
  BY DEF Named

\* The entity of an event exists if the table has a row for it.
LEMMA TableFacts ==
    ASSUME NEW table \in [Key -> Row], NEW entity \in Key \cup ({"entry"} \X Id),
           entity \notin Vocabulary
    PROVE  (IF entity[1] = "entry" THEN \E k \in Vocabulary : table[k].id = entity[2]
            ELSE table[entity] # Absent) <=> There(table, entity)
<1>1. Absent.id = None /\ None \notin Id
  BY NoneAssumption DEF Absent
<1>2. CASE entity \in {"entry"} \X Id
  <2>1. PICK i \in Id : entity = <<"entry", i>>
    BY <1>2
  <2>2. There(table, entity) <=> \E k \in Vocabulary : table[k] # Absent /\ table[k].id = i
    <3>1. \A k \in Key : Named(k, table[k]) = entity <=> k \in Vocabulary /\ table[k].id = i
      <4>1. <<"entry", i>> \notin Key
        BY DEF Key, Progress, Vocabulary, Bookmark, Grammar, Retell
      <4> QED
        BY <2>1, <4>1 DEF Named
    <3> QED
      BY <3>1, KeyFacts DEF There
  <2> QED
    BY <1>1, <2>1, <2>2
<1>3. CASE entity \in Key
  <2>1. entity[1] # "entry"
    BY <1>3 DEF Key, Progress, Vocabulary, Bookmark, Grammar, Retell
  <2>2. \A k \in Key : Named(k, table[k]) = entity <=> k = entity
    <3>1. \A i : <<"entry", i>> \notin Key
      BY DEF Key, Progress, Vocabulary, Bookmark, Grammar, Retell
    <3> QED
      BY <1>3, <3>1 DEF Named
  <2> QED
    BY <1>3, <2>1, <2>2 DEF There
<1> QED
  BY <1>2, <1>3

\* The requests' part of the invariant.
RequestEvents(r) == ErasureInv(r) /\ UpsertInv(r)

\* What an event says holds for the rows a request has written.
LEMMA DrawnFacts ==
    ASSUME AccountInv, NEW r \in Request, NEW k \in Key
    PROVE  /\ dirty[r][k] \in Row \cup {Untouched}
           /\ Draws(r, k) => Sound(k, dirty[r][k], owner[r])
           /\ Draws(r, k) /\ k \in Vocabulary => dirty[r][k].id \in Id /\ dirty[r][k].id # None
           /\ dirty[r][k] = Absent => input[r].kind = "change" /\ pc[r] \in {"event", "commit"}
           /\ rows[k] \in Row
           /\ k \in Vocabulary => (rows[k] # Absent <=> rows[k].id \in Id)
           /\ rows[k] # Absent => rows[k].owner = account /\ account # 0
<1>0. VarTypes /\ CommittedInv /\ RequestInv(r)
  BY AccountParts
<1>1. dirty[r][k] \in Row \cup {Untouched} /\ rows[k] \in Row
  BY <1>0 DEF VarTypes
<1>2. /\ Draws(r, k) => Sound(k, dirty[r][k], owner[r])
      /\ dirty[r][k] = Absent => input[r].kind = "change" /\ pc[r] \in {"event", "commit"}
  BY <1>0, RowFacts DEF RequestInv, DraftInv, Draws
<1>3. rows[k] = Absent \/ Sound(k, rows[k], account)
  BY <1>0 DEF CommittedInv
<1>4. Absent.id \notin Id /\ None \notin Id
  BY NoneAssumption DEF Absent
<1> QED
  BY <1>1, <1>2, <1>3, <1>4 DEF Sound

\* What a step leaves of the events of the other requests when it commits nothing.
LEMMA OtherEvents ==
    ASSUME EventInv, NEW r \in Request, Others(r), NEW q \in Request \ {r},
           rows' = rows, events' = events, sequence \in Nat, sequence' \in Nat,
           sequence <= sequence', events \subseteq Event, drafts[q] \subseteq Event
    PROVE  RequestEvents(q)'
<1>1. /\ pc'[q] = pc[q] /\ todo'[q] = todo[q] /\ dirty'[q] = dirty[q] /\ drafts'[q] = drafts[q]
      /\ \A c : Entity(q, c)' = Entity(q, c)
      /\ \A k : Draws(q, k)' <=> Draws(q, k)
  BY DEF Others, Entity, Draws
<1>2. ErasureInv(q) /\ UpsertInv(q)
  BY DEF EventInv
<1>3. ErasureInv(q)'
  BY <1>1, <1>2 DEF ErasureInv
<1>4. UpsertInv(q)'
  <2>1. \A e \in drafts[q] : e.sequence \in Nat
    BY DEF Event
  <2> QED
    BY <1>1, <1>2, <2>1 DEF UpsertInv
<1> QED
  BY <1>3, <1>4 DEF RequestEvents

\* What has to be shown of a step that commits nothing.
LEMMA QuietEvents ==
    ASSUME AccountInv, EventInv, NEW r \in Request, Others(r),
           rows' = rows, events' = events, sequence' \in Nat, sequence <= sequence',
           IdInv', RequestEvents(r)'
    PROVE  EventInv'
<1>0. VarTypes
  BY AccountParts
<1>1. \A q \in Request : RequestEvents(q)'
  BY <1>0, OtherEvents DEF VarTypes
<1>2. UpsertsTellTheState' /\ \A e \in events' : e.sequence <= sequence'
                              /\ (e.operation = "upsert" => e.entity \notin Vocabulary)
  <2>1. UpsertsTellTheState /\ \A e \in events : e.sequence <= sequence
                              /\ (e.operation = "upsert" => e.entity \notin Vocabulary)
    BY DEF EventInv
  <2>2. sequence \in Nat /\ \A e \in events : e.sequence \in Nat
    BY <1>0 DEF VarTypes, Event
  <2>3. UpsertsTellTheState'
    BY <2>1 DEF UpsertsTellTheState, Exists
  <2> QED
    BY <2>1, <2>2, <2>3
<1> QED
  BY <1>1, <1>2 DEF EventInv, RequestEvents

\* A request that has nothing open says nothing of events.
LEMMA ClearedEvents ==
    ASSUME AccountInv, EventInv, NEW r \in Request, Others(r),
           rows' = rows, events' = events, sequence' \in Nat, sequence <= sequence',
           \A k \in Key : dirty'[r][k] = Untouched, drafts'[r] = {}, pc'[r] # "event"
    PROVE  EventInv'
<1>1. \A q \in Request, k \in Key : Draws(q, k)' => Draws(q, k) /\ dirty'[q][k] = dirty[q][k]
  BY DEF Draws, Others
<1>2. IdInv'
  <2>1. IdInv
    BY DEF EventInv
  <2> QED
    BY <1>1, <2>1, KeyFacts DEF IdInv
<1>3. RequestEvents(r)'
  BY RowFacts DEF RequestEvents, ErasureInv, UpsertInv
<1> QED
  BY <1>2, <1>3, QuietEvents

\* What has to be shown of a statement that writes a row and keeps the id of a word.
LEMMA WriteEvents ==
    ASSUME AccountInv, EventInv, NEW r \in Request, Others(r), pc[r] = "write",
           NEW k \in Key, NEW row, Write(r, k, row),
           row = Absent =>
               /\ input[r].kind = "change" /\ rows[k] # Absent /\ k \notin Retell
               /\ todo[r][1].do = "remove" /\ Entity(r, todo[r][1]) = Named(k, rows[k]),
           row # Absent =>
               /\ row \in Row /\ todo[r][1].do # "remove"
               /\ k \notin Retell => Entity(r, todo[r][1])' = Named(k, row),
           row # Absent /\ dirty[r][k] # Untouched => row.id = dirty[r][k].id,
           row # Absent /\ k \in Vocabulary =>
               /\ rows[k] # Absent => row.id = rows[k].id
               /\ \A j \in Vocabulary : rows[j].id = row.id => j = k
               /\ \A q \in Request, j \in Vocabulary :
                      Draws(q, j) /\ dirty[q][j].id = row.id => j = k
    PROVE  EventInv'
<1> DEFINE c == todo[r][1]
<1>0. /\ VarTypes /\ \A q \in Request : RequestInv(q)
  BY AccountParts
<1>1. /\ UNCHANGED <<rows, events, sequence, todo, drafts>>
      /\ dirty' = [dirty EXCEPT ![r][k] = row]
      /\ pc'[r] = IF k \in Retell THEN "commit" ELSE "event"
  BY <1>0 DEF Write, committed, VarTypes, HandlerTypes
<1>2. /\ dirty'[r][k] = row
      /\ \A j \in Key \ {k} : dirty'[r][j] = dirty[r][j]
      /\ \A q \in Request \ {r} : dirty'[q] = dirty[q]
  BY <1>0, <1>1 DEF VarTypes
<1>3. \A j \in Key : dirty[r][j] # Absent
  BY DrawnFacts
<1>4. \A q \in Request, j \in Key : q # r \/ j # k =>
          (Draws(q, j)' <=> Draws(q, j)) /\ dirty'[q][j] = dirty[q][j]
  BY <1>2 DEF Draws
<1>5. Draws(r, k)' => row # Absent /\ row \in Row
  BY <1>2 DEF Draws
<1>6. row # Absent => Draws(r, k)'
  BY <1>2, RowFacts DEF Draws
<1>7. IdInv'
  <2>0. IdInv
    BY DEF EventInv
  <2>1. ASSUME NEW q \in Request, NEW i \in Vocabulary, NEW j \in Vocabulary,
               Draws(q, i)', dirty'[q][i].id = rows[j].id
        PROVE  i = j
    <3>1. CASE q = r /\ i = k
      BY <1>2, <1>5, <2>1, <3>1
    <3>2. CASE q # r \/ i # k
      BY <1>4, <2>0, <2>1, <3>2, KeyFacts DEF IdInv
    <3> QED
      BY <3>1, <3>2
  <2>2. ASSUME NEW p \in Request, NEW q \in Request, NEW i \in Vocabulary, NEW j \in Vocabulary,
               Draws(p, i)', Draws(q, j)', dirty'[p][i].id = dirty'[q][j].id
        PROVE  i = j
    <3>1. CASE (p # r \/ i # k) /\ (q # r \/ j # k)
      BY <1>4, <2>0, <2>2, <3>1, KeyFacts DEF IdInv
    <3>2. CASE p = r /\ i = k
      <4>1. CASE j = k
        BY <3>2, <4>1
      <4>2. CASE j # k
        BY <1>2, <1>4, <1>5, <2>2, <3>2, <4>2, KeyFacts
      <4> QED
        BY <4>1, <4>2
    <3>3. CASE q = r /\ j = k
      <4>1. CASE i = k
        BY <3>3, <4>1
      <4>2. CASE i # k
        BY <1>2, <1>4, <1>5, <2>2, <3>3, <4>2, KeyFacts
      <4> QED
        BY <4>1, <4>2
    <3> QED
      BY <3>1, <3>2, <3>3
  <2>3. ASSUME NEW q \in Request, NEW j \in Vocabulary, Draws(q, j)', rows[j] # Absent
        PROVE  dirty'[q][j].id = rows[j].id
    <3>1. CASE q = r /\ j = k
      BY <1>2, <1>5, <2>3, <3>1
    <3>2. CASE q # r \/ j # k
      BY <1>4, <2>0, <2>3, <3>2, KeyFacts DEF IdInv
    <3> QED
      BY <3>1, <3>2
  <2>4. \A i, j \in Vocabulary : rows[i].id = rows[j].id /\ rows[j] # Absent => i = j
    BY <2>0 DEF IdInv
  <2> QED
    BY <1>1, <2>1, <2>2, <2>3, <2>4 DEF IdInv
<1>8. ErasureInv(r)'
  <2>1. ASSUME NEW j \in Key, dirty'[r][j] = Absent
        PROVE  /\ j = k /\ row = Absent /\ rows[k] # Absent /\ pc'[r] = "event"
               /\ (Entity(r, c) = Named(k, rows[k]))'
    <3>1. j = k /\ row = Absent
      BY <1>2, <1>3, <2>1
    <3>2. c \in Changes /\ c.do = "remove"
      BY <3>1, NextChange
    <3>3. c.key \notin Vocabulary /\ Entity(r, c)' = Entity(r, c)
      <4>1. c.key \notin Vocabulary
        BY <3>2, ChangeFacts, KeyFacts, NoneAssumption
      <4> QED
        BY <1>1, <4>1 DEF Entity
    <3> QED
      BY <1>1, <3>1, <3>3
  <2> QED
    BY <1>1, <2>1 DEF ErasureInv
<1>9. UpsertInv(r)'
  <2>0. UpsertInv(r)
    BY DEF EventInv
  <2>1. ASSUME NEW e \in drafts[r], e.operation = "upsert"
        PROVE  \E j \in Key : Draws(r, j)' /\ Named(j, dirty'[r][j]) = e.entity
    <3>1. PICK j \in Key : Draws(r, j) /\ Named(j, dirty[r][j]) = e.entity
      BY <2>0, <2>1 DEF UpsertInv
    <3>2. CASE j # k
      BY <1>4, <3>1, <3>2
    <3>3. CASE j = k
      <4>1. Touched(r) /\ dirty[r][k] # Untouched
        BY <3>1, <3>3 DEF Touched, Draws
      <4>2. row # Absent
        BY <1>0, <4>1 DEF RequestInv, TodoInv
      <4>3. Named(k, row) = Named(k, dirty[r][k])
        BY <4>1, <4>2, NamedAgain
      <4> QED
        BY <1>2, <1>6, <3>1, <3>3, <4>2, <4>3
    <3> QED
      BY <3>2, <3>3
  <2>2. \A e \in drafts[r] : e.sequence <= sequence
    BY <2>0 DEF UpsertInv
  <2>3. pc'[r] = "event" /\ c.do # "remove" =>
            \E j \in Key : Draws(r, j)' /\ (Named(j, dirty[r][j]) = Entity(r, c))'
    <3>1. SUFFICES ASSUME k \notin Retell, c.do # "remove"
                   PROVE  Draws(r, k)' /\ (Named(k, dirty[r][k]) = Entity(r, c))'
      BY <1>1
    <3>2. row # Absent
      BY <3>1
    <3> QED
      BY <1>2, <1>6, <3>1, <3>2 DEF Named
  <2> QED
    BY <1>1, <2>1, <2>2, <2>3 DEF UpsertInv, Named
<1>10. sequence' \in Nat /\ sequence <= sequence'
  BY <1>0, <1>1 DEF VarTypes
<1> QED
  BY <1>1, <1>7, <1>8, <1>9, <1>10, QuietEvents DEF RequestEvents

\* A put keeps the id of the row, and gives a new row the id of the change.
LEMMA PutRowId ==
    ASSUME NEW r \in Request, owner[r] \in Nat, NEW c \in Changes, c.do = "put",
           NEW old \in Row
    PROVE  PutRow(r, c, old).id = IF old = Absent THEN c.id ELSE old.id
<1> DEFINE ins == Inserted(r, c, old)
           id == IF old = Absent THEN c.id ELSE old.id
<1>0. c.key \in Key /\ c.id \in Id \cup {None} /\ c.at \in Clock \cup {0}
  BY ChangeFacts
<1>1. ins \in Row /\ ins.id = id
  <2>1. CASE old = Absent
    <3> DEFINE new == [owner |-> owner[r], id |-> c.id, at |-> 0, value |-> None]
    <3>1. ins = new
      BY <2>1 DEF Inserted, Absent
    <3>2. new \in Row
      BY <1>0 DEF Row, Writer
    <3> QED
      BY <2>1, <3>1, <3>2
  <2>2. CASE old # Absent
    BY <2>2 DEF Inserted
  <2> QED
    BY <2>1, <2>2
<1> HIDE DEF ins
<1>2. [ins EXCEPT !.value = r].id = id
  BY <1>1 DEF Row
<1>3. Stamped(r, c, ins).id = id
  BY <1>1 DEF Row, Stamped
<1>4. CASE c.key \in Bookmark
  BY <1>2, <1>4, KeyFacts DEF PutRow, UpsertBookmark, ins
<1>5. CASE c.key \in Progress
  BY <1>3, <1>5, KeyFacts DEF PutRow, UpsertProgress, ins
<1>6. CASE c.key \in Grammar
  BY <1>2, <1>6, KeyFacts DEF PutRow, UpsertGrammarAttempt, ins
<1>7. CASE c.key \in Retell
  BY <1>1, <1>7, KeyFacts DEF PutRow, UpsertRetellAttempt, ins
<1>8. CASE c.key \in Vocabulary
  BY <1>1, <1>3, <1>8, KeyFacts
  DEF PutRow, PutWord, UpsertVocabularyEntry, UpdateVocabularyReview, ins
<1> QED
  BY <1>0, <1>4, <1>5, <1>6, <1>7, <1>8, KeyFacts

\* A row that a request sees has an id that no other word has.
LEMMA SeenId ==
    ASSUME AccountInv, EventInv, NEW r \in Request, pc[r] = "write",
           NEW k \in Vocabulary, View(r, k) # Absent
    PROVE  /\ rows[k] # Absent => View(r, k).id = rows[k].id
           /\ \A j \in Vocabulary : rows[j].id = View(r, k).id => j = k
           /\ \A q \in Request, j \in Vocabulary :
                  Draws(q, j) /\ dirty[q][j].id = View(r, k).id => j = k
<1>0. IdInv /\ \A j \in Vocabulary : j \in Key
  BY KeyFacts DEF EventInv
<1>1. CASE dirty[r][k] # Untouched
  <2>1. View(r, k) = dirty[r][k] /\ Draws(r, k)
    BY <1>1 DEF View, Draws
  <2>2. \A j \in Vocabulary : rows[j].id = View(r, k).id => j = k
    <3> TAKE j \in Vocabulary
    <3> QED
      BY <1>0, <2>1 DEF IdInv
  <2> QED
    BY <1>0, <2>1, <2>2 DEF IdInv
<1>2. CASE dirty[r][k] = Untouched
  <2>1. View(r, k) = rows[k] /\ rows[k] # Absent
    BY <1>2 DEF View
  <2> QED
    BY <1>0, <2>1 DEF IdInv
<1> QED
  BY <1>1, <1>2

\* An id that a word may be inserted under names no word.
LEMMA FreeId ==
    ASSUME AccountInv, EventInv, NEW r \in Request, pc[r] = "write",
           owner[r] = account \/ hold[r] = "update",
           NEW k \in Vocabulary, NEW i \in Id, ~ IdInFlight(r, i), ~ IdTaken(r, k, i)
    PROVE  /\ View(r, k) = Absent => rows[k] = Absent
           /\ \A j \in Vocabulary : rows[j].id = i => j = k
           /\ \A q \in Request, j \in Vocabulary :
                  Draws(q, j) /\ dirty[q][j].id = i => j = k
<1>0. IdInv /\ \A j \in Vocabulary : j \in Key
  BY KeyFacts DEF EventInv
<1>1. \A j \in Key : dirty[r][j] # Absent
  BY DrawnFacts
<1>2. hold[r] = "update" => owner[r] = account \/ account = 0
  BY AccountParts DEF RequestInv, OwnerInv
<1>3. ASSUME NEW j \in Vocabulary, dirty[r][j] = Untouched PROVE View(r, j) = rows[j]
  BY <1>0, <1>2, <1>3, DrawnFacts DEF View
<1>4. ASSUME NEW j \in Vocabulary, dirty[r][j] # Untouched
      PROVE  View(r, j) = dirty[r][j] /\ Draws(r, j)
  BY <1>0, <1>1, <1>4 DEF View, Draws
<1>5. ASSUME NEW j \in Vocabulary, rows[j].id = i PROVE j = k
  <2>1. View(r, j).id = i
    <3>1. CASE dirty[r][j] = Untouched
      BY <1>3, <1>5, <3>1
    <3>2. CASE dirty[r][j] # Untouched
      BY <1>0, <1>4, <1>5, <3>2, DrawnFacts DEF IdInv
    <3> QED
      BY <3>1, <3>2
  <2> QED
    BY <2>1 DEF IdTaken
<1>6. ASSUME NEW q \in Request, NEW j \in Vocabulary, Draws(q, j), dirty[q][j].id = i
      PROVE  j = k
  <2>1. CASE q = r
    BY <1>4, <1>6, <2>1 DEF IdTaken, Draws
  <2>2. CASE q # r
    BY <1>5, <1>6, <2>2 DEF IdInFlight, Draws
  <2> QED
    BY <2>1, <2>2
<1>7. View(r, k) = Absent => rows[k] = Absent
  BY <1>0, <1>1, <1>3, <1>4
<1> QED
  BY <1>5, <1>6, <1>7

\* The events when a put has written its row.
LEMMA PutEvents ==
    ASSUME AccountInv, EventInv, NEW r \in Request, Others(r), PutChange(r),
           ~ Abort(r, Failure(r))
    PROVE  EventInv'
<1> DEFINE c == todo[r][1]
           k == c.key
           old == View(r, k)
           row == PutRow(r, c, old)
<1>0. pc[r] = "write" /\ VarTypes /\ RequestInv(r)
  BY AccountParts DEF PutChange
<1>1. Head(todo[r]) = c /\ c \in Changes
  BY <1>0, NextChange
<1>2. /\ c.do = "put"
      /\ old = Absent => c.id = None \/ (~ IdInFlight(r, c.id) /\ ~ IdTaken(r, k, c.id))
      /\ old = Absent => Referenced(r)
      /\ Write(r, k, row)
  BY <1>1 DEF PutChange
<1>3. k \in Key /\ (k \in Vocabulary => c.id \in Id /\ c.id # None)
  BY <1>1, <1>2, ChangeFacts, NoneAssumption
<1>4. /\ old = Absent \/ Sound(k, old, owner[r])
      /\ owner[r] = account \/ hold[r] = "update"
      /\ dirty[r][k] # Untouched => old = dirty[r][k]
  BY <1>0, <1>2, <1>3, ViewFacts DEF Referenced
<1>5. owner[r] \in Nat \ {0} /\ old \in Row
  BY <1>0, <1>4, RowFacts DEF VarTypes, RequestInv, StageInv, Working, Sound
<1>6. Sound(k, row, owner[r]) /\ row # Absent /\ row \in Row
      /\ row.id = IF old = Absent THEN c.id ELSE old.id
  <2>1. Sound(k, row, owner[r])
    BY <1>1, <1>2, <1>4, <1>5, PutRowFacts
  <2>2. row.id = IF old = Absent THEN c.id ELSE old.id
    BY <1>1, <1>2, <1>5, PutRowId
  <2> HIDE DEF row
  <2> QED
    BY <2>1, <2>2, RowFacts DEF Sound
<1>7. k \notin Retell => Entity(r, c)' = Named(k, row)
  <2>1. dirty'[r][k] = row
    BY <1>0, <1>2, <1>3 DEF Write, VarTypes
  <2>2. k # None /\ todo' = todo
    BY <1>2, <1>3, NoneAssumption DEF Write
  <2> QED
    BY <2>1, <2>2 DEF Entity, Named
<1>8. dirty[r][k] # Untouched => row.id = dirty[r][k].id
  BY <1>0, <1>3, <1>4, <1>6, DrawnFacts
<1>9. k \in Vocabulary =>
          /\ rows[k] # Absent => row.id = rows[k].id
          /\ \A j \in Vocabulary : rows[j].id = row.id => j = k
          /\ \A q \in Request, j \in Vocabulary :
                 Draws(q, j) /\ dirty[q][j].id = row.id => j = k
  <2>1. SUFFICES ASSUME k \in Vocabulary
                 PROVE  /\ rows[k] # Absent => row.id = rows[k].id
                        /\ \A j \in Vocabulary : rows[j].id = row.id => j = k
                        /\ \A q \in Request, j \in Vocabulary :
                               Draws(q, j) /\ dirty[q][j].id = row.id => j = k
    OBVIOUS
  <2> HIDE DEF row
  <2>2. CASE old = Absent
    <3>1. c.id \in Id /\ ~ IdInFlight(r, c.id) /\ ~ IdTaken(r, k, c.id) /\ row.id = c.id
      BY <1>2, <1>3, <1>6, <2>1, <2>2
    <3> HIDE DEF k
    <3> QED
      BY <1>0, <1>4, <2>1, <2>2, <3>1, FreeId
  <2>3. CASE old # Absent
    <3>1. row.id = old.id
      BY <1>6, <2>3
    <3> HIDE DEF k
    <3> QED
      BY <1>0, <2>1, <2>3, <3>1, SeenId
  <2> QED
    BY <2>2, <2>3
<1> HIDE DEF row, k
<1> QED
  BY <1>0, <1>2, <1>3, <1>6, <1>7, <1>8, <1>9, WriteEvents

\* The events when a review has written its row.
LEMMA ReviewEvents ==
    ASSUME AccountInv, EventInv, NEW r \in Request, Others(r), ReviewChange(r),
           ~ Abort(r, 404)
    PROVE  EventInv'
<1> DEFINE c == todo[r][1]
<1>0. pc[r] = "write" /\ VarTypes
  BY AccountParts DEF ReviewChange
<1>1. Head(todo[r]) = c /\ c \in Changes
  BY <1>0, NextChange
<1>2. /\ c.do = "review"
      /\ \E k \in Found(r, c) : Write(r, k, ReviewRow(r, k, c, View(r, k))) /\ UNCHANGED hold
  BY <1>1 DEF ReviewChange
<1>3. PICK k \in Found(r, c) : Write(r, k, ReviewRow(r, k, c, View(r, k)))
  BY <1>2
<1> DEFINE old == View(r, k)
           row == ReviewRow(r, k, c, old)
<1>4. /\ k \in Key /\ old # Absent
      /\ k \in Retell \/ (c.key = None /\ k \in Vocabulary /\ old.id = c.id)
  <2>1. k \in Key /\ old # Absent
    BY <1>1, <1>2, FoundFacts
  <2>2. c.key \in Retell \/ c.key = None
    BY <1>1, <1>2, ChangeFacts
  <2> QED
    BY <2>1, <2>2, KeyFacts, NoneAssumption DEF Found
<1>5. Sound(k, old, owner[r]) /\ (dirty[r][k] # Untouched => old = dirty[r][k])
  BY <1>0, <1>4, ViewFacts
<1>6. Sound(k, row, owner[r]) /\ row.id = old.id
  <2>1. Sound(k, row, owner[r])
    BY <1>1, <1>5, ReviewRowFacts
  <2>2. row.id = old.id
    BY <1>5 DEF ReviewRow, UpdateRetellReview, UpdateVocabularyReview, Stamped, Sound, Row
  <2> QED
    BY <2>1, <2>2
<1>7. Write(r, k, row)
  BY <1>3
<1> HIDE DEF row
<1>8. row # Absent /\ row \in Row
  BY <1>6, RowFacts DEF Sound
<1>9. k \notin Retell => Entity(r, c)' = Named(k, row)
  <2>1. todo' = todo
    BY <1>7 DEF Write
  <2> QED
    BY <1>4, <1>6, <2>1 DEF Entity, Named
<1>10. k \in Vocabulary =>
           /\ rows[k] # Absent => row.id = rows[k].id
           /\ \A j \in Vocabulary : rows[j].id = row.id => j = k
           /\ \A q \in Request, j \in Vocabulary :
                  Draws(q, j) /\ dirty[q][j].id = row.id => j = k
  BY <1>0, <1>4, <1>6, SeenId
<1> QED
  BY <1>0, <1>2, <1>4, <1>5, <1>6, <1>7, <1>8, <1>9, <1>10, WriteEvents

\* The events when a deletion has written its row, or found none.
LEMMA RemoveEvents ==
    ASSUME AccountInv, EventInv, NEW r \in Request, Others(r), RemoveChange(r)
    PROVE  EventInv'
<1> DEFINE c == todo[r][1]
<1>0. pc[r] = "write" /\ VarTypes /\ RequestInv(r)
  BY AccountParts DEF RemoveChange
<1>1. Head(todo[r]) = c /\ c \in Changes
  BY <1>0, NextChange
<1>2. c.do = "remove"
  BY <1>1 DEF RemoveChange
<1>3. input[r].kind = "change" /\ ~ Touched(r)
  <2>1. input[r].kind = "change"
    BY <1>0, <1>2, NextChange
  <2> QED
    BY <1>0, <2>1 DEF RequestInv, TodoInv
<1>4. c.key \in Bookmark \/ (c.key = None /\ c.id \in Id)
  BY <1>1, <1>2, ChangeFacts
<1>5. CASE Found(r, c) # {}
  <2>1. PICK k \in Found(r, c) : Write(r, k, Absent)
    BY <1>1, <1>5 DEF RemoveChange
  <2>2. k \in Key /\ View(r, k) # Absent /\ k \in Erasable
    BY <1>1, <1>2, FoundFacts
  <2>3. View(r, k) = rows[k]
    BY <1>3, <2>2 DEF Touched, View
  <2>4. k \notin Retell
    BY <2>2, KeyFacts DEF Erasable
  <2>5. Entity(r, c) = Named(k, rows[k])
    <3>1. CASE c.key \in Bookmark
      <4>1. k = c.key /\ c.key # None
        BY <3>1, NoneAssumption, KeyFacts DEF Found
      <4> QED
        BY <3>1, <4>1, KeyFacts DEF Entity, Named
    <3>2. CASE c.key = None
      <4>1. k \in Vocabulary /\ rows[k].id = c.id
        BY <2>3, <3>2 DEF Found
      <4> QED
        BY <3>2, <4>1 DEF Entity, Named
    <3> QED
      BY <1>4, <3>1, <3>2
  <2> QED
    BY <1>0, <1>2, <1>3, <2>1, <2>2, <2>3, <2>4, <2>5, WriteEvents
<1>6. CASE Found(r, c) = {}
  <2>1. /\ pc' = [pc EXCEPT ![r] = "event"]
        /\ UNCHANGED <<rows, events, sequence, todo, dirty, drafts>>
    BY <1>1, <1>6 DEF RemoveChange, committed
  <2>2. IdInv'
    <3>1. IdInv
      BY DEF EventInv
    <3> QED
      BY <2>1, <3>1 DEF IdInv, Draws
  <2>3. \A k \in Key : dirty[r][k] = Untouched
    BY <1>3 DEF Touched
  <2>4. ErasureInv(r)'
    BY <2>1, <2>3, RowFacts DEF ErasureInv
  <2>5. UpsertInv(r)'
    <3>1. UpsertInv(r)
      BY DEF EventInv
    <3> QED
      BY <1>2, <2>1, <3>1 DEF UpsertInv, Draws
  <2>6. sequence' \in Nat /\ sequence <= sequence'
    BY <1>0, <2>1 DEF VarTypes
  <2> QED
    BY <2>1, <2>2, <2>4, <2>5, <2>6, QuietEvents DEF RequestEvents
<1> QED
  BY <1>5, <1>6

\* The events when one has been added.
LEMMA AddEventEvents ==
    ASSUME AccountInv, EventInv, NEW r \in Request, Others(r), AddEvent(r),
           ~ Abort(r, Failure(r))
    PROVE  EventInv'
<1> DEFINE c == todo[r][1]
           rest == Tail(todo[r])
           e == [sequence |-> sequence + 1, owner |-> owner[r], entity |-> Entity(r, c),
                 operation |-> IF c.do = "remove" THEN "delete" ELSE "upsert", by |-> r]
<1>0. pc[r] = "event" /\ VarTypes /\ RequestInv(r)
  BY AccountParts DEF AddEvent
<1>1. /\ Head(todo[r]) = c /\ c \in Changes
      /\ todo[r] \in Seq(Changes) /\ todo[r] # <<>>
      /\ input[r].kind = "change" => Len(todo[r]) = 1
  BY <1>0, NextChange
<1>2. /\ sequence' = sequence + 1
      /\ drafts' = [drafts EXCEPT ![r] = drafts[r] \cup {e}]
      /\ pc' = [pc EXCEPT ![r] = AfterEvent(rest)]
      /\ UNCHANGED <<rows, events, dirty>>
  BY <1>1 DEF AddEvent
<1>3. /\ e.sequence = sequence + 1 /\ e.entity = Entity(r, c)
      /\ e.operation = "upsert" <=> c.do # "remove"
      /\ e.operation = "delete" <=> c.do = "remove"
  OBVIOUS
<1> HIDE DEF e
<1>4. drafts'[r] = drafts[r] \cup {e} /\ pc'[r] = AfterEvent(rest) /\ pc'[r] # "event"
  BY <1>0, <1>2 DEF VarTypes, HandlerTypes, AfterEvent
<1>5. sequence \in Nat /\ sequence' \in Nat /\ sequence <= sequence'
      /\ \A f \in events \cup drafts[r] : f.sequence \in Nat
  BY <1>0, <1>2 DEF VarTypes, Event
<1>6. IdInv'
  <2>1. IdInv
    BY DEF EventInv
  <2> QED
    BY <1>2, <2>1 DEF IdInv, Draws
<1>7. ErasureInv(r) /\ UpsertInv(r) /\ \A f \in events : f.sequence <= sequence
  BY DEF EventInv
<1>8. ErasureInv(r)'
  <2>1. ASSUME NEW k \in Key, dirty[r][k] = Absent
        PROVE  /\ rows[k] # Absent
               /\ \E f \in drafts'[r] :
                      /\ f.entity = Named(k, rows[k])
                      /\ \A g \in events : g.entity = f.entity /\ g.operation = "upsert"
                                               => g.sequence < f.sequence
    <3>1. rows[k] # Absent /\ e.entity = Named(k, rows[k])
      BY <1>0, <1>3, <1>7, <2>1 DEF ErasureInv
    <3>2. \A g \in events : g.sequence < e.sequence
      <4> TAKE g \in events
      <4>1. g.sequence \in Nat /\ g.sequence <= sequence
        BY <1>5, <1>7
      <4> QED
        BY <1>3, <1>5, <4>1
    <3> QED
      BY <1>4, <3>1, <3>2
  <2> QED
    BY <1>2, <1>4, <2>1 DEF ErasureInv, Named
<1>9. UpsertInv(r)'
  <2>1. ASSUME NEW f \in drafts'[r]
        PROVE  /\ f.sequence <= sequence'
               /\ f.operation = "upsert" =>
                      \E k \in Key : Draws(r, k) /\ Named(k, dirty[r][k]) = f.entity
    <3>1. CASE f \in drafts[r]
      <4>1. f.sequence \in Nat /\ f.sequence <= sequence
        BY <1>5, <1>7, <3>1 DEF UpsertInv
      <4> QED
        BY <1>2, <1>5, <1>7, <3>1, <4>1 DEF UpsertInv
    <3>2. CASE f = e
      BY <1>0, <1>2, <1>3, <1>5, <1>7, <3>2 DEF UpsertInv
    <3> QED
      BY <1>4, <2>1, <3>1, <3>2
  <2> QED
    BY <1>2, <1>4, <2>1 DEF UpsertInv, Draws, Named
<1> QED
  BY <1>2, <1>5, <1>6, <1>8, <1>9, QuietEvents DEF RequestEvents

\* A committed row is one that was committed before or one that r has written, and
\* it keeps its name.
LEMMA CommittedRows ==
    ASSUME AccountInv, EventInv, NEW r \in Request, Commit(r), NEW k \in Key
    PROVE  /\ dirty[r][k] = Untouched => rows'[k] = rows[k]
           /\ dirty[r][k] # Untouched => rows'[k] = dirty[r][k]
           /\ rows'[k] # Absent => rows'[k] = rows[k] \/ (Draws(r, k) /\ rows'[k] = dirty[r][k])
           /\ rows[k] # Absent /\ rows'[k] # Absent => Named(k, rows'[k]) = Named(k, rows[k])
<1>1. /\ dirty[r][k] = Untouched => rows'[k] = rows[k]
      /\ dirty[r][k] # Untouched => rows'[k] = dirty[r][k]
  BY DEF Commit
<1>2. Draws(r, k) /\ rows[k] # Absent => Named(k, dirty[r][k]) = Named(k, rows[k])
  BY NamedAgain DEF EventInv, IdInv
<1> QED
  BY <1>1, <1>2 DEF Draws

\* The events when a transaction commits: no other transaction tells of its rows.
LEMMA CommitEvents ==
    ASSUME AccountInv, EventInv, NEW r \in Request, Others(r), Commit(r), AccountInv'
    PROVE  EventInv'
<1>0. /\ pc[r] = "commit" /\ VarTypes /\ VarTypes' /\ events' = events \cup drafts[r]
      /\ \A p, q \in Request : p # q => LockInv(p, q)
      /\ sequence' = sequence /\ sequence \in Nat
      /\ IdInv /\ \A q \in Request : ErasureInv(q) /\ UpsertInv(q)
  BY AccountParts DEF Commit, EventInv, VarTypes, AccountInv, TypeOK, Holds
<1>1. /\ \A k \in Key : dirty'[r][k] = Untouched
      /\ drafts'[r] = {} /\ pc'[r] = "done"
  BY <1>0, FailureFacts, FinishFacts DEF Commit
<1>2. /\ \A q \in Request, k \in Key :
             Draws(q, k)' => q # r /\ Draws(q, k) /\ dirty'[q][k] = dirty[q][k]
      /\ \A q \in Request \ {r}, k \in Key : dirty'[q][k] = dirty[q][k]
  BY <1>1 DEF Draws, Others
<1>3. ASSUME NEW q \in Request \ {r}, NEW k \in Key, dirty[q][k] # Untouched
      PROVE  rows'[k] = rows[k] /\ dirty[r][k] = Untouched
  BY <1>0, <1>3, CommittedRows DEF LockInv
<1>4. ASSUME NEW k \in Vocabulary
      PROVE  /\ rows'[k] # Absent <=> rows'[k].id \in Id
             /\ rows'[k].id \in Id => \/ rows'[k] = rows[k] /\ rows[k] # Absent
                                      \/ Draws(r, k) /\ rows'[k] = dirty[r][k]
  <2>1. k \in Key /\ Absent.id \notin Id
    BY KeyFacts, NoneAssumption DEF Absent
  <2>2. rows'[k] = rows[k] \/ rows'[k] = Absent \/ (Draws(r, k) /\ rows'[k] = dirty[r][k])
    BY <2>1, CommittedRows
  <2> QED
    BY <2>1, <2>2, DrawnFacts
<1>5. IdInv'
  <2>0. \A k \in Vocabulary : k \in Key
    BY KeyFacts
  <2>1. ASSUME NEW j \in Vocabulary, NEW k \in Vocabulary,
               rows'[j].id = rows'[k].id, rows'[k] # Absent
        PROVE  j = k
    BY <1>0, <1>4, <2>1 DEF IdInv
  <2>2. ASSUME NEW q \in Request, NEW j \in Vocabulary, NEW k \in Vocabulary,
               Draws(q, j)', dirty'[q][j].id = rows'[k].id
        PROVE  j = k
    <3>1. Draws(q, j) /\ dirty[q][j].id = rows'[k].id /\ dirty[q][j].id \in Id
      BY <1>2, <2>0, <2>2, DrawnFacts
    <3> QED
      BY <1>0, <1>4, <3>1 DEF IdInv
  <2>3. \A p, q \in Request : \A j, k \in Vocabulary :
            Draws(p, j)' /\ Draws(q, k)' /\ dirty'[p][j].id = dirty'[q][k].id => j = k
    BY <1>0, <1>2, <2>0 DEF IdInv
  <2>4. \A q \in Request : \A k \in Vocabulary :
            Draws(q, k)' /\ rows'[k] # Absent => dirty'[q][k].id = rows'[k].id
    <3> SUFFICES ASSUME NEW q \in Request, NEW k \in Vocabulary, Draws(q, k)', rows'[k] # Absent
                 PROVE  dirty'[q][k].id = rows'[k].id
      OBVIOUS
    <3>1. q # r /\ Draws(q, k) /\ dirty'[q][k] = dirty[q][k] /\ dirty[q][k] # Untouched
      BY <1>2, <2>0 DEF Draws
    <3>2. rows'[k] = rows[k]
      BY <1>3, <2>0, <3>1
    <3> QED
      BY <1>0, <3>1, <3>2 DEF IdInv
  <2> QED
    BY <2>1, <2>2, <2>3, <2>4 DEF IdInv
<1>6. ASSUME NEW q \in Request PROVE RequestEvents(q)'
  <2>1. CASE q = r
    BY <1>1, <2>1, RowFacts DEF RequestEvents, ErasureInv, UpsertInv
  <2>2. CASE q # r
    <3>1. /\ pc'[q] = pc[q] /\ todo'[q] = todo[q] /\ dirty'[q] = dirty[q]
          /\ drafts'[q] = drafts[q] /\ Entity(q, todo[q][1])' = Entity(q, todo[q][1])
          /\ \A k \in Key : Draws(q, k)' <=> Draws(q, k)
      BY <2>2 DEF Others, Entity, Draws
    <3>2. UpsertInv(q)'
      BY <1>0, <3>1 DEF UpsertInv
    <3>3. ASSUME NEW k \in Key, dirty[q][k] = Absent
          PROVE  /\ rows'[k] = rows[k]
                 /\ \A e \in drafts[r] : e.operation = "upsert" => e.entity # Named(k, rows[k])
      <4>1. rows'[k] = rows[k] /\ dirty[r][k] = Untouched /\ rows[k] # Absent
        BY <1>0, <1>3, <2>2, <3>3, RowFacts DEF ErasureInv
      <4>2. ASSUME NEW e \in drafts[r], e.operation = "upsert", e.entity = Named(k, rows[k])
            PROVE  FALSE
        <5>1. PICK j \in Key : Draws(r, j) /\ Named(j, dirty[r][j]) = Named(k, rows[k])
          BY <1>0, <4>2 DEF UpsertInv
        <5>2. j = k
          <6>1. CASE j \in Vocabulary
            BY <1>0, <5>1, <6>1, NamedFacts DEF IdInv
          <6>2. CASE j \notin Vocabulary
            BY <5>1, <6>2, NamedFacts
          <6> QED
            BY <6>1, <6>2
        <5> QED
          BY <4>1, <5>1, <5>2 DEF Draws
      <4> QED
        BY <4>1, <4>2
    <3>4. ErasureInv(q)'
      <4>1. ASSUME NEW k \in Key, dirty[q][k] = Absent, pc[q] = "commit"
            PROVE  \E f \in drafts[q] :
                       /\ f.entity = Named(k, rows[k])
                       /\ \A e \in events' : e.entity = f.entity /\ e.operation = "upsert"
                                                 => e.sequence < f.sequence
        <5>1. PICK f \in drafts[q] :
                  /\ f.entity = Named(k, rows[k])
                  /\ \A e \in events : e.entity = f.entity /\ e.operation = "upsert"
                                           => e.sequence < f.sequence
          BY <1>0, <4>1 DEF ErasureInv
        <5> QED
          BY <1>0, <3>3, <4>1, <5>1
      <4>2. ASSUME NEW k \in Key, dirty[q][k] = Absent
            PROVE  /\ Named(k, rows[k])' = Named(k, rows[k]) /\ rows'[k] # Absent
                   /\ pc[q] = "event" => Entity(q, todo[q][1]) = Named(k, rows[k])
        BY <1>0, <3>3, <4>2 DEF ErasureInv, Named
      <4> QED
        BY <3>1, <4>1, <4>2 DEF ErasureInv
    <3> QED
      BY <3>2, <3>4 DEF RequestEvents
  <2> QED
    BY <2>1, <2>2
<1>7. ASSUME NEW e \in drafts[r]
      PROVE  e.sequence <= sequence /\ (e.operation = "upsert" => e.entity \notin Vocabulary)
  BY <1>0, NamedEntity DEF UpsertInv
<1>8. \A e \in events : e.sequence <= sequence
                        /\ (e.operation = "upsert" => e.entity \notin Vocabulary)
  BY DEF EventInv
<1>9. ASSUME NEW e \in events', e.operation = "upsert",
             \A f \in events' : f.entity = e.entity => f.sequence <= e.sequence
      PROVE  There(rows', e.entity)
  <2>1. CASE e \in drafts[r]
    <3>1. PICK k \in Key : Draws(r, k) /\ Named(k, dirty[r][k]) = e.entity
      BY <1>0, <1>9, <2>1 DEF UpsertInv
    <3>2. rows'[k] = dirty[r][k] /\ rows'[k] # Absent
      BY <3>1, CommittedRows DEF Draws
    <3> QED
      BY <3>1, <3>2 DEF There
  <2>2. CASE e \in events
    <3>1. e.entity \in Key \cup ({"entry"} \X Id) /\ e.entity \notin Vocabulary
          /\ rows \in [Key -> Row] /\ e.sequence \in Nat
      BY <1>0, <1>8, <1>9, <2>2 DEF VarTypes, Event
    <3>2. Exists(e.entity)
      BY <1>0, <1>9, <2>2 DEF EventInv, UpsertsTellTheState
    <3>3. There(rows, e.entity)
      BY <3>1, <3>2, TableFacts DEF Exists
    <3>4. PICK k \in Key : rows[k] # Absent /\ Named(k, rows[k]) = e.entity
      BY <3>3 DEF There
    <3>5. rows'[k] # Absent
      <4>1. SUFFICES ASSUME rows'[k] = Absent PROVE FALSE
        OBVIOUS
      <4>2. dirty[r][k] = Absent
        BY <3>4, <4>1, CommittedRows
      <4>3. PICK f \in drafts[r] : f.entity = e.entity /\ e.sequence < f.sequence
        BY <1>0, <1>9, <2>2, <3>4, <4>2 DEF ErasureInv
      <4>4. f.sequence <= e.sequence /\ f.sequence \in Nat
        BY <1>0, <1>9, <4>3 DEF VarTypes, Event
      <4> QED
        BY <3>1, <4>3, <4>4
    <3> QED
      BY <3>4, <3>5, CommittedRows DEF There
  <2> QED
    BY <1>0, <1>9, <2>1, <2>2
<1>10. UpsertsTellTheState'
  <2>1. ASSUME NEW e \in events', e.operation = "upsert"
        PROVE  There(rows', e.entity) <=> Exists(e.entity)'
    <3>1. e.entity \in Key \cup ({"entry"} \X Id) /\ e.entity \notin Vocabulary
          /\ rows' \in [Key -> Row]
      BY <1>0, <1>7, <1>8, <2>1 DEF VarTypes, Event
    <3> QED
      BY <3>1, TableFacts DEF Exists
  <2> QED
    BY <1>9, <2>1 DEF UpsertsTellTheState
<1> QED
  BY <1>0, <1>5, <1>6, <1>7, <1>8, <1>10 DEF EventInv, RequestEvents

\* The events when the account is deleted: none are left, and no request tells of one.
LEMMA CascadeEvents ==
    ASSUME AccountInv, EventInv, NEW r \in Request, Others(r), Cascade(r)
    PROVE  EventInv'
<1>0. /\ VarTypes /\ RequestInv(r) /\ pc[r] = "cascade"
      /\ \A k \in Key : rows'[k] = Absent
      /\ events' = {} /\ sequence' = sequence
  BY AccountParts DEF Cascade
<1>1. /\ \A q \in Request, k \in Key : dirty'[q][k] = Untouched
      /\ \A q \in Request : drafts'[q] = {}
  <2>1. (\A k \in Key : dirty'[r][k] = Untouched) /\ drafts'[r] = {} /\ pc'[r] = "done"
    BY <1>0, FinishFacts DEF Cascade
  <2>2. ASSUME NEW q \in Request \ {r}
        PROVE  drafts'[q] = {} /\ \A k \in Key : dirty'[q][k] = Untouched
    BY CascadeFacts DEF Others, Touched
  <2> QED
    BY <2>1, <2>2
<1>2. IdInv'
  <2>1. \A q \in Request, k \in Key : ~ Draws(q, k)'
    BY <1>1 DEF Draws
  <2> QED
    BY <1>0, <2>1, KeyFacts DEF IdInv
<1>3. ASSUME NEW q \in Request PROVE RequestEvents(q)'
  <2>1. ErasureInv(q)'
    BY <1>1, RowFacts DEF ErasureInv
  <2>2. ~ (pc'[q] = "event" /\ todo'[q][1].do # "remove")
    <3>1. CASE q = r
      BY <1>0, <3>1, FinishFacts DEF Cascade
    <3>2. CASE q # r
      <4>1. UpsertInv(q) /\ pc'[q] = pc[q] /\ todo'[q] = todo[q] /\ \A k \in Key : ~ Draws(q, k)
        BY <3>2, CascadeFacts DEF EventInv, Others, Touched, Draws
      <4> QED
        BY <4>1 DEF UpsertInv
    <3> QED
      BY <3>1, <3>2
  <2>3. UpsertInv(q)'
    BY <1>1, <2>2 DEF UpsertInv
  <2> QED
    BY <2>1, <2>3 DEF RequestEvents
<1> QED
  BY <1>0, <1>2, <1>3 DEF EventInv, RequestEvents, UpsertsTellTheState

\* The events when a transaction is rolled back.
LEMMA AbortEvents ==
    ASSUME AccountInv, EventInv, NEW r \in Request, NEW status \in Nat, Abort(r, status)
    PROVE  EventInv'
<1>0. /\ VarTypes /\ Finish(r, status) /\ Others(r)
      /\ UNCHANGED <<rows, events, sequence>>
  BY AccountParts, AbortStep DEF Abort, committed
<1>1. /\ \A k \in Key : dirty'[r][k] = Untouched
      /\ drafts'[r] = {} /\ pc'[r] # "event"
  BY <1>0, FinishFacts
<1>2. sequence' \in Nat /\ sequence <= sequence'
  BY <1>0 DEF VarTypes
<1> QED
  BY <1>0, <1>1, <1>2, ClearedEvents

\* The events when a request fails.
LEMMA FailEvents ==
    ASSUME AccountInv, EventInv, NEW r \in Request, Abort(r, Failure(r))
    PROVE  EventInv'
<1>1. PICK status \in Nat : status = Failure(r)
  BY FailureFacts
<1>2. Abort(r, status)
  BY <1>1
<1> QED
  BY <1>2, AbortEvents

\* Before and after its transaction a request says nothing of events.
LEMMA IdleEvents ==
    ASSUME AccountInv, EventInv, NEW r \in Request, Others(r), AccountInv',
           UNCHANGED <<rows, events, sequence>>,
           pc'[r] \notin Working \/ (pc[r] \notin Working /\ UNCHANGED <<dirty, drafts>>),
           pc'[r] # "event"
    PROVE  EventInv'
<1>1. \A k \in Key : dirty'[r][k] = Untouched
  BY DEF AccountInv, StageInv, Touched
<1>2. drafts'[r] = {}
  BY DEF AccountInv, StageInv
<1>3. sequence' \in Nat /\ sequence <= sequence'
  BY AccountParts DEF VarTypes
<1> QED
  BY <1>1, <1>2, <1>3, ClearedEvents

\* Every step of a request keeps what the events say.
LEMMA EventStep ==
    ASSUME AccountInv, EventInv, NEW r \in Request, Step(r)
    PROVE  EventInv'
<1>0. AccountInv' /\ Others(r) /\ VarTypes
  BY RequestStep, AccountParts DEF Step
<1>1. CASE Begin(r)
  <2>1. UNCHANGED <<rows, events, sequence>> /\ UNCHANGED <<dirty, drafts>>
        /\ pc[r] \notin Working /\ pc'[r] # "event"
    BY <1>0, <1>1 DEF Begin, committed, Working, VarTypes, HandlerTypes
  <2> QED
    BY <1>0, <2>1, IdleEvents
<1>2. CASE Refuse(r) \/ Victim(r)
  BY <1>2, AbortEvents DEF Refuse, Victim
<1>3. CASE Fail(r)
  BY <1>3, FailEvents DEF Fail
<1>4. CASE SignIn(r)
  <2>1. CASE Abort(r, Failure(r))
    BY <2>1, FailEvents
  <2>2. CASE ~ Abort(r, Failure(r))
    <3>1. UNCHANGED <<rows, events, sequence>> /\ UNCHANGED <<dirty, drafts>>
          /\ pc[r] \notin Working /\ pc'[r] # "event"
      BY <1>0, <1>4, <2>2 DEF SignIn, Working, AfterEvent, VarTypes, HandlerTypes
    <3> QED
      BY <1>0, <3>1, IdleEvents
  <2> QED
    BY <2>1, <2>2
<1>5. CASE PutChange(r)
  BY <1>0, <1>5, FailEvents, PutEvents
<1>6. CASE ReviewChange(r)
  BY <1>0, <1>6, AbortEvents, ReviewEvents
<1>7. CASE RemoveChange(r)
  BY <1>0, <1>7, RemoveEvents
<1>8. CASE AddEvent(r)
  BY <1>0, <1>8, FailEvents, AddEventEvents
<1>9. CASE Commit(r)
  BY <1>0, <1>9, CommitEvents
<1>10. CASE Cascade(r)
  BY <1>0, <1>10, CascadeEvents
<1>11. CASE LockAccount(r)
  <2>1. CASE Abort(r, 200)
    BY <2>1, AbortEvents
  <2>2. CASE ~ Abort(r, 200)
    <3>1. UNCHANGED <<rows, events, sequence>> /\ pc'[r] = "cascade"
      BY <1>0, <1>11, <2>2 DEF LockAccount, committed, VarTypes, HandlerTypes
    <3> QED
      BY <1>0, <3>1, IdleEvents DEF Working
  <2> QED
    BY <2>1, <2>2
<1>12. CASE Logout(r)
  <2>1. UNCHANGED <<rows, events, sequence>> /\ pc'[r] = "done"
    BY <1>0, <1>12, FinishFacts DEF Logout
  <2> QED
    BY <1>0, <2>1, IdleEvents DEF Working
<1>13. CASE ListBookmarks(r) \/ ListProgress(r) \/ ListVocabularyEntries(r)
            \/ ListGrammarAttempts(r)
  <2>1. UNCHANGED <<rows, events, sequence>> /\ pc'[r] \in Listing \cup {"done"}
    BY <1>0, <1>13, FinishFacts, ZenonT(60)
    DEF ListBookmarks, ListProgress, ListVocabularyEntries, ListGrammarAttempts, ListThen,
        committed, Listing, VarTypes, HandlerTypes
  <2> QED
    BY <1>0, <2>1, IdleEvents DEF Working, Listing
<1> QED
  BY <1>1, <1>2, <1>3, <1>4, <1>5, <1>6, <1>7, <1>8, <1>9, <1>10, <1>11, <1>12, <1>13
  DEF Step, Handler

\* What the earlier login has migrated: one event for each row, each word its own id.
LEMMA InitEvents ==
    ASSUME Init
    PROVE  EventInv
<1>0. PICK b \in Batch :
           /\ Migrated(b)
           /\ rows = [k \in Key |->
                  IF \E i \in DOMAIN b : b[i].key = k
                  THEN LET c == b[CHOOSE i \in DOMAIN b : b[i].key = k]
                       IN  [owner |-> 1, id |-> c.id, at |-> c.at,
                            value |-> IF k \in Vocabulary /\ c.at = 0 THEN None ELSE Earlier]
                  ELSE Absent]
           /\ events = {[sequence |-> i, owner |-> 1, operation |-> "upsert", by |-> Earlier,
                         entity |-> IF b[i].key \in Vocabulary THEN <<"entry", b[i].id>>
                                    ELSE b[i].key] : i \in DOMAIN b}
           /\ sequence = Len(b)
  BY DEF Init
<1>1. /\ DOMAIN b = 1 .. Len(b) /\ Len(b) \in Nat
      /\ \A i \in DOMAIN b : b[i] \in Changes /\ b[i].do = "put"
  <2>1. /\ b \in Seq(Changes) /\ \A i \in 1 .. Len(b) : b[i].do = "put"
    BY BatchFacts
  <2>2. DOMAIN b = 1 .. Len(b) /\ Len(b) \in Nat /\ \A i \in 1 .. Len(b) : b[i] \in Changes
    BY <2>1
  <2> QED
    BY <2>1, <2>2
<1>2. \A i \in DOMAIN b :
          b[i].key \in Key /\ (b[i].key \in Vocabulary => b[i].id \in Id /\ b[i].id # None)
  BY <1>1, ChangeFacts, NoneAssumption
<1>3. ASSUME NEW i \in DOMAIN b
      PROVE  rows[b[i].key].id = b[i].id /\ rows[b[i].key] # Absent
  <2> DEFINE k == b[i].key
  <2>1. \A j \in DOMAIN b : b[j].key = k => j = i
    BY <1>0 DEF Migrated
  <2>2. (CHOOSE j \in DOMAIN b : b[j].key = k) = i
    BY <2>1
  <2> DEFINE v == IF k \in Vocabulary /\ b[i].at = 0 THEN None ELSE Earlier
             row == [owner |-> 1, id |-> b[i].id, at |-> b[i].at, value |-> v]
  <2>3. rows[k] = row
    BY <1>0, <1>2, <2>2
  <2>4. row.id = b[i].id /\ row.owner = 1
    OBVIOUS
  <2> QED
    BY <2>3, <2>4, RowFacts
<1>4. ASSUME NEW k \in Key, rows[k] # Absent
      PROVE  \E i \in DOMAIN b : b[i].key = k
  BY <1>0, <1>4
<1>5. \A r \in Request, k \in Key : dirty[r][k] = Untouched /\ ~ Draws(r, k)
  BY DEF Init, Draws
<1>6. IdInv
  <2>1. ASSUME NEW j \in Vocabulary, NEW k \in Vocabulary,
               rows[j].id = rows[k].id, rows[k] # Absent
        PROVE  j = k
    <3>1. PICK i \in DOMAIN b : b[i].key = k
      BY <1>4, <2>1, KeyFacts
    <3>2. rows[k].id = b[i].id /\ b[i].id \in Id
      BY <1>2, <1>3, <3>1
    <3>3. rows[j] # Absent
      BY <2>1, <3>2, NoneAssumption DEF Absent
    <3>4. PICK h \in DOMAIN b : b[h].key = j
      BY <1>4, <3>3, KeyFacts
    <3>5. rows[j].id = b[h].id /\ b[i].id # None
      BY <1>2, <1>3, <3>1, <3>4
    <3>6. h = i
      BY <1>0, <2>1, <3>2, <3>5 DEF Migrated
    <3> QED
      BY <3>1, <3>4, <3>6
  <2> QED
    BY <1>5, <2>1, KeyFacts DEF IdInv
<1>7. ASSUME NEW r \in Request PROVE ErasureInv(r) /\ UpsertInv(r)
  <2>1. drafts[r] = {} /\ pc[r] = "idle"
    BY DEF Init
  <2> QED
    BY <1>5, <2>1, RowFacts DEF ErasureInv, UpsertInv
<1>8. ASSUME NEW e \in events
      PROVE  /\ e.sequence <= sequence /\ e.entity \notin Vocabulary
             /\ Exists(e.entity)
  <2>1. PICK i \in DOMAIN b :
            e = [sequence |-> i, owner |-> 1, operation |-> "upsert", by |-> Earlier,
                 entity |-> IF b[i].key \in Vocabulary THEN <<"entry", b[i].id>>
                            ELSE b[i].key]
    BY <1>0
  <2> DEFINE k == b[i].key
  <2>2. e.sequence = i /\ e.entity = Named(k, rows[k])
    BY <1>3, <2>1 DEF Named
  <2>3. e.sequence <= sequence
    <3>1. sequence = Len(b)
      BY <1>0
    <3>2. i \in 1 .. Len(b) /\ Len(b) \in Nat
      BY <1>1
    <3> QED
      BY <2>2, <3>1, <3>2
  <2>4. e.entity \notin Vocabulary /\ There(rows, e.entity)
    BY <1>2, <1>3, <2>2, NamedEntity DEF There
  <2>5. rows \in [Key -> Row] /\ e.entity \in Key \cup ({"entry"} \X Id)
    BY InitFacts, AccountParts DEF VarTypes, Event
  <2> QED
    BY <2>3, <2>4, <2>5, TableFacts DEF Exists
<1> QED
  BY <1>6, <1>7, <1>8 DEF EventInv, UpsertsTellTheState

\* The last event of an entity, by its number, is no upsert unless the entity is
\* there: CreateUserEvent draws its number under the lock of the row it tells of, so
\* that the number of a deletion is greater than that of every upsert before it.
THEOREM UpsertsAreTold == Spec => []UpsertsTellTheState
<1>1. Init => EventInv
  BY InitEvents
<1>2. AccountInv /\ EventInv /\ [Next]_vars => EventInv'
  <2> SUFFICES ASSUME AccountInv, EventInv, [Next]_vars PROVE EventInv'
    OBVIOUS
  <2>1. CASE \E r \in Request : Step(r)
    BY <2>1, EventStep
  <2>2. CASE (\E t \in Token : Expire(t)) \/ UNCHANGED vars
    <3>1. UNCHANGED <<rows, events, sequence, pc, todo, dirty, drafts>>
      BY <2>2 DEF Expire, vars, handler
    <3>2. \A q \in Request : Entity(q, todo[q][1])' = Entity(q, todo[q][1])
      BY <3>1 DEF Entity
    <3>3. IdInv' /\ \A q \in Request : ErasureInv(q)' /\ UpsertInv(q)'
      <4>1. IdInv /\ \A q \in Request : ErasureInv(q) /\ UpsertInv(q)
        BY DEF EventInv
      <4>2. IdInv'
        BY <3>1, <4>1 DEF IdInv, Draws
      <4>3. \A q \in Request : ErasureInv(q)'
        BY <3>1, <3>2, <4>1 DEF ErasureInv, Named
      <4>4. \A q \in Request : UpsertInv(q)'
        BY <3>1, <3>2, <4>1 DEF UpsertInv, Draws, Named
      <4> QED
        BY <4>2, <4>3, <4>4
    <3>4. UpsertsTellTheState'
      BY <3>1 DEF EventInv, UpsertsTellTheState, Exists
    <3> QED
      BY <3>1, <3>3, <3>4 DEF EventInv
  <2> QED
    BY <2>1, <2>2 DEF Next, Step
<1>3. EventInv => UpsertsTellTheState
  BY DEF EventInv
<1> QED
  BY <1>1, <1>2, <1>3, AccountInductive, PTL DEF Spec

=============================================================================

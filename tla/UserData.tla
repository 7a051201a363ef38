----------------------------- MODULE UserData -----------------------------
(***************************************************************************)
(* The learning data of one account (internal/identity, the handlers of    *)
(* internal/httpapi/identity.go, vocabulary.go, grammar.go and the review  *)
(* of retell.go): what several devices of one user write and read at the   *)
(* same time.  Every request is one PostgreSQL transaction under READ      *)
(* COMMITTED: a statement sees what is committed when it starts, a written *)
(* row stays locked until its transaction ends, a foreign key locks the    *)
(* row of users in share mode, and an upsert of that row or its deletion   *)
(* locks it against others of their kind.                                  *)
(***************************************************************************)
EXTENDS Integers, Sequences, FiniteSets

CONSTANTS
    Request,    \* requests the devices make; each is made at most once
    Earlier,    \* the login that made the account, which came before the others
    Content, Word, Attempt, Recording,  \* what the entities are about
    Id,         \* ids clients choose for vocabulary entries
    Credential, \* identity tokens of Apple
    Batch,      \* the sequences of changes a login may migrate
    Clock,      \* client clocks, positive
    None

ASSUME ClockAssumption == Clock \subseteq Nat \ {0}

VARIABLES
    account,    \* id of the person's row of users, 0 when there is none
    born,       \* ids of users drawn so far
    sessions,   \* sessions[t]: the user of token t, 0 when it does not authenticate
    used,       \* used[c]: the user who signed in with identity token c, or 0
    rows,       \* the committed rows of the user's tables
    events,     \* the committed rows of user_events
    sequence,   \* numbers of user_events drawn so far
    pc,         \* pc[r]: the statement request r executes next
    input,      \* input[r]: what r asks for
    owner,      \* owner[r]: the user r acts for
    todo,       \* todo[r]: the changes r still has to write
    dirty,      \* dirty[r]: rows r wrote and not yet committed, which it locks
    drafts,     \* drafts[r]: events r inserted and not yet committed
    hold,       \* hold[r]: how r locks the row of users
    seen,       \* seen[r]: progress when r began to read, and as it read it
    answer      \* answer[r]: the status r was answered with

committed == <<account, born, sessions, used, rows, events, sequence>>
handler == <<pc, input, owner, todo, dirty, drafts, hold, seen, answer>>
vars == <<account, born, sessions, used, rows, events, sequence,
          pc, input, owner, todo, dirty, drafts, hold, seen, answer>>

-----------------------------------------------------------------------------
Progress == {"progress"} \X Content
Vocabulary == {"vocabulary"} \X Word
Bookmark == {"bookmark"} \X Content
Grammar == {"grammar"} \X Attempt
Retell == {"retell"} \X Recording
Key == Progress \cup Vocabulary \cup Bookmark \cup Grammar \cup Retell

Token == Request \cup {Earlier}
Writer == Token \cup {None}

\* One row of a table: its owner, the id of a vocabulary entry, and the value
\* that devices overwrite with the client clock it came with: position and
\* completion of progress, the review of a word or a recording, the score of a
\* grammar attempt.  A value is named after the request that wrote it.
Row == [owner : Nat, id : Id \cup {None}, at : Clock \cup {0}, value : Writer]
Absent == [owner |-> 0, id |-> None, at |-> 0, value |-> None]
Untouched == [owner |-> 0, id |-> None, at |-> -1, value |-> None]

\* One change a request makes: upsert a row, update the review of a row, or
\* delete it.  A vocabulary entry is put under its word and reviewed and deleted
\* by its id alone.  A review that is not sound fails its validation.
Change == [do : {"put", "review", "remove"}, key : Key \cup {None},
           id : Id \cup {None}, at : Clock \cup {0}, sound : BOOLEAN]

Put(k, i, t, ok) == [do |-> "put", key |-> k, id |-> i, at |-> t, sound |-> ok]
Review(k, i, t) == [do |-> "review", key |-> k, id |-> i, at |-> t, sound |-> TRUE]
Remove(k, i) == [do |-> "remove", key |-> k, id |-> i, at |-> 0, sound |-> TRUE]

\* What each endpoint accepts.  A bookmark is set or cleared, progress comes with a
\* client clock, an attempt at a grammar exercise is stored as a whole, a recording
\* gets its self-review, and a word may bring a review, sound or not.
BookmarkChanges == UNION {{Put(k, None, 0, TRUE), Remove(k, None)} : k \in Bookmark}
ProgressChanges == {Put(k, None, t, TRUE) : k \in Progress, t \in Clock}
GrammarChanges == {Put(k, None, 0, TRUE) : k \in Grammar}
RetellChanges ==
    {Put(k, None, 0, TRUE) : k \in Retell} \cup {Review(k, None, t) : k \in Retell, t \in Clock}
VocabularyChanges ==
    {Put(k, i, t, TRUE) : k \in Vocabulary, i \in Id, t \in Clock \cup {0}}
    \cup {Put(k, i, t, FALSE) : k \in Vocabulary, i \in Id, t \in Clock}
    \cup {Review(None, i, t) : i \in Id, t \in Clock}
    \cup {Remove(None, i) : i \in Id}

Changes == BookmarkChanges \cup ProgressChanges \cup GrammarChanges
               \cup RetellChanges \cup VocabularyChanges

\* A login brings bookmarks, progress, words and grammar attempts to save.
ASSUME BatchAssumption ==
    Batch \subseteq Seq({c \in Changes : c.do = "put" /\ c.key \notin Retell})
ASSUME NoneAssumption == None \notin Key \cup Id \cup Credential
ASSUME EarlierAssumption == Earlier \notin Request

Event == [sequence : Nat, owner : Nat, entity : Key \cup ({"entry"} \X Id),
          operation : {"upsert", "delete"}, by : Token]

\* What a request asks for: one change, a login with the data of an anonymous
\* device, a logout of token, GET /me, or DELETE /me.
Ask(k, b, c, t) == [kind |-> k, batch |-> b, credential |-> c, token |-> t]
Nothing == Ask("none", <<>>, None, None)

\* What a login can have migrated: every entity once, each word under its own id.
Migrated(b) ==
    \A i \in DOMAIN b :
        /\ b[i].sound
        /\ \A j \in DOMAIN b \ {i} :
               b[j].key # b[i].key /\ (b[i].id # None => b[j].id # b[i].id)

\* The earlier login has migrated one batch.
Init ==
    /\ account = 1
    /\ born = 1
    /\ sessions = [t \in Token |-> IF t = Earlier THEN 1 ELSE 0]
    /\ used = [c \in Credential |-> 0]
    /\ \E b \in Batch :
           /\ Migrated(b)
           /\ rows = [k \in Key |->
                  IF \E i \in DOMAIN b : b[i].key = k
                  THEN LET c == b[CHOOSE i \in DOMAIN b : b[i].key = k]
                       IN  [owner |-> 1, id |-> c.id, at |-> c.at,
                            value |-> IF k \in Vocabulary /\ c.at = 0 THEN None ELSE Earlier]
                  ELSE Absent]
           /\ events = {[sequence |-> i, owner |-> 1, operation |-> "upsert", by |-> Earlier,
                         entity |-> IF b[i].key \in Vocabulary THEN <<"entry", b[i].id>>
                                    ELSE b[i].key] : i \in DOMAIN b}
           /\ sequence = Len(b)
    /\ pc = [r \in Request |-> "idle"]
    /\ input = [r \in Request |-> Nothing]
    /\ owner = [r \in Request |-> 0]
    /\ todo = [r \in Request |-> <<>>]
    /\ dirty = [r \in Request |-> [k \in Key |-> Untouched]]
    /\ drafts = [r \in Request |-> {}]
    /\ hold = [r \in Request |-> "none"]
    /\ seen = [r \in Request |-> [from |-> rows, read |-> [k \in Key |-> Untouched]]]
    /\ answer = [r \in Request |-> 0]

-----------------------------------------------------------------------------
\* r's transaction and its request end: its locks are released.
Finish(r, status) ==
    /\ pc' = [pc EXCEPT ![r] = "done"]
    /\ answer' = [answer EXCEPT ![r] = status]
    /\ todo' = [todo EXCEPT ![r] = <<>>]
    /\ dirty' = [dirty EXCEPT ![r] = [k \in Key |-> Untouched]]
    /\ drafts' = [drafts EXCEPT ![r] = {}]
    /\ hold' = [hold EXCEPT ![r] = "none"]
    /\ UNCHANGED <<input, owner>>

\* Fault: the transaction of a failed request stays open, with its locks.
AbortWithoutRollback(r, status) ==
    /\ pc' = [pc EXCEPT ![r] = "done"]
    /\ answer' = [answer EXCEPT ![r] = status]
    /\ UNCHANGED <<committed, input, owner, todo, dirty, drafts, hold, seen>>

\* Fault: every statement is a transaction of its own.
AbortKeepingStatements(r, status) ==
    /\ rows' = [k \in Key |-> IF dirty[r][k] # Untouched THEN dirty[r][k] ELSE rows[k]]
    /\ events' = events \cup drafts[r]
    /\ Finish(r, status)
    /\ UNCHANGED <<account, born, sessions, used, sequence, seen>>

\* Rolled back: the deferred Rollback of every transaction.
Abort(r, status) == Finish(r, status) /\ UNCHANGED <<committed, seen>>

\* How the handler answers an error of the service; a login without an identity
\* token is one of development.
Failure(r) ==
    CASE input[r].kind = "login" /\ input[r].credential # None -> 401
      [] input[r].kind = "snapshot" -> 503
      [] OTHER -> 500

\* A request arrives: a login, or one whose token names a session.
Begin(r) ==
    /\ pc[r] = "idle"
    /\ \/ \E b \in Batch, c \in Credential \cup {None} :
             /\ input' = [input EXCEPT ![r] = Ask("login", b, c, None)]
             /\ todo' = [todo EXCEPT ![r] = b]
             /\ pc' = [pc EXCEPT ![r] = "user"]
             /\ UNCHANGED <<owner, seen>>
       \/ \E t \in Token :
             /\ sessions[t] # 0
             /\ owner' = [owner EXCEPT ![r] = sessions[t]]
             /\ \/ \E c \in Changes :
                      /\ input' = [input EXCEPT ![r] = Ask("change", <<c>>, None, None)]
                      /\ todo' = [todo EXCEPT ![r] = <<c>>]
                      /\ pc' = [pc EXCEPT ![r] = "write"]
                      /\ UNCHANGED seen
                \/ /\ input' = [input EXCEPT ![r] = Ask("snapshot", <<>>, None, None)]
                   /\ seen' = [seen EXCEPT ![r].from = rows]
                   /\ pc' = [pc EXCEPT ![r] = "bookmark"]
                   /\ UNCHANGED todo
                \/ /\ input' = [input EXCEPT ![r] = Ask("close", <<>>, None, None)]
                   /\ pc' = [pc EXCEPT ![r] = "lock"]
                   /\ UNCHANGED <<todo, seen>>
                \/ /\ input' = [input EXCEPT ![r] = Ask("logout", <<>>, None, t)]
                   /\ pc' = [pc EXCEPT ![r] = "logout"]
                   /\ UNCHANGED <<todo, seen>>
    /\ UNCHANGED <<committed, dirty, drafts, hold, answer>>

\* A token that names no live session is refused.
Refuse(r) ==
    /\ pc[r] = "idle"
    /\ \E t \in Token : sessions[t] = 0
    /\ Abort(r, 401)

\* After a session's expires_at it authenticates nothing any more.
Expire(t) ==
    /\ sessions[t] # 0
    /\ sessions' = [sessions EXCEPT ![t] = 0]
    /\ UNCHANGED <<account, born, used, rows, events, sequence, handler>>

-----------------------------------------------------------------------------
\* No other transaction locks r's row of users in one of these modes.
Free(r, modes) ==
    \A q \in Request \ {r} : hold[q] \in modes => owner[q] # owner[r]

\* Fault: no foreign key.
ReferencedUnchecked(r) == TRUE

\* The row of users r refers to exists: committed, or inserted by r.
Referenced(r) == account = owner[r] \/ hold[r] = "update"

AfterEvent(rest) == IF rest # <<>> THEN "write" ELSE "commit"

\* UpsertAppleUser serialises the logins of one person; RecordAppleIdentityTokenUse
\* refuses an identity token that a committed login has used.
SignIn(r) ==
    /\ pc[r] = "user"
    /\ \A q \in Request : hold[q] \notin {"update", "delete"}
    /\ LET c == input[r].credential
           id == IF account # 0 THEN account ELSE born + 1
       IN  IF c # None /\ used[c] # 0 THEN Abort(r, Failure(r))
           ELSE /\ born' = IF account # 0 THEN born ELSE id
                /\ owner' = [owner EXCEPT ![r] = id]
                /\ hold' = [hold EXCEPT ![r] = "update"]
                /\ pc' = [pc EXCEPT ![r] = AfterEvent(todo[r])]
                /\ UNCHANGED <<account, sessions, used, rows, events, sequence,
                               input, todo, dirty, drafts, seen, answer>>

\* The row of k as r's statements see it: r's own, or the committed one of its user.
View(r, k) ==
    IF dirty[r][k] # Untouched THEN dirty[r][k]
    ELSE IF rows[k].owner = owner[r] THEN rows[k] ELSE Absent

\* Fault: rows are read and written back without a lock.
LockedNever(r, k) == FALSE

Locked(r, k) ==
    \E q \in Request \ {r} : owner[q] = owner[r] /\ dirty[q][k] # Untouched

\* Another transaction is inserting or deleting a vocabulary entry of this id.
IdInFlight(r, i) ==
    \E q \in Request \ {r}, k \in Vocabulary :
        /\ dirty[q][k] # Untouched
        /\ dirty[q][k].id # rows[k].id
        /\ i \in {dirty[q][k].id, rows[k].id}

IdTaken(r, k, i) == \E j \in Vocabulary \ {k} : View(r, j).id = i

\* Fault: the row takes every write.
StampedAlways(r, c, old) == [old EXCEPT !.at = c.at, !.value = r]

\* A write replaces the one before unless that one has a later client clock.
Stamped(r, c, old) ==
    IF old.at <= c.at THEN [old EXCEPT !.at = c.at, !.value = r] ELSE old

Inserted(r, c, old) ==
    IF old = Absent THEN [Absent EXCEPT !.owner = owner[r], !.id = c.id] ELSE old

\* What the upsert of each table leaves of the row old.  A word keeps the id it was
\* first saved under, and a word or a recording keeps its review.
UpsertBookmark(r, c, old) == [Inserted(r, c, old) EXCEPT !.value = r]
UpsertGrammarAttempt(r, c, old) == [Inserted(r, c, old) EXCEPT !.value = r]
UpsertProgress(r, c, old) == Stamped(r, c, Inserted(r, c, old))
UpsertRetellAttempt(r, c, old) == Inserted(r, c, old)
UpsertVocabularyEntry(r, c, old) == Inserted(r, c, old)

UpdateRetellReview(r, c, row) == Stamped(r, c, row)
UpdateVocabularyReview(r, c, row) == Stamped(r, c, row)

\* A word is upserted, and then reviewed if the request brings a review.
PutWord(r, c, old) ==
    LET row == UpsertVocabularyEntry(r, c, old)
    IN  IF c.at = 0 THEN row ELSE UpdateVocabularyReview(r, c, row)

\* A put of each kind.
PutRow(r, c, old) ==
    CASE c.key \in Bookmark -> UpsertBookmark(r, c, old)
      [] c.key \in Progress -> UpsertProgress(r, c, old)
      [] c.key \in Grammar -> UpsertGrammarAttempt(r, c, old)
      [] c.key \in Retell -> UpsertRetellAttempt(r, c, old)
      [] c.key \in Vocabulary -> PutWord(r, c, old)

\* A review of each kind.
ReviewRow(r, k, c, row) ==
    IF k \in Retell THEN UpdateRetellReview(r, c, row) ELSE UpdateVocabularyReview(r, c, row)

Write(r, k, row) ==
    /\ dirty' = [dirty EXCEPT ![r][k] = row]
    /\ pc' = [pc EXCEPT ![r] = IF k \in Retell THEN "commit" ELSE "event"]
    /\ UNCHANGED <<committed, input, owner, todo, drafts, seen, answer>>

\* An upsert waits for the row, and when it inserts, for the id and the row of
\* users.  The review of a word is checked after the word has been upserted.
PutChange(r) ==
    LET c == Head(todo[r])
        old == View(r, c.key)
    IN  /\ pc[r] = "write"
        /\ c.do = "put"
        /\ ~Locked(r, c.key)
        /\ old = Absent => Free(r, {"delete"}) /\ (c.id = None \/ ~IdInFlight(r, c.id))
        /\ IF \/ old = Absent /\ ~Referenced(r)
              \/ old = Absent /\ c.id # None /\ IdTaken(r, c.key, c.id)
              \/ ~c.sound
           THEN Abort(r, Failure(r))
           ELSE /\ Write(r, c.key, PutRow(r, c, old))
                /\ hold' = [hold EXCEPT ![r] =
                               IF old = Absent /\ @ = "none" THEN "share" ELSE @]

\* The rows an UPDATE or DELETE of change c finds: it does not see what another
\* transaction has inserted and not committed.
Found(r, c) ==
    {k \in IF c.key = None THEN Vocabulary ELSE {c.key} :
        /\ View(r, k) # Absent
        /\ c.key = None => View(r, k).id = c.id}

ReviewChange(r) ==
    LET c == Head(todo[r])
    IN  /\ pc[r] = "write"
        /\ c.do = "review"
        /\ \A k \in Found(r, c) : ~Locked(r, k)
        /\ IF Found(r, c) = {} THEN Abort(r, 404)
           ELSE \E k \in Found(r, c) :
                    Write(r, k, ReviewRow(r, k, c, View(r, k))) /\ UNCHANGED hold

\* A deletion of nothing is a deletion all the same: its event follows.
RemoveChange(r) ==
    LET c == Head(todo[r])
    IN  /\ pc[r] = "write"
        /\ c.do = "remove"
        /\ \A k \in Found(r, c) : ~Locked(r, k)
        /\ UNCHANGED hold
        /\ IF Found(r, c) # {}
           THEN \E k \in Found(r, c) : Write(r, k, Absent)
           ELSE /\ pc' = [pc EXCEPT ![r] = "event"]
                /\ UNCHANGED <<committed, input, owner, todo, dirty, drafts, seen, answer>>

\* Fault: the event names the id the client chose.
EntityAsSent(r, c) ==
    IF c.key = None \/ c.key \in Vocabulary THEN <<"entry", c.id>> ELSE c.key

\* What the event of change c is about: a word is named by the id of its row.
Entity(r, c) ==
    IF c.key = None THEN <<"entry", c.id>>
    ELSE IF c.key \in Vocabulary THEN <<"entry", dirty[r][c.key].id>>
    ELSE c.key

\* CreateUserEvent draws its number while r holds the lock on the row it wrote,
\* and needs the row of users.
AddEvent(r) ==
    LET c == Head(todo[r])
    IN  /\ pc[r] = "event"
        /\ Free(r, {"delete"})
        /\ IF ~Referenced(r) THEN Abort(r, Failure(r))
           ELSE /\ sequence' = sequence + 1
                /\ drafts' = [drafts EXCEPT ![r] = @ \cup
                      {[sequence |-> sequence', owner |-> owner[r], entity |-> Entity(r, c),
                        operation |-> IF c.do = "remove" THEN "delete" ELSE "upsert",
                        by |-> r]}]
                /\ hold' = [hold EXCEPT ![r] = IF @ = "none" THEN "share" ELSE @]
                /\ todo' = [todo EXCEPT ![r] = Tail(@)]
                /\ pc' = [pc EXCEPT ![r] = AfterEvent(Tail(todo[r]))]
                /\ UNCHANGED <<account, born, sessions, used, rows, events,
                               input, owner, dirty, seen, answer>>

\* Commit, for a login after CreateSession.  The answer may be lost.
Commit(r) ==
    /\ pc[r] = "commit"
    /\ rows' = [k \in Key |-> IF dirty[r][k] # Untouched THEN dirty[r][k] ELSE rows[k]]
    /\ events' = events \cup drafts[r]
    /\ IF input[r].kind = "login"
       THEN /\ account' = owner[r]
            /\ sessions' = [sessions EXCEPT ![r] = owner[r]]
            /\ used' = [c \in Credential |->
                           IF c = input[r].credential THEN owner[r] ELSE used[c]]
       ELSE UNCHANGED <<account, sessions, used>>
    /\ \E status \in {200, Failure(r)} : Finish(r, status)
    /\ UNCHANGED <<born, sequence, seen>>

-----------------------------------------------------------------------------
\* DELETE FROM users: the row of users first, then by cascade every row that
\* refers to it, each as soon as no other transaction locks it.
LockAccount(r) ==
    /\ pc[r] = "lock"
    /\ IF account # owner[r] THEN Abort(r, 200)
       ELSE /\ Free(r, {"share", "update", "delete"})
            /\ hold' = [hold EXCEPT ![r] = "delete"]
            /\ pc' = [pc EXCEPT ![r] = "cascade"]
            /\ UNCHANGED <<committed, input, owner, todo, dirty, drafts, seen, answer>>

Cascade(r) ==
    /\ pc[r] = "cascade"
    /\ \A k \in Key : ~Locked(r, k)
    /\ account' = 0
    /\ rows' = [k \in Key |-> Absent]
    /\ events' = {}
    /\ sessions' = [t \in Token |-> IF sessions[t] = owner[r] THEN 0 ELSE sessions[t]]
    /\ used' = [c \in Credential |-> IF used[c] = owner[r] THEN 0 ELSE used[c]]
    /\ \E status \in {200, 500} : Finish(r, status)
    /\ UNCHANGED <<born, sequence, seen>>

\* PostgreSQL aborts one of two transactions that wait for each other: a deletion
\* of the account that waits for a written row, and the writer of that row that
\* waits for the row of users.
Deadlocked(r) ==
    \E q \in Request \ {r} :
        /\ owner[q] = owner[r]
        /\ {pc[q], pc[r]} = {"event", "cascade"}
        /\ \E k \in Key : dirty[q][k] # Untouched \/ dirty[r][k] # Untouched

Victim(r) == Deadlocked(r) /\ Abort(r, 500)

\* A statement fails: the connection, the request's context, the server.
Fail(r) == pc[r] \notin {"idle", "done"} /\ Abort(r, Failure(r))

\* Logout deletes the session of the token it came with.
Logout(r) ==
    /\ pc[r] = "logout"
    /\ sessions' = [sessions EXCEPT ![input[r].token] = 0]
    /\ \E status \in {200, 500} : Finish(r, status)
    /\ UNCHANGED <<account, born, used, rows, events, sequence, seen>>

-----------------------------------------------------------------------------
\* GET /me lists four tables with four queries, outside any transaction; contents
\* stay published here, so the join of ListBookmarks drops no row.  The first query
\* that fails ends the request.
Listed(r, table) == [k \in Key |-> IF k \in table THEN View(r, k) ELSE seen[r].read[k]]

\* Fault: a query that fails counts as one that finds nothing.
ListThenLeniently(r, at, table, next) ==
    /\ pc[r] = at
    /\ \E read \in {Listed(r, table),
                   [k \in Key |-> IF k \in table THEN Absent ELSE seen[r].read[k]]} :
           seen' = [seen EXCEPT ![r].read = read]
    /\ IF next = "done" THEN Finish(r, 200)
       ELSE /\ pc' = [pc EXCEPT ![r] = next]
            /\ UNCHANGED <<input, owner, todo, dirty, drafts, hold, answer>>
    /\ UNCHANGED committed

ListThen(r, at, table, next) ==
    /\ pc[r] = at
    /\ seen' = [seen EXCEPT ![r].read = Listed(r, table)]
    /\ IF next = "done" THEN Finish(r, 200)
       ELSE /\ pc' = [pc EXCEPT ![r] = next]
            /\ UNCHANGED <<input, owner, todo, dirty, drafts, hold, answer>>
    /\ UNCHANGED committed

ListBookmarks(r) == ListThen(r, "bookmark", Bookmark, "progress")
ListProgress(r) == ListThen(r, "progress", Progress, "vocabulary")
ListVocabularyEntries(r) == ListThen(r, "vocabulary", Vocabulary, "grammar")
ListGrammarAttempts(r) == ListThen(r, "grammar", Grammar, "done")

\* The steps of a handler once its request has begun.
Handler(r) ==
    \/ SignIn(r) \/ PutChange(r) \/ ReviewChange(r) \/ RemoveChange(r)
    \/ AddEvent(r) \/ Commit(r) \/ LockAccount(r) \/ Cascade(r)
    \/ Logout(r) \/ Victim(r)
    \/ ListBookmarks(r) \/ ListProgress(r) \/ ListVocabularyEntries(r)
    \/ ListGrammarAttempts(r)

Next ==
    \/ \E r \in Request : Begin(r) \/ Refuse(r) \/ Handler(r) \/ Fail(r)
    \/ \E t \in Token : Expire(t)

Spec == Init /\ [][Next]_vars

\* A handler runs on and PostgreSQL resolves deadlocks; requests come or not.
FairSpec == Spec /\ \A r \in Request : WF_vars(Handler(r))

-----------------------------------------------------------------------------
\* Every variable has its type; a transaction that ended locks nothing.
TypeOK ==
    /\ account \in Nat /\ born \in Nat /\ sequence \in Nat
    /\ sessions \in [Token -> Nat]
    /\ used \in [Credential -> Nat]
    /\ rows \in [Key -> Row]
    /\ events \subseteq Event
    /\ owner \in [Request -> Nat]
    /\ dirty \in [Request -> [Key -> Row \cup {Untouched}]]
    /\ drafts \in [Request -> SUBSET Event]
    /\ hold \in [Request -> {"none", "share", "update", "delete"}]
    /\ \A r \in Request : pc[r] \in {"idle", "done"} =>
           hold[r] = "none" /\ drafts[r] = {} /\ \A k \in Key : dirty[r][k] = Untouched

\* Nothing of a closed account stays behind, whatever requests of it were under
\* way when it was closed: no learning data, no event, no session and no used
\* identity token belongs to a user that no longer exists.
NothingOutlivesTheAccount ==
    /\ \A k \in Key : rows[k] # Absent => rows[k].owner = account
    /\ \A e \in events : e.owner = account
    /\ \A t \in Token : sessions[t] \in {0, account}
    /\ \A c \in Credential : used[c] \in {0, account}

\* Progress that a device was told is saved is never replaced by older progress
\* of another device (docs/development-status.md: the rule on client times keeps
\* old progress from overwriting new progress).
AcknowledgedProgressHolds ==
    \A r \in Request : answer[r] = 200 /\ owner[r] = account =>
        \A i \in DOMAIN input[r].batch :
            LET c == input[r].batch[i]
            IN  c.key \in Progress => rows[c.key].at >= c.at

Exists(entity) ==
    IF entity[1] = "entry" THEN \E k \in Vocabulary : rows[k].id = entity[2]
    ELSE rows[entity] # Absent

\* The last event of an entity, by its number, is no upsert unless the entity is
\* there: the numbers follow the order in which the writers of a row committed.
UpsertsTellTheState ==
    \A e \in events :
        /\ e.operation = "upsert"
        /\ \A f \in events : f.entity = e.entity => f.sequence <= e.sequence
        => Exists(e.entity)

\* The data of an anonymous device is taken over as a whole or not at all: a login
\* that fails half way leaves none of it, one that is answered has all of it.
MigrationIsWhole ==
    \A r \in Request : input[r].kind = "login" =>
        LET migrated == {e \in events : e.by = r}
        IN  /\ migrated # {} => Cardinality(migrated) = Len(input[r].batch)
            /\ answer[r] = 200 /\ owner[r] = account =>
                   Cardinality(migrated) = Len(input[r].batch)

\* GET /me never passes off an incomplete account for the whole: a 200 lists all
\* four tables, and progress at least as new as when the request arrived, unless
\* the account was closed (docs/release-operations.md).
SnapshotIsCurrent ==
    \A r \in Request :
        input[r].kind = "snapshot" /\ answer[r] = 200 /\ owner[r] = account =>
            /\ \A k \in Key \ Retell : seen[r].read[k] # Untouched
            /\ \A k \in Progress : seen[r].read[k].at >= seen[r].from[k].at

\* A row as the register of its value, which every device may write.
NoValue == [at |-> -1, value |-> None]
Latest == [k \in Key |-> IF rows[k] = Absent THEN NoValue
                         ELSE [at |-> rows[k].at, value |-> rows[k].value]]

Registers == INSTANCE LastWriterWins WITH
    Entry <- Key,
    Erasable <- Bookmark \cup Vocabulary,
    Stamp <- [at : Clock \cup {0}, value : Writer],
    Empty <- NoValue,
    register <- Latest

\* The tables are last-writer-wins registers under the clocks of the clients: the
\* transactions of all devices together never leave anything else behind.
ImplementsRegisters == Registers!Spec

\* No request waits for ever, although a closing account and a writer can wait
\* for each other.
EveryRequestIsAnswered ==
    \A r \in Request : pc[r] # "idle" ~> pc[r] = "done"
=============================================================================

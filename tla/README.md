# A verification development of EL-backend

EL-backend serves an English-learning app: it collects VOA articles, takes
finished lessons from a CMS, serves a public catalogue that clients synchronise
incrementally, and keeps the learning data of people who sign in with Apple.
This directory holds TLA+ models of the parts where concurrency, partial failure
and ordering decide whether the program is right, the TLC runs that check them,
and proofs of the most important ones. Paths below are relative to the
repository; `service.go` alone means `internal/publishing/service.go`.

## 1. Inventory

| Part | State it keeps | Operations | Talks to |
|---|---|---|---|
| CMS publication (`internal/publishing`, `httpapi/publishing.go`) | `contents`, `assets`, `cms_publications`, `publish_events`, public bucket | `POST /internal/v1/publications` | PostgreSQL, object store |
| Moderation (`cmd/admin`) | `contents.status`, `publish_events` | `publish`, `hide`, `list-review` | PostgreSQL |
| Catalogue feed (`httpapi/public.go` `sync`) | none; the cursor is the client's | `GET /sync` | reads what the two parts above and the worker write |
| Public catalogue (`httpapi/public.go`) | none; cursor and ETag are the client's | lists with a keyset cursor, search, categories, series, detail, media proxy | PostgreSQL, object store, VOA |
| Recommendations (`httpapi/recommendations.go`) | none | `GET /me/home` ranks what the catalogue lists by what the person has learnt | PostgreSQL |
| Article collection (`internal/ingestion`, `cmd/worker`, `cmd/ingest`) | `source_items`, `source_snapshots`, `contents`, archive bucket, Asynq's queue and locks | discover a sitemap, process an item, ingest by hand | VOA, Redis, PostgreSQL, object store |
| Retell recordings (`httpapi/retell.go`) | `retell_attempts`, private bucket | upload, read, review, delete | PostgreSQL, object store |
| Account deletion (`httpapi/identity.go` `DELETE /me`) | everything of a user | list and purge recordings, delete the user | both stores; a foreign key (`ON DELETE SET NULL`) hands the Apple token over |
| Apple credentials (`identity/apple_credentials.go`, `apple_oauth.go`) | `apple_credentials` (table and queue) | store at login, revoke in the background in every replica | Apple, PostgreSQL |
| Login and sessions (`identity/service.go`, `apple.go`) | `users`, `sessions`, used identity tokens, Apple's key set | login with migration of anonymous data, logout, authentication | Apple, PostgreSQL |
| Learning data (`identity/service.go`, `vocabulary.go`, `httpapi/vocabulary.go`, `grammar.go`) | progress, bookmarks, vocabulary, grammar attempts, `user_events` | upserts by client time, deletions, `GET /me`, `GET /me/sync` | PostgreSQL |
| Dictionary, information, support | reads; one insert of a support request | look-ups | PostgreSQL |
| Rate limiter (`httpapi/ratelimit.go`) | a table of token buckets under one lock | every request | - |
| Configuration, router, health, migrations, generated queries, deployment | - | - | - |

Hard behaviours, and what must hold in spite of them:

- **Publication.** Requests with one idempotency key overlap and are retried
  after lost acknowledgements; requests for one content, and the operator, bump
  one revision concurrently; the audio goes to a store that is in no transaction.
  Every key must publish once and answer alike, every revision must have exactly
  one event, in order, and every committed row must have its audio.
- **Feed.** Event numbers are drawn before commits, pages are cut at a limit, and
  past events are filtered by today's status. A client must not go back, must not
  lose what a page cuts off, and should end with what is published.
- **Recordings and account deletion.** Two stores, no transaction over both, calls
  that fail before or after taking effect, handlers cut off between calls,
  requests of several devices at a time.
- **Apple tokens.** All replicas work one table; a person may return while the old
  token is being revoked; tokens that can never be opened stay queued for ever.
- **Collection.** At-least-once tasks whose pipeline is a row of separate calls,
  discovery runs that overlap, a page that changes between fetches, an operator
  whose tasks take no lock.
- **Learning data.** Devices with their own clocks write concurrently, late and out
  of order; the newest client time must win. A login moves a whole device's data in
  one transaction of many statements. The account may be closed while requests
  authenticated before are under way, and both lock rows of the other.
- **Public catalogue.** A traversal, a detail, a series and the personal home are
  several queries with no transaction around them, while publications, recrawls
  and moderation change what is online, in which order, and at which revision.

Every hazard, with its line and the properties that would catch it, is listed in
`PROJECT.json`.

## 2. Modules

| Module | Models |
|---|---|
| `Publishing` | `Service.Publish` call by call, and the admin's publish and hide |
| `PublicationLedger` | abstract: a ledger that publishes in one atomic step |
| `PublishingProofs`, `LedgerProofs` | theorems about `Publishing`, and that it implements the ledger |
| `CatalogSync` | `Publishing` composed with clients of `GET /sync` |
| `Retell` | recordings of one user and the deletion of the account |
| `AppleCredentials` | login, deletion and the revocation workers |
| `Ingestion` | discovery, queue, pipeline, operator |
| `UserData` | everything one account writes and reads, login to `DELETE /me` |
| `LastWriterWins` | abstract: registers that obey the clocks of the clients |
| `Recommendations` | the sections of the personal home, as operators |
| `Catalogue` | the public lists and details and the personal home, beside writers |
| `CatalogSyncProofs`, `RetellProofs`, `AppleCredentialsProofs`, `IngestionProofs`, `UserDataProofs`, `CatalogueProofs` | theorems about these modules |
| `MC*` | instances for TLC: input sets and symmetry |

Definitions whose comment begins with *Fault:* are slips a programmer could make
at that place (a dropped guard, a swapped order). No specification uses them;
each is there to show which property notices when it replaces its neighbour.

### Publishing

`pc[r]` is where the goroutine of request `r` stands: `lookup` is the look-up
before any transaction (`Existing`), `audio` the upload (`PutAudio`, with the
integrity check after it), then the transaction: `Reserve` inserts the key into
`cms_publications` and waits while another transaction has it, `Relookup` is the
path of the request whose insert found the key taken, `WriteContent` upserts the
content and bumps its revision, `AppendEvent` draws an event number, `Commit`
makes it all visible. `Fail` is an error return anywhere, with its rollback; the
`...Unacknowledged` actions take effect and are reported as errors. An admin run
is a transaction of the same shape. PostgreSQL's READ COMMITTED is modelled as:
the committed tables `contents`, `publications`, `events`; what a transaction has
written in `draft`; `keyLock` and `rowLock` for the rows it has written, which
others must wait for; `nextSequence`, which no rollback gives back. A content
stands for its source row, taxonomy and audio links, which are written under the
same row lock; the checks of `validate` are the choice of `Document`.

`PublicationLedger` has no calls, locks or drafts: publishing is one step that
bumps the revision, records the change and fills the receipt. The mapping takes
`req` for the requests asked, `publications` for the ledger, status and revision
of `contents` for the catalogue, and the events without their numbers for the
changes.

### CatalogSync

Extends `Publishing` with clients: `cursor`, `more` (hasMore) and `known`, the
last change applied to each content. `Sync(c)` is one request: the query of
`ListPublishEventsAfter` is a single statement, so it reads one snapshot; its
page, cursor and hasMore are computed as in the handler. How a client applies a
page is outside the repository and marked external. `Missed` says that a client's
cursor has passed the last change of a visible content without the client having it.

### Retell

`account`, `rows` and `objects` are the users row, the `retell_attempts` rows and
the private objects; an object's key is a function of the attempt. Every call of
a handler is a step with an `outcome`: acknowledged, unacknowledged (it took
effect, the caller sees an error) or refused. `Compensate` is the deletion after
a failed row write, whose result the code ignores; `Abandon` is a handler that
stops between calls. `AtOnce` bounds how many requests a user's devices keep open;
no property and no theorem depends on its value. Two variables that no handler reads
keep the past for the properties: `alone[c]` holds the attempts the open request `c`
has had to itself so far (a deletion does not disturb another deletion), and `doubtful` the attempts
whose last requests failed or came across each other. An upload or a deletion that
had its attempt to itself and succeeds settles it.

### AppleCredentials

`holder` and `detached` are the rows of `apple_credentials` with and without a
user; the deletion of an account moves a token from one to the other, as the
foreign key of migration 15 does (`ON DELETE SET NULL`). Each replica wakes every minute and works up to
`BatchSize` rows: `Claim` (FOR UPDATE SKIP LOCKED), `Revoke` at Apple, then
`DeleteRow` or `Reschedule` with the doubled delay. `wait` counts minutes.

### Ingestion

`BeginRun`, `Record`, `Enqueue`, `RunFails` are a discovery run; `Record` keeps in
`seen` what `UpsertSourceItem` returned, on which `Enqueue` later decides. `Fetch`
to `Settle` are the calls of `Pipeline.Process`; `FetchFails`, `ParseFails` and
`CallFails` are their errors, the last also an effect whose answer was lost or a
dead worker. A page is a number its publisher counts up (`Edit`); `Verified` and
`Broken` say how the parser takes it. Asynq is external: a free slot per task,
retries up to a limit, a payload lock that lasts until success or expiry. Child
sitemaps are discovery runs of their own; the several sitemaps that name one
article are several elements of `Discovery`.

### UserData

The committed tables are `account` (the row of `users`), `sessions`, `used` (the
replay table of identity tokens), `rows` (progress, vocabulary, bookmarks, grammar
attempts and recordings, by the key that is unique in each table) and `events`
(`user_events`). A request is a transaction: `pc[r]` is its next statement,
`todo[r]` what it still writes, `dirty[r]` the rows it has written and locks,
`drafts[r]` its events, `hold[r]` how it locks the row of `users`. `Begin` is the
authenticated arrival of a request; `SignIn` is `UpsertAppleUser` with
`RecordAppleIdentityTokenUse`; `PutChange`, `ReviewChange`, `RemoveChange` are one
statement group each of the endpoints, `AddEvent` is `CreateUserEvent`, `Commit`
the commit, for a login with `CreateSession`, whose answer may be lost. What each
table's upsert leaves of a row is an operator of its own (`UpsertProgress`,
`UpsertVocabularyEntry`, `UpdateVocabularyReview` and so on), named after its query.

READ COMMITTED is modelled by what makes the difference here. A statement sees what
is committed and what its own transaction wrote. A written row stays locked. An insert
waits for another transaction that inserts or deletes the same id, and locks the
row of `users` in share mode, because it refers to it; the login's upsert of that
row, and its deletion, lock it against their kind. An insert that finds no row of
`users` fails. `LockAccount` and `Cascade` are `DELETE FROM users`: the row first,
then by cascade all that refers to it. That order and the order of a writer (row,
then event) can close a circle; `Victim` is PostgreSQL's answer to it.

`GET /me` is four queries (`ListBookmarks` to `ListGrammarAttempts`) outside any
transaction. `seen` keeps what it read and, for the property only, what was there
when it began. A row holds its owner, the id of a word, a client clock `at`, and the
request whose value it holds: texts, positions and scores are not told apart
otherwise.

`LastWriterWins` knows neither requests nor locks: a transaction changes any
registers at once, each by writes whose clock is not behind, or by emptying one that
may be emptied; closing the account empties all. The mapping (`Latest`) takes a row to
its clock and value, and no row to an empty register. What a login can have migrated
before (`Migrated`) is every entity once: a second row of one entity would have been
merged into the first.

### Catalogue and Recommendations

`contents[i]` is a row with all that is linked to it. A writer is a transaction of
the CMS or the worker that fixes PostgreSQL's `now()` when it begins (`Begin`) and
writes when it commits (`Republished`, `Recrawled`), so that `released_at` can lie
before that of a transaction which began later and committed earlier; the
operator's `Moderate` is a single step. One device sends requests: `Traverse` and `NextPage` follow the cursor of `GET /contents`;
`Home`, `CategoryContents`, `Search` are single queries; `OpenContent` and
`ReadAssets` are the two queries of a detail with its `If-None-Match`; `OpenSeries`
and `ReadItems` those of a series; `OpenHome`, `ReadProgress`, `ReadGrammar`,
`ReadWords` the four of the personal home, with `Learn`, `Practise` and `SaveWord` as
the other devices of the person. An error of the first query of a detail or of a series is
answered as an absence (404), one of the query for the assets as an empty list, any other
as 500 (`Fail`, `FailFirst`). `shown`, `steady`, `sunk` and `finished` record what the
properties compare an answer with, and no action reads them; `copy` is
the device's cached detail.

`Recommendations` is `personalizedHomeSections`: which lessons to continue, the
preferred level, found in a loop over a Go map (the order is a parameter; `Better` is
the loop's comparison), the score and reason of each candidate, the sort. Scores are
whole numbers as in the code. Wherever the program or SQL sorts, `Sorted` puts each
member of a set behind those that come before it, and `FirstOf` cuts at the limit.
`learning_progress` is a set of rows, one for each content, with the server time that
`ListProgress` sorts by.

## 3. Runs

All passing runs explore their whole state space.

| Run | Bounds | Question and result |
|---|---|---|
| `Publishing` | 3 requests, 1 admin run, 2 keys, 2 contents, 2 digests | Are answers idempotent, is the log complete, ordered and true, is the audio of every row stored, and does it all implement the ledger? Yes. |
| `Sync` | 2 requests, 2 admin runs, 2 contents, page of 2, fair | Does a client never go back, lose nothing at a cut, miss only what commits after its cursor has passed, have the newest change once publishing rests, and is every request answered? Yes. |
| `SyncOverlap` | 2 requests, 2 contents | Is a change the cursor has passed known? **No** (section 4). |
| `SyncTombstone` | 2 requests, 1 admin run | Is a hidden content dropped by clients past its event? **No.** |
| `Retell` | 3 requests, 2 open at a time, 2 attempts, 2 recordings, 2 failing calls, fair | Do row and object of an attempt agree unless its last requests failed or met, is an acknowledged upload in both unless another request came across it, does no row go before its object however deletions overlap, does a repeated account deletion end? Yes. |
| `RetellOrphan` | 2 requests at once | Does account deletion clear every recording? **No.** |
| `RetellRepeatedUpload` | 2 uploads, 1 failing call | Does an acknowledged recording survive its repeated upload? **No.** |
| `AppleCredentials` | 2 people, 3 tokens of which 2 cannot be opened, 2 replicas, 1 row per batch, 2 outages, fair | Are claims exclusive, are live tokens kept, do only revoked ones leave, do all that can be revoked get revoked? Yes. |
| `Ingestion` | 1 article, 3 pages (one broken, one unverified), 2 sitemaps that name it, their runs side by side, 1 command of the operator (an unlocked task or a moderation), 1 failing call, fair | Is every revision archived and replayable, does settled mean taken, does a content never go back while only discovery enqueues, is every discovered article at some time archived or marked failed? Yes. |
| `IngestionRedelivery` | 1 article, 1 failing call | Does processing a page again add no revision? **No.** |
| `UserData` | 2 requests of any kind after an earlier login, 1 content, 2 words, 2 ids, 1 attempt, 1 recording, 1 identity token, 2 client clocks, 3 batches to migrate, fair | Does progress that was acknowledged hold, does a closed account leave nothing behind, is a migration whole, do the events tell the state, does `GET /me` not pass off a part for the whole, are the tables last-writer-wins registers, is every request answered? Yes. |
| `Catalogue` | 3 contents of which 1 in a series, 2 writers, pages and lists of 2, home of 3 candidates and 1 per section, clock to 2, 1 change of the learning data, fair | Are pages stable, is a 304 right, is nothing shown that was withdrawn before the request began, is the personal home sound, does a traversal end? Yes. |

Why the bounds suffice: the conflicts are between two transactions on one row or
one key, plus one that comes after (hence three requests over two keys and two
contents); a page limit of two with up to four events cuts pages with something
left; three requests for recordings reach an upload, a request that comes across it and a
third that settles what they left, with a failure in each of two; two unopenable rows equal what two replicas
take per minute, so that without the backoff they would starve the third; the
pages of an article must hold a broken and two usable ones for a content to go
back, and two discovery runs are what it takes to read an item's state twice before
either enqueues it. `MaxAge` cuts off how long a row is overdue, which only matters for which
row is oldest; `MaxShift` stands for the exponent 10. Whatever goes wrong
between transactions of one account goes wrong between two of them, over what a
third, the earlier login, has left; two words and two ids are what a word saved by
two devices and an id used twice need; two clocks are a stale and a fresh one. A
traversal of three contents by two has a page that is full and one that is not, and
two writers can commit in the opposite order of their `now()`. Runs of `Publishing`,
`CatalogSync`, `Retell`, `UserData` and `Catalogue` turn the deadlock check off
because requests may all be answered; `Ingestion` and `AppleCredentials` never stop
and keep it on. Symmetry is used in runs without liveness only. The type invariants
of `Retell` and `Ingestion` are stated in their modules; their runs check deeper
properties only.

Fairness and its justification:

- `Publishing!FairSpec`, `SyncFairSpec`: weak fairness of each handler and each
  started admin run, since a goroutine is scheduled and every call returns, with an
  error at worst; a client asks again each time the app comes to the foreground.
  Nobody is obliged to submit.
- `Retell!FairSpec`: weak fairness of a handler's calls and of a client's retry of
  a failed deletion; failures are bounded by `MaxFaults`.
- `AppleCredentials!FairSpec`: the minutes pass and the workers work; Apple and the
  database fail finitely often.
- `Ingestion!FairSpec`: runs repeat (the scheduler), handlers go on, locks expire
  (their TTL); starting a task is strongly fair because the queue is first in,
  first out while slots come and go.
- `UserData!FairSpec`: weak fairness of each request's statements: the goroutine runs
  on, locks are granted when they are free, and PostgreSQL resolves deadlocks.
  Nobody is obliged to send a request, and no failure is obliged to happen.
- `Catalogue!FairSpec`: a device that pages asks for the next page at some time.
  Writers and the clock owe nothing; they are bounded, as is the list.

## 4. Where code and documents disagree

- **SyncOverlap**: `publish_events.sequence` is called the monotonic cursor
  (`docs/data-model.md:59`), but two publications can commit in the opposite order
  of their numbers, and a client that reads in between never learns of the later.
- **SyncTombstone**: tombstones shall tell clients to drop an entry
  (`docs/architecture.md:87`), but the feed's query only returns events of contents
  that are published now.
- **RetellOrphan**: account deletion shall clear private recordings
  (`docs/release-operations.md:9`); an upload between listing and deletion leaves
  its object.
- **RetellRepeatedUpload**: the upload is an idempotent update
  (`docs/api-v1.md:39`); when the repetition fails at the row, its compensation
  deletes the acknowledged recording.
- **IngestionRedelivery**: repeated execution shall add no revision
  (`docs/ingestion.md:76`); every normalisation does.

Met while modelling, kept in the models as the code has it, and without a run of
their own because no document, or only a vague one, says otherwise:

- The public list is keyed by `released_at`, which a publication sets anew. A content
  published again between two pages moves in front of the cursor and is not shown by
  this traversal; one published by a transaction that began before the last to
  publish it moves back, and may be shown twice. `docs/architecture.md:110` speaks of a stable list;
  `ListsAreStable` states what of it holds: contents that stay are shown once, and
  only those that sink can be shown twice.
- A detail whose query for the assets fails is answered without them, and under
  the same ETag as the complete one (`internal/httpapi/public.go:145`); the copy is
  confirmed by 304 until the revision changes.
- A series that loses its last content between the two queries is answered empty, not
  as missing.
- A review that is not sound answers 400 on its own, and 500 when it comes with the
  word (`internal/httpapi/vocabulary.go`); `api/openapi.yaml` lists no 500 there.
- The event of a word may be a deletion of an id no row ever had: deleting nothing
  succeeds and is announced.

## 5. Proofs

Every safety invariant, action property and refinement that a passing run checks is
also a theorem, for every value of the constants and not only for the instance of the
run. What the theorems assume are the named assumptions of the modules they are about
(the table lists them, TLC evaluates them on the instances).

| Module | Theorems | Assumes |
|---|---|---|
| `PublishingProofs` | `TypeCorrect`, `AnswersAreIdempotent`, `ReservationIsNeverLost` (the error for a lost reservation is unreachable), `ReceiptsStay`, `LogIsComplete`, `LogIsOrdered`, `LogTellsStatus`, `AudioStays` | documents are records over the constant sets, requests and admin runs are distinct, None is no other value |
| `LedgerProofs` | `LedgerIsImplemented`: `Spec => ImplementsLedger` | the same |
| `CatalogSyncProofs` | `ClientsNeverGoBack`, `PagesAreComplete`, `LateCommitsAlone` | the same, and a page has a row |
| `RetellProofs` | `RetellTypes`, `StoresStayAgreed`, `RowsGoLast`, `UploadsAreStored` | handlers are finite many, None is no recording |
| `AppleCredentialsProofs` | `CredentialTypes`, `ClaimsExclude`, `SignedInStay`, `QueueKeepsWhatIsOwed` | None is no token or person, limits are numbers |
| `IngestionProofs` | `RevisionsReplay`, `FetchedItemsAreTaken`, `ContentsNeverGoBack` | pages are numbers, there is an article |
| `UserDataProofs` | `AccountTypes`, `ClosedAccountsAreGone`, `ProgressHolds`, `MigrationsAreWhole`, `SnapshotsAreCurrent`, `UpsertsAreTold`, `RegistersAreImplemented` | clocks are positive, a batch holds changes that save, None is no key, id or identity token, the earlier login is no request |
| `CatalogueProofs` | `ListsStayStable`, `CopiesStayFaithful`, `NothingOfflineIsShown`, `HomesAreSound` | contents are finite many numbers, page limits positive, the shelf, the documents and the history of their types, None is no content and no cursor |

Few of these properties are inductive as they stand. What each proof adds, and why:

- **Publishing** (`IInv`). That event numbers follow revisions needs to know that a
  number drawn but not committed is larger than every committed number of the same
  content, which holds because the drawer has held the row's lock since before it drew.
  So `IInv` adds who holds which lock at which step (`KeyInv`, `RowInv`), what a draft
  says about the committed row (`RowInv`), where the drawn numbers lie (`SequenceInv`),
  how log and rows correspond (`LogInv`), and what answers say about the ledger
  (`AnswerInv`). `AudioStays` needs a second invariant, `AudioInv`: every request past
  its upload and every draft names a stored object, and the store only gains objects.
- **Ledger.** Under `IInv` and `MappingInv` (a request not submitted has no document,
  an admin run works on a content that exists) each commit is one step of the ledger,
  and each other step a stutter: the lock on the row makes the draft one revision ahead
  of the committed row, and the lock on the key leaves its receipt empty.
- **Feed** (`SyncInv`). To `IInv` it adds that no number is drawn twice (`DrawnInv`),
  from which a page cut by number splits the log, and what a client knows agrees with
  committed revisions (`KnownInv`). It does not say that a client knows what its cursor
  has passed: `SyncOverlap` shows that to be false. `LateCommitsAlone` says how it comes
  to that, step by step: a page that takes the cursor past the last change of a visible
  content holds it (`PageMissesNothing`), since the filter by status lets every event of
  a visible content through and the cut is by number; and a writer makes a client
  miss a change only by committing a number the cursor has passed (`WriterMisses`), since
  a content becomes visible with an event that is its last.
- **Recordings** (`ApartInv`). Nothing serialises the requests of a user, so the theorems
  speak of one attempt and of the requests that touch it. Two requests have an attempt
  in common to themselves only if both delete (`AloneInv`); what a request has found
  and what it has still to do then fixes how row and object of the attempt differ at each
  of its calls (`StageOn`); and they agree when none of its requests is open and the last
  ones did not fail or meet (`AgreeOn`). What is lost when an upload does meet a
  deletion, `RetellOrphan` shows.
- **Apple tokens** (`CredentialInv`). A worker holds its row from `Claim` to the end of
  its transaction and only deletes it after Apple's answer (`WorkerInv`); a token is
  held by one account, and then neither queued nor revoked (`HolderInv`).
- **Collection** (`ArchiveInv`, `OrderedInv`). The first says what a task has left behind
  at each of its calls, by which a revision is always written after its page, its
  snapshot and the parse. The second holds while the operator has enqueued nothing:
  then an article has one task at a time (`QueueInv`, by the payload lock), and its page
  is not older than any revision (`OrderInv`).
- **Account** (`AccountInv`). For each request: the place it has reached and the lock it
  has on the row of `users` (`StageInv`), whose data it writes (`OwnerInv`), what is
  still to write (`TodoInv`), that its rows are not older than the committed ones and
  nobody else has written them (`DraftInv`). That a closed account leaves nothing rests
  on the share lock a writer holds on the row of `users`; that stale progress never wins,
  on the row lock between the comparison of clocks and the commit. Four theorems add an
  invariant of their own: `AckInv` (acknowledged progress), `MigrationInv` (a login has
  one event for each change written), `ReadInv` (what `GET /me` has read is still in the
  rows), and `EventInv` for the events: an id names one word, and the event of a deletion
  has a greater number than every upsert of the entity, because both numbers are drawn
  under the lock of its row. The refinement maps each commit to one `Transact` or `Close`
  of the registers.
- **Catalogue** (`CatalogueInv`). Its parts: the row read before the assets, and the copy, are the row
  of their revision (`CopyInv`); what may be shown was online since the request began
  (`ShownInv`); a content that stays was listed once if the cursor is past it and not
  yet if it is not (`PageInv`); the history as read holds what was finished (`HomeInv`).
  Lemmas about the operators carry most of the weight: a finite set in a strict order can
  be listed, and `Sorted` is that list (`ListExists`, `ListPlaces`); a page holds all
  that lies beyond its cursor unless it is full (`PageFacts`); the loop over the levels
  ends with the best of them, which is one, whatever the order (`PreferredIsBest`,
  `PreferredIsOne`). Where they need induction they take a least counterexample, among
  subsets or numbers.

Each `...Proofs` module has one lemma per conjunct of its invariant, with one step per
action or group of actions that touch the conjunct, and ends with the theorems.

Only model-checked: liveness (`EveryRequestIsAnswered` of both runs,
`NewestChangeArrives`, `AccountDeletionCompletes`, `DetachedTokensAreRevoked`,
`DiscoveredItemsAreAttempted`, `TraversalsEnd`), because the prover handles neither
fairness nor ENABLED, and the five violations of section 4, which are counterexamples.

## 6. Not modelled

- `GET /me/sync`: a page of `user_events` by a cursor, of the same shape as the feed of
  `CatalogSync`; its events are written in `UserData`, its reader is planned.
- The media proxy: streams one asset and keeps no state. It asks nothing of the
  content an asset belongs to, so the audio of a hidden one is still served.
- Apple's identity tokens: signature and claims are a library's work; the cache of
  Apple's keys is a value under one lock.
- The rate limiter: a table under one lock; what it bounds is real time.
- The dictionary's import and look-ups, information and support: parsing, reads,
  one insert.
- The formatting of goals, words and grammar points from a content's metadata; the
  parsing of HTML, XML and WordNet files.
- Configuration, router, health, generated query code beyond its SQL, deployment.
- The level stored in `page_type`, the series and taxonomy rows shared between
  contents, and slug collisions between a CMS content and a collected one; the
  hazards they bear are listed with notes.

Access control and transport security are not the subject of this development.

## 7. Plan

Order of the work still ahead, most important first:

1. `GET /me/sync` as clients of `UserData`, like those of `CatalogSync`.
2. The media proxy with its answers to a hidden content, Apple's key cache and the
   rate limiter's table, as small modules.
3. The shared taxonomy rows of publication and collection: lock order between
   documents, slugs and assets of two contents.

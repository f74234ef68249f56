# Jimpitan in TLA+

Jimpitan is the money box of an Indonesian neighbourhood (an RT). Officers walk a round of
houses and record what each paid, a treasurer reviews and validates the round, and a
validated round becomes income in the RT's cash ledger. Expenses pass an approval policy
before they are posted; notifications reach people through Telegram, and a Telegram bot takes
records of rounds and drafts of transactions. The program is a NestJS API over PostgreSQL
(Prisma), a worker that delivers notifications and renders exports, and a Next.js front end.
Source paths below are relative to `apps/api/src/modules` of the repository.

This directory specifies the parts of it where requests, processes, retries and crashes
interleave. TLC checks small instances; TLAPS proves most of the safety properties for
instances of any size.

## The system's parts

Every request of a tenant runs in the API against one PostgreSQL database; the only shared
state is its rows, the objects in the file storage, and the cookies of a browser. Handlers are
either READ COMMITTED (the default: each statement sees what is committed, an `updateMany` with
a status in its WHERE tests the locked row again) or SERIALIZABLE with a retry helper. Parts
call each other inside the API (the jimpitan module calls a finance hook after it validated a
collection, everything calls notifications) and through rows (`outbox_events`,
`report_exports`) that the worker polls.

| Part | State it keeps | Operations | What is hard | Specified in |
|---|---|---|---|---|
| Finance (`finance/`) | cash accounts with a version and a mirrored balance, categories, transactions, append-only ledger | account create / update / archive, draft, validate, reject, void, post, post a collection | posts racing on one account, replay by key, retries, crash, archiving meanwhile | `Finance`, `CashBook` |
| Expense approvals (`approvals/`) | policy setting, one approval row per approver and expense | set policy, request, approve, reject, cancel | a rejection or a new policy while the expense is being posted | `Approvals` |
| Jimpitan collections (`jimpitan/`) | sessions with status, mode and total; items per house | create, update, start, checklist, items, bulk total, submit, validate, reject, cancel | totals, modes and readiness decided on stale reads | `Collections` |
| Notifications (`notifications/`) | notification rows, outbox events | create (with replay by key), cancel, retry, record a result | an event announced twice; administration racing delivery | `Notices`, `Delivery` |
| Telegram outbox (`telegram/`) and worker (`worker/`) | claims in outbox events | recover stale claims, claim, send, complete, fail | overlapping passes, a crash after a send, starvation | `Delivery` |
| Report exports (`reports/`) | export rows with a status, files | request, build, claim, recover, retry, expire | API and worker building one row, unguarded updates | `Exports` |
| Reports (`reports/`) | none: queries over the ledger | cash flow report | queries that run beside one another and beside posts | `Reports` |
| Telegram bot (`telegram/`) | updates, the conversation of an account in a setting | webhook, conversations, commands | duplicate and overlapping deliveries, failure between two commits | `Bot` |
| Telegram bindings (`telegram/`, `residents/`) | codes in settings, binding rows | create, expire, verify a code; bind with a resident | two chats verifying at once | `Bindings` |
| Authentication (`auth/`, the web's route handlers) | refresh sessions, cookies | login, refresh, logout, expiry, the proxy's retry | rotation against logout, replay and concurrent refresh | `Sessions` |
| Users, RBAC, bootstrap (`users/`, `rbac/`, `bootstrap/`) | users, memberships, roles, permissions | create, update, disable, assign roles, grant, bootstrap | outdated principals; two replacements side by side | `Members` |
| Areas, houses, residents (`houses/`, `residents/`) | rows with a lifecycle, a derived occupancy | create, update, archive, reactivate, move | occupancy counted while others move | `Neighbourhood` |
| Content and reactions (`content/`) | posts with slugs, reactions with a mirrored count | create, publish, delete, react | slugs and counts computed from stale reads | `Content` |
| Attachments (`attachments/`) | image rows and stored objects | upload, replace a cover, remove | file and row are two writes, either may fail | `Attachments` |
| Ledger reads, tenants, settings, audit, configuration, health, HTTP pipeline, pages of the web | see `PROJECT.json` | reads, single-row writes, I/O | little | not modelled |

What makes the parts correct, in the terms of the modules:

- Finance: a transaction is POSTED exactly when one ledger row carries it; an account's rows
  are numbered without a gap and each starts from its predecessor's balance; the balance is
  never negative and is mirrored in the account; success answered to a client means posted.
- Approvals: what an approver rejected is never posted, what needed approval was approved.
- Collections: what is under review does not change, its total is what its mode says, a
  cancelled or validated session stays what it is.
- Delivery and notices: SENT and CANCELLED are final, PENDING always has an event behind it,
  claims end, pending messages are attempted, an event is announced once.
- Exports and reports: a finished export has its file, nobody takes up an expired one, a queued
  one is built; a report adds up, and one of a period that is over stays true.
- Bot: an update is acted on once, a conversation leaves one draft, a house is recorded once.
- Sessions: one refresh per hash wins, logout ends the session, revocation is final.
- Members: rights are only handed on by those who have them, a disabled member stays so.
- Houses, bindings, posts, images: what is derived or mirrored agrees with what it mirrors.

## The modules and how they correspond to the code

A handler that ends in one guarded update is one action. A handler that decides on what it read
in an earlier statement is a small machine: a record in memory (`req`, `job`, `request`,
`process`, `handler`) between its reads and its writes, so that anything may be committed in
between. A crash or a failed call ends such a machine half-way.

**Finance** (`finance/infrastructure/prisma-finance.repository.ts`). The variables are the
tables `accounts`, `categories`, `txns`, `ledger`, and what finance reads of others. A posting
request is `SendPost`/`SendCollection`, then `Replay`, `Refuse` or the snapshot
(`ReadTransaction`/`ReadCollection`), then `AppendLedger` (ledger row, version, mirrored balance,
POSTED: one commit), `InsufficientBalance`, `DuplicateKey` (P2002) or `SerializationFailure`
(P2034, retried `MaxAttempts` times), and after the last failure `Replay` or `GiveUp`.
A serializable request reads one snapshot; every committed update of a row it will write is put
into its `stale` set, and with a stale row it cannot commit. Beyond that it may fail at any
time, which over-approximates the aborts of serializable snapshot isolation. READ COMMITTED
updates are not held back by serializable transactions, so a category or a policy changes under
a running post, as in the database; `under`, a field of a transaction's row, remembers the policy
its post has read.

**Approvals** extends Finance with the approval handlers and the complete `Next` and `Spec`.

**CashBook** is the abstract specification of the ledger: one book per account, one line at a
time, each transaction at most once; a line moves the balance of the line before it by its amount,
up or down by its type and never below zero. `LedgerIsACashBook` is `CashBook`'s `Spec` under the
mapping `Book`, which reads an account's rows by sequence (`LineOf`: the row, with the type and the
amount of its transaction).

**Collections** (`jimpitan/infrastructure/prisma-jimpitan.repository.ts`,
`jimpitan.service.ts`). Items, submit, update and validate are jobs between read and guarded
update; the rest is one action each. `shared` remembers the sessions on which two handlers
worked at the same time.

**Delivery** (`notifications/`, `telegram/`, `worker/`). The outbox is the sequence of its rows
in creation order. `StartPass` takes stale claims back and reads the oldest pending events,
`ClaimNext` claims one after the other, `Send` calls Telegram, which may deliver without its
answer getting through, `BeginSettle` and `Settle` complete or fail the event. `GrowStale` is
time passing over a claim.

**Notices** (`createNotifications`). `Look` is the replay test before the transaction, with the
prefix search of `replayWhere` (`Under`) and keys that are cut to make room for a suffix (`Long`):
the number of the row in its command and its target (`Suffix`); `Create` is the SERIALIZABLE transaction, all rows or none; `Resolve` is what a P2002
leads to. A command says of its payload only whether jsonb returns its keys in the order given.

**Exports** (`reports/`). API requests and worker passes build exports; `Mark`, `Complete` and
`Fail` do not look at the status they overwrite, as in `updateExportStatus`. An export may expire
and a claim grow stale in the hands of a slow process (`Outlives`). Matching a request
with the row of its key compares filters as text, after jsonb has reordered them (`Reordered`).

**Reports** (`getCashFlowSummary`). Its three queries run in any order, each on what is
committed at that moment, beside posts (`DrawDate`, `CommitPost`, `AbandonPost`) and
`archiveCashAccount` in its two statements. A row's date is drawn before its post commits, but
while it holds the account's row; the report trusts that this makes dates and sequence agree.

**Bot** (`telegram/application/telegram.service.ts` and its repository). A delivery of an update
is a request of its own: record the unique update id, route by the conversation, look up, write
the draft, item, total or decision, save the conversation, mark the update. A reply, a service
call or the process may fail at each point.

**Sessions** (`auth/` and the web's route handlers and proxy). The browser's `jar`, its requests
in flight, and the rows of `sessions`. An issue of tokens is a session and the number of its
refreshes; a row keeps the latest. The proxy refreshes after a 401 and sends the request again.

**Members** (`users/`, `rbac/`, the bootstrap). A request acts with the principal its guard
resolved, checks what it hands out in queries of their own, and writes later; a replacement of
roles deletes what it sees and then inserts. `given`, `appointed` and `asked` are history.

**Neighbourhood** (`houses/`, `residents/`), **Bindings** (`telegram/`, `residents/`),
**Content** (`content/`), **Attachments** (`attachments/`, `content/`). One machine per open
transaction; the variables `contested`, `hurried`, `crowded` and `leaked` remember where
transactions overlapped or a failure left something, and the properties say what holds
elsewhere. `contested` heals: the next undisturbed arrival or last departure counts again.
In Attachments an upload deletes the cover it replaces (`SoftDelete`, `Unlink`) before the new image
is looked at (`RefuseImage`), written (`Put`) and entered (`InsertImage`); a write that fails leaves
nothing or a part of the file (`PartlyWritten`), which is not removed, since `storage.put` is called
outside the `try` of `uploadImage`. `bare` remembers the posts whose cover was removed or whose last
upload of one came to nothing.

**Tenant** puts Neighbourhood, Bindings, Members, Content, Attachments, Notices and Reports
beside one another. What one of them takes from another (a member is active, a resident is
archived, a post is deleted) it has as a change that may come at any time, which allows more
than the other component does; so a behaviour of all of them shows no more than behaviours of
one at a time, and `part` names the one that is at work.

**MCFinance**, **MCCollections**, **MCDelivery**, **MCExports**, **MCBot**, **MCSessions**,
**MCTenant**, **MCContent** and **MCNotices** give the constants their values for TLC. The
modules named `...Proofs` hold the theorems.

Definitions called a *mutant* in a comment are plausible mistakes in the definition below them;
for each property of a passing run one of them is known to break it.

## The runs

| Run | Question | Checked |
|---|---|---|
| MCPosting | Two posts race for a balance that covers one of them, while drafts, rejections, the account and the categories change | `BooksBalance`, `PostedIffBooked`, `AppendOnly`, `LedgerIsACashBook` (refinement) |
| MCApprovals | An expense is posted while approvals are requested, decided and cancelled and the policy changes | `RejectionIsFinal`, `PostedExpensesWereApproved` |
| MCCollectionPosting | Hook and endpoint post one validated collection, into the default account or a named one, while drafts take its key | `CollectionBookedAsValidated`, `NoSharedKeyOrSource`, `SuccessMeansPosted` |
| MCReview | Three overlapping handlers on one session | `FrozenUnderReview`, `CancelledForGood`, `TotalsMatchItems`, `ReviewedIsReady` |
| MCDelivery | Two overlapping passes, administration meanwhile, a crash or a pass that outlives its claim | `PendingHasEvent`, `ProcessedMeansDelivered`, `FinalIsFinal`, `ClaimsEnd` and `PendingIsAttempted` (liveness) |
| MCExports | Two clients and a worker build the exports of two requests, with one fault, which may be that an export expires in the hands of its builder | `FileIffBuilt`, `ExpiredIsFinal`, `QueuedIsBuilt` (liveness) |
| MCBot | Two deliveries at a time, of two updates that may end or go on with a conversation, with one fault | `HandledOnce`, `OneDraftPerFlow`, `HouseRecordedOnce`, `UpdatesAreSettled` (liveness) |
| MCSessions | Two sign-ins of a browser with overlapping requests, refreshes, a lost answer | `OneWinner`, `LogoutEndsSession`, `RevokedForGood` |
| MCTenant | Two requests at a time in each of the seven components of an RT | `TypeOK`, `OccupancyIsDerived`, `ArchivedIsVacant`, `OneAccountEach`, `AuthorityIsHandedOn`, `RolesAreOneReplacement`, `DisabledStaysDisabled`, `CountMirrorsRows`, `ImagesAndFiles`, `NotifiedOnce`, `ReportsHold` |

Three more runs show where the code and its documentation part; TLC finds each violation, and
`PROJECT.json` quotes the sentence that is not kept:

| Run | Property | What happens |
|---|---|---|
| MCStarvation | `PendingIsAttempted` | events of in-app notifications stay PENDING for ever and fill the window of each pass |
| MCFreeSlug | `FreeSlugIsFree` | the slug of a deleted post is offered as free and refused by the unique index |
| MCReplay | `DuplicatesAreReplayed` | the repeat of an announcement is refused, because jsonb returned its payload with the keys in another order |

### Disagreements without a run of their own

The models reach these as well; they are described here and not checked, since the properties
above are stated so that they hold beside them:

- An account is soft-deleted although it has entries, when its first post commits between the
  count and the update of `archiveCashAccount` (`docs/backend/finance-ledger-api.md:46` speaks of
  balances derived from the ledger rows). Its entries then count in the totals of a report but
  its balance does not count in opening and closing balance; `ReportsHold` excepts this
  (`NothingLost`).
- An item batch that commits inside a submit leaves a total that is not the sum of the items
  (`docs/backend/jimpitan-collection-api.md:45`, lifecycle writes prevent stale overwrites), and
  a change to BULK_TOTAL and an item batch pass each other's test. `TotalsMatchItems` and
  `ReviewedIsReady` except sessions on which handlers overlapped.
- A rejected session is restarted beside its replacement: two active sessions of one route and
  date (`jimpitan-collection-api.md:43`).
- A FAILED outbox event has a time for its retry, but nothing claims FAILED events
  (`docs/hot-paths.md:90`, "fixed 5-min retry"); an administrator's retry makes a new event.
- A notification that is cancelled between the claim and the send still goes out, and a message
  is sent twice when its claim grows stale while it is on the way.
- An export that expires while a process still builds it, after another process completed it, is
  marked, completed or failed by that process and so comes back
  (`reports/infrastructure/prisma-reports.repository.ts:983` writes by id only).
- The replay of an export whose filters have keys that jsonb reorders is refused
  (`docs/backend/reporting-api.md:48`).
- `resolveCreateConflict` returns the rows it finds without comparing them, where the first look
  would have refused a mismatch (`docs/backend/notification-api.md:72`); a command whose key is
  cut is not found again by it
  (`notifications/infrastructure/prisma-notifications.repository.spec.ts:114`), and a key that is
  the beginning of another's finds that one's rows. `NotifiedOnce` says what is left.
- The loser of two refreshes of one token revokes the session that the winner extended, as
  `docs/backend/backend-skeleton.md:162` says, while `docs/frontend/web-architecture.md:58`
  takes care of concurrent refreshes as if both could go on.
- Two replacements of a member's roles may leave the union of both (`backend-skeleton.md:97`,
  "replace"); `asked` marks where that is excluded. The last administrator may be disabled.
- Houses of which two moves overlap may stay OCCUPIED and empty, or the other way round.
- Two overlapping deliveries of the bot record one house twice, past the second look
  (`telegram/application/telegram.service.spec.ts:140` and `:175`), and a handler that read the
  conversation before a `/cancel` saves it again after it (`docs/backend/telegram-bot-api.md:50`).
- Two overlapping uploads leave a post with two covers (`content/application/content.service.ts:135`,
  "at most one cover"). One upload that is refused or fails leaves it with none, since the cover is
  deleted before the new image is looked at ("replace the previous one").
- A file of which only a part could be written stays in the storage, unknown to any row
  (`attachments/infrastructure/local-disk-storage.adapter.ts:27`), although
  `attachments/application/attachments.service.ts:61` means to "avoid orphaned files".
- Two overlapping reactions leave a count that misses one (`SYSTEM_MAP.md:75`, "count mirror").
- An update of a resident with the account of an officer's binding removes the officer's
  membership from it.

### Bounds, and why they are enough

- *Finance*: two requests in flight, two or three transaction ids, one or two accounts, amounts
  of 1 to 3. Every conflict the code handles is between two requests on one account or one
  transaction; a third transaction gives the account a balance first. `MaxAttempts` is 2 (1
  where the state space is large) instead of the code's 3: one attempt after a failure shows
  what a retry can see, and the proofs cover every value. `Harvests` holds a PER_HOUSE total that
  is the sum of its items, one that is not, a BULK_TOTAL, and one of nothing. The drafts of
  MCCollectionPosting have the key of the collection or get it by their posts, before or after the
  collection's request has read. They are incomes, and so the run leaves out what does not touch
  incomes (`OnlyIncomeChanges`): changes of the category of expenses, and the archiving of the
  account that is not the default one.
- *Collections*: one session and three handlers; two houses are the least with which a total
  can be stale in one of them.
- *Delivery*: two notifications and two events, so that a batch holds the events of both, or
  one of them is retried; two passes; one fault, a crash or a claim that grows stale while its
  pass is alive. `Window` stands for the code's `limit * 5` and is one in MCStarvation: the
  argument needs as many dead events as the window is wide, whatever its width.
- *Exports*: two rows, one key, a pass that claims both (`Limit` 2), two clients and a worker:
  a retry by a client, its own build and a worker's stale build can meet on one row.
- *Bot*: one account, since conversations of accounts do not touch; two updates are the least
  with which one begins a conversation another ends, and two deliveries of either overlap; the
  conversation is also started in the middle by what came before, so that two updates reach the
  last question of each flow. One house is enough to be recorded twice.
- *Sessions*: two rows, so that one is signed in after another; two requests; two refreshes of
  a row, so that a token can be two generations old; one fault.
- *Tenant*: two requests of each component, on two rows of what they contend for (one area, as
  houses move in and out of it); two slugs, so that a title's second is tried; five
  announcements with one key, a prefix of it and a cut key between them, and one with the targets
  of another in another order; two ledger rows over
  three days, so that a report has an opening balance, a period and a day after it; two
  requests about members (`MaxRequests`), on top of the bootstrap and an officer who may manage
  from the start: one takes a right away while the other uses it. Sets of different components
  share their elements, so that one permutation acts on each component alone.
- Symmetry is used where all members of a set are interchangeable and no liveness is checked.
- `CHECK_DEADLOCK FALSE` where ids or requests run out and the system may stop; the passes of
  Delivery and Exports go on for ever, so deadlock is checked there.

### Fairness

Handlers of the program run to their end unless the process dies: weak fairness of each pass of
the worker (`Delivery!FairSpec`, `Exports!FairSpec`; the poll loop of `worker.service.ts` catches
what a pass throws and polls again), of each API request in `Exports!Serve`, of each delivery of
an update in `Bot!FairSpec`, and of `GrowStale`, time passing over a claim. Clients, users,
Telegram and administrators are never assumed to act, so a retry by hand does not count as
progress, and an update whose handler died may stay RECEIVED (`crashed`). Faults are bounded by
`MaxFaults`, because a worker that crashes in every pass delivers nothing, and two passes that
are always slower than their claims could take one event from each other for ever.

## What is proved

For every set of accounts, requests, sessions, houses, users, passes and so on, every policy,
and every bound:

| Module | Theorems (`Spec => []...`, or `[][...]`) |
|---|---|
| `FinanceProofs` | `FinanceInvariant`, `PostingInvariant`, `TypeCorrect`, `BooksAreRight` (`BooksBalance`), `RejectedNeverPosted` (`RejectionIsFinal`), `PostedExactlyOnce` (`PostedIffBooked`), `KeysAndSourcesAreUnique` (`NoSharedKeyOrSource`), `BookedAsValidated` (`CollectionBookedAsValidated`), `ExpensesWereApproved` (`PostedExpensesWereApproved`), `BooksOnlyGrow` (`AppendOnly`), `AnswersAreTrue` (`SuccessMeansPosted`), `LedgerImplementsCashBook` (`LedgerIsACashBook`, the refinement) |
| `CollectionProofs` | `ReviewFreezes` (`FrozenUnderReview`), `CancellationIsFinal` (`CancelledForGood`), `TotalsAgree` (`TotalsMatchItems`), `ReviewIsOfSomething` (`ReviewedIsReady`) |
| `DeliveryProofs` | `TypeCorrect`, `PendingIsNeverStranded` (`PendingHasEvent`), `ProcessedIsDelivered` (`ProcessedMeansDelivered`), `FinalStatusStays` (`FinalIsFinal`), `ClaimsAreExclusive`, `OneMessagePerEvent` |
| `ExportProofs` | `TypeCorrect`, `OneExport`, `FilesAreThere` (`FileIffBuilt`), `ProcessingHasABuilder`, `ExpiryIsFinal` (`ExpiredIsFinal`) |
| `BotProofs` | `TypeCorrect`, `UpdatesRunOnce` (`HandledOnce`), `FlowsDraftOnce` (`OneDraftPerFlow`), `HousesAreRecordedOnce` (`HouseRecordedOnce`) |
| `SessionProofs` | `ExecutedOnce`, `RotationHasOneWinner` (`OneWinner`), `LogoutIsEffective` (`LogoutEndsSession`), `RevocationIsFinal` (`RevokedForGood`) |
| `TenantProofs` | `OneAccount` (`OneAccountEach`), `CodesBindOnce`, `MembersKeepAccounts`, `CountsAreMirrored` (`CountMirrorsRows`), `ImagesHaveFiles` (`ImagesAndFiles`), `AnnouncedOnce` (`NotifiedOnce`), `LedgersAddUp`, `ReportsAreTrue` (`ReportsHold`), `EverythingIsTyped` (`TypeOK`), `SlugsAreRefusedForDeleted`, `RepeatsAreReplayed`, `PartsRunAsAlone` |
| `RegisterProofs`, which `TenantProofs` extends | `RegistersAreTyped`, `AuthorityStaysHandedOn` (`AuthorityIsHandedOn`), `RolesAreReplaced` (`RolesAreOneReplacement`), `DisabledForGood` (`DisabledStaysDisabled`), `OccupancyFollowsResidents` (`OccupancyIsDerived`), `NobodyIsArchivedAway` (`ArchivedIsVacant`) |

The assumptions are the named ones of the modules: null is no row, a key or a house; no area is
a house; commands are well-formed drafts with positive amounts; jsonb has one order of keys; the
two first officers are users; bounds are numbers; the visitors, the approvers, the targets of
notifications and the amounts of the ledger that reports read are finitely many. TLC evaluates them in the runs.

Hardly any of the properties is inductive alone; what they rest on:

- *Finance.* That the next row gets the right number and starts from the right balance depends
  on the request's snapshot being the committed state: `FinanceInv` adds `SnapshotsAreCurrent`
  (while the account is not in a request's `stale` set, the sequence and balance it read are
  still the newest; while its transaction is not, it is still VALIDATED), `RowsAreBookable` and
  `IdsAreReserved`. The books were right when the snapshot was read, and the snapshot keeps them
  right: the two are proved together. A rejection makes a running post stale, and after it the
  transaction is not VALIDATED any more.
- *Postings.* Beside it, `PostingInv` adds what a request in flight knows beyond its snapshot
  (`Ready`): what it is about to commit passes the policy it has read (`PassesItsPolicy`), or is
  a collection as it was validated, and neither is taken back, since an approval that was given
  cannot be cancelled; its account is active unless it
  is stale. The unique indexes on key, source and ledger row do the rest, and the step that
  runs into one commits nothing. `RowsAreCounted` gives each book of `CashBook` its length: a
  row of the ledger is the line of its number, so an append adds one line at the end of one book
  and every other step leaves all books alone.
- *Delivery.* A pass that read a notification before it was retried still settles its old event,
  so the event that carries the retry must be another one: `PendingIsCarried` asks for an event
  every settler of which saw PENDING. `AnswersAreTrue`: a pass that was told its message arrived
  was told the truth. While nothing fails (`Healthy`), the events that are PROCESSING are those in
  the batch of one pass each, none is stale, and so none is taken back; the messages to a chat are
  no more than the events for which Telegram was asked (`AskedOnce`), and an event that is asked
  for now was not asked for before.
- *Exports.* Claims, retries and replays take up no expired row (`ExpiredIsNotTakenUp`), and a row
  that is EXPIRED is written only by one who builds it (`OnlyItsBuilderWritesExpired`); who builds it
  had it in hand before.
- *Sessions.* Who holds a token got it from a row that has come at least as far (`Held`), and a
  refresh that succeeded left the hash it had read behind (`Moved`): so the others of that hash
  lose.
- *Bot.* An update is routed only after it was recorded (`UnrecordedIsUnrouted`).
  Where no update was begun while another was handled, one handler works at a time
  (`OneAtATime`), so the item it is about to write is still the one it looked for (`ItemIsNew`);
  a conversation at a note is about a house (`HousesAreNoted`).
- *Collections.* The action properties need only `Shape`; what carries them is that every
  handler in flight tests the status again in its guarded update (`Respects`). For the totals
  `Agreed` adds what each handler read of its session that still holds (`Current`), because no
  other handler is at work on a session that is not `shared`. `PaidTotal` stays unexpanded: the
  proof follows of which items a total was taken, not what the sum is.
- *Bindings, posts, images.* A used code is no setting any more (`CodesAreUsedUp`); the count a
  transaction is about to write is that of the rows, unless reactions to the post overlapped
  (`MirrorIsReady`); the file is there before the row and goes after it (`FilesAreThere`,
  `NoFileIsForgotten`, `UploadsAreApart`), and one of which a fault left something is nobody's any
  more (`LeakedFiles`); a post that is not `bare` has the cover it had, or its last upload of one is
  still on the way (`CoverKept`).
- *Notices.* Rows carry the key and the suffixes of their command, so the unique index lets one
  request make the rows under a key (`OneMaker`); what was found only grows (`ToldTheTruth`). The
  rows of a command with a key are all that its request made, or none (`RowsAreWhole`), so their number is
  that of its targets, and a repeat with its payload in order matches them.
- *Slugs.* Where no other post was inserted since a request found its slug free, only deleted posts
  can have it (`FoundFree`). This and the theorem on repeats are the parts that hold of the two
  safety properties the code violates: they name the only reason for each violation.
- *Reports.* Rows of an account are dated in the order they commit, and the posts that drew a date
  hold their account (`Books`); so over every period the ledger adds up (`LedgerAddsUp`), and what
  an undisturbed report has read so far is what the ledger says (`ReportIsTrue`). The sums are the folds of the community modules. That a sum
  exists, grows by a new row and is the same for equal summands is shown by a smallest set for
  which it is not (`Smallest`, from the order of the numbers), so that no induction theorem with
  an operator parameter is needed.
- *Members.* What a request still has to write, of what its principal held when it was checked,
  was handed out by an administrator, too (`Authority`); and where `asked` is known, no second
  replacement is under way (`Alone`).
- *Houses and residents.* `Current`: what an open transaction read to decide is still so, unless it
  is not `Undisturbed` (another shared its rows, so all of its rows are contested). A commit changes
  rows of its own only; a transaction that shares none of them goes on with what it read
  (`OthersGoOn`), and one that does was counted as an overlap when the later of the two began
  (`SharedIsContested`). So the writes of an undisturbed transaction follow from what is there,
  and leave each house as its residents have it (`ResidentCommitSettles`).

Every invariant and every action property of a passing run is stated by a theorem. Only
model-checked is liveness (`QueuedIsBuilt`, `UpdatesAreSettled`, `ClaimsEnd`,
`PendingIsAttempted`), for which the provers have no rule: ENABLED is beyond them.

## Not modelled, and why

- The pages of the web, form schemas and API clients: React state over single requests.
- DTOs, mappers, `select` clauses, list queries with filters and paging, controllers, audit rows:
  they change nothing a decision reads. Together with the pages they are most of the lines of
  the repository, which is why `map` names a small share of it.
- Times and dates where nothing but their order matters (expiry of approvals and tokens,
  five-minute delays), texts, texts of errors, the overflow of Decimal(14,2).
- A commit whose answer the database connection loses, where the code treats it as a failure: the
  `catch` of `uploadImage` would then remove the file of a row that is there.
- Tenant isolation (a WHERE clause in each query; each model is of one tenant) and the rows of
  tenants and settings, which are overwritten whole.
- Reports other than the cash flow report: each aggregates one table in one query or in queries
  that are not compared with one another.
- The ledger's read endpoints: queries over what `Finance` models. The append-only trigger and
  the CHECK constraints refuse what the models never do.

`PROJECT.json` names every part with its reason, and every hazard with the property that would
catch it or the reason why none does.

## What could come next

The hook between Collections and Finance as a composed module, with the crash between its two
commits (today `CollectionValidated` is that commit, as finance sees it).

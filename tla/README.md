# OpenGewerk: the offline layer, the books and what runs in the background, specified and checked

OpenGewerk is an application for craft businesses: an office, and people on sites whose devices go on
working without a network. This directory specifies in TLA+ the part of it that is hard to get right and
hard to test: the synchronisation between a device and the server, photos and files included, the chain of
documents that become the books of a business, and what runs in the background: the delivery of mail and push
messages, deadlines, and the import of a supplier's catalogue. It checks all of it with TLC on small instances
and proves the safety of all but two of its parts with TLAPS for every size.

Paths below are relative to the repository, `PS` stands for `src/packages/platform/server/src`, `PW` for
`src/packages/platform/web/src`, `PD` for `src/packages/platform/domain/src` and `APP` for `src/packages`.

## 1. Inventory

### How the parts fit together

A person edits on a device. The edit is judged by the sync rules against what the device shows, written to
the **outbox** in IndexedDB and laid over the rows on the screen (`PW/sync/client.ts`). An **exchange**
sends the outbox to `POST /sync`, in transmissions of a bounded size. The server (`PS/sync/controller.ts`,
`PS/sync/apply.ts`) opens one PostgreSQL transaction for one tenant, READ COMMITTED, and takes one operation
after another: an advisory lock on its id, the question whether it has a receipt, a read of the record, the
lock and read of the record its gate asks, the rules once more, the write by id, the receipt. A trigger
(`src/packages/platform/server/sql/sync.sql`) stamps each row written with the next number of the tenant's
counter. The receipts empty the outbox. The exchange then **pulls**: `changesSince` reads the counter and
then every table, each a statement of its own, and answers with the rows above the cursor of the device and
a new cursor. The device writes the rows and then the cursor. What a person may hold of some entities is
**narrowed** by the server, and the answer names the narrowing, so that a tablet handed on drops the rows of
whoever had it before. Conflicts are asked for last. Beside all this the office works on the server
directly, and **fixes** documents, after which nothing under them may change. Mail goes another way: whatever
causes a message writes it into an outbox, and a worker of each process claims what is due, sends it and
marks it, each in a transaction of its own with the sending between them. Push messages go the same way, one
for each subscription. Photos go up on their own, ahead of the version of the record that names them, into a
store of bytes under their hash that knows no transactions and that a sweep empties of what no row names.
A pass over the **deadlines** follows what asks for them and makes tasks and messages of what is due. An
**import** reads a catalogue in the background and writes it in one long transaction, past the stamp of the
counter, so that devices can go on sending; only the rows of articles in use are numbered, at its end.

### Components

| Component | State it keeps | Operations | What makes it hard | What makes it correct |
|---|---|---|---|---|
| change stream (`sync.sql`, `changesSince`, `pullChanges`) | counter per tenant, change number per row; cursor in memory and in the store | stamp, commit, roll back; read counter, read each table, answer; write rows, move cursor | commits between the statements of one pull, pages that are cut, closed pages | nothing lies behind a cursor that is not on the device; the cursor goes forward; everything arrives |
| device store (`client.ts`, `store.ts`) | rows, `sync.cursor`, `sync.entities`, `sync.narrowed`, `sync.settled`, each its own write | start, answer, drop, settle | closed between any two writes, updates, hand-overs, two pages | what the store says its rows add up to is true; no foreign rows |
| sync rules (`PD/sync/rules.ts`) | none, a pure decision | `decideMerge` | versions, three values per field, gates, reserved fields | used inside the modules below; what it promises is checked there |
| applying operations (`apply.ts`, `controller.ts`) | rows, receipts, conflicts, locks | `applyOperations`, issuing beside it | queues sent twice, races on one record, lock circles, lost connections | once only, as decided, nothing under a fixed document, an answer in the end |
| sync client (`client.ts`, `projection.ts`) | outbox in the store and in memory, settling rows, the exchange, what was refused | create, update, remove, exchange, discard, restart | lost requests and answers, refusals, edits during an exchange | no entry lost, repeated or out of order; nothing vanishes from the screen; comes to rest |
| conflicts (`resolveConflict`, `openConflicts`) | conflict rows | list, decide | decided twice, recorded with stale values | not modelled (section 7) |
| files (`client.ts` uploads, `PS/files`, `APP/server/src/api/document-files.ts`) | the list of uploads on the device; bytes in the store, rows, the records that name them | keep, upload, queue and send a version; put, write the row, print a document, erase one, sweep | the store has no transactions; a photo is kept while another uploads; a put beside a sweep | no row without its bytes, no version ahead of its file, photos arrive, space comes back |
| number ranges (`PS/database/number-ranges.ts`) | next number per range | draw, change | drawn while the range changes, rolled back | no gap but what somebody passed over, no repeat |
| documents (`APP/server/src/api/documents.controller.ts`, `APP/server/src/documents`, `payments`) | kind, status and predecessor, lines, snapshot with its deductions, payments | create, update, remove, sign, issue, make a successor, cancel, record and remove a payment | several statements of two people on one chain, drafts that outlive what they were made of | snapshots say what was fixed, the chain does not branch, deductions match the chain, cancelled once |
| mail outbox (`PS/mail`) | status, attempts and next attempt of a message; the mail server of the tenant | write, claim, send, mark, retry, give up, remove the server | sending is outside the transaction, two processes, claims that run out, lost answers | sent twice only after a mishap, the outbox says what happened, bounded tries, nothing waits for ever |
| push outbox (`PS/push`) | subscriptions and the session each is bound to; status, attempts, next attempt of a message | subscribe, sign out, forget, write, claim, deliver, mark, give up, send a test | telephones handed on, sessions that end, claims that run out, lost answers | sent twice only after a mishap, quiet after a sign-out, nothing waits for ever |
| audit log (`src/packages/platform/server/sql/audit.sql`) | hash chain per tenant | append | concurrent writers | an unbroken chain; not modelled (section 7) |
| article import (`APP/server/src/datanorm`, `device-scope.ts`) | the status of an import, the line of jobs in memory, unnumbered rows; on the device the part of the articles it holds | start, change, apply, discard; read, take over, number, fail; restart; pull | rows past the stamp, a part that changes while a takeover runs, lost answers, restarts | a device misses no article it may hold, the status says what became of the rows, no import blocks the next for ever |
| authentication, sessions, invitations | library tables, single use links | redeem, reset | single use, last owner | not modelled: mostly the better-auth library |
| tenants, row level security, migrations | policies of the database | | | not modelled: every module starts from a transaction of one tenant |
| deadlines (`PS/deadlines`, `APP/server/src/deadlines`) | status, day and reminder of a deadline, the tasks made of it; the place a pass stopped at | follow the sources, close by a done task, list, claim, act; mark done, reopen | rows read long before they are written, two passes, actions that fail, bounded passes | done for its day, acted on once per day, nothing starved |
| stock, time, absences, appointments | ordinary records | create, change | none beyond a transaction | not modelled: arithmetic |
| privacy (access, erasure) | | long transactions | | not modelled: driven by tables of columns |
| service worker, session and device in the browser | caches of the browser | | which build runs | an input (`Build`) of the device store |
| pricing, PDF, e-invoice, forms, trades, screens | none | | none | not modelled: pure computation and layout |
| backup, containers, settings, secrets | | | | not modelled: scripts and settings |

`PROJECT.json` lists every component with its sources and status, and every hazard with the line where it
bites and the properties that watch it.

## 2. Modules

| Module | Models | Composes |
|---|---|---|
| `ChangeStream` | the counter, the pull statement by statement, the device moving its cursor | |
| `DeviceStore` | the local store write by write, builds, narrowing, several pages | relies on what `ChangeStream` shows of an answer |
| `SyncRules` | the decision about one operation and the row it leaves | |
| `SyncApply` | transmissions statement by statement with their locks, and the office | `SyncRules` |
| `Operations` | abstract: what the offline layer promises of an operation | |
| `SyncClient` | devices, outbox, exchanges, failures | `SyncRules`; a transmission is one step here, `SyncApply` takes it apart; implements `Operations` |
| `Files` | photos from the device to the row, papers of the server, the store and its sweep | relies on what `SyncApply` shows of one operation |
| `ArticleImport` | imports of a catalogue, their takeover past the stamp, and a device that holds the articles in use | relies on what `ChangeStream` shows of numbered rows |
| `Deadlines` | the deadlines of one tenant, the passes over them, and the people | |
| `PushOutbox` | subscriptions, push messages, the passes of several processes, the test message | |
| `MailOutbox` | the mail of one tenant, the passes of several processes, the mail server | |
| `DocumentChain` | the documents of a business, the transactions that issue, continue and cancel them, payments and number ranges | |
| `..._proofs` | the proofs (section 4): a module each for `ChangeStream`, `DeviceStore`, `SyncApply`, `SyncClient`, `MailOutbox` and `DocumentChain`; `Intake_proofs` for `Files` and `ArticleImport`, `Notifications_proofs` for `PushOutbox` and `Deadlines`, whose own names differ so that one module can extend both | the module, TLAPS |
| `MC...` | values for the constants, one per module checked | |

### ChangeStream

A row is represented by its change number: every write stamps a new one, so the number identifies the state
of the row. `Stamp` is `next_sync_sequence` in the trigger: the upsert of the counter's row holds that row
until the transaction ends, so a second writer waits (`HoldsCounter`). `Commit` publishes rows and counter
together, `RollBack` gives the numbers back. `ReadCounter`, `ReadTable` and `Answer` are the statements of
`changesSince`; any commit may fall between two of them. `IsPage` is the ordered, limited select. `Reached`
and `AnswerCursor` are how the answer's cursor is computed: the smallest end of a table that was full, else
the highest number read, never above the counter as first read. `WriteRows`, `MoveCursor` and
`PersistCursor` are `pullChanges`: rows table by table, then the cursor in memory, then in the store.
`BreakOff` and `Restart` are failures and closed pages. `MaxCounter` bounds the numbers handed out and
`MaxFailures` the failures, as guards of the actions that raise them.

Abstracted: the narrowing of an answer (in `DeviceStore`), the tables a device may not read, the values.

### DeviceStore

The five things the store keeps are variables of their own. Whatever a handler awaits becomes a list of
writes (`todo`), and `StoreWrite` performs the next one; `Close` drops the rest. `Open` is `start()`: the
cursor stands only when the build that wrote it knew everything this build knows. `Ask` receives an answer
(`AnswerOf`) of what is `Visible` that is complete up to its cursor, but may bring rows above it and may claim there
is more when there is not. `Receive` is `narrowedElsewhere` followed by the page of writes: when the narrowing differs from the
one kept, the rows of the entities it changed go, the cursor starts again, and the new narrowing is written
last. `settle` writes what the rows add up to at the last page.

An answer names what it was narrowed to by a text for each narrowed entity. The text is a fingerprint of the ids of a
person's jobs (`APP/server/src/database/device-scope.ts:57`), while the rows sent (`device-scope.ts:202-296`) also follow the
customer, site and installation of those jobs, the assignees of tasks and whom a row was created by. So a text does not
stand for one set of rows. `StandsFor` gives each the sets that can go by it, `reach` is the one that does now, and
`MayHold` asks for it. `Change` writes a row and may change what goes by any text that was named before, the text
staying as it is; `Rescope` gives the person another text. The device sees the text only. A row that came to a text it already went by lies
behind the cursor unless it was written then or since, and one that left stays where it is. The history variables `late` and `gone` keep which rows these
are, and the properties excuse exactly them (`CameLate`, `WentAway`): `SettledIsComplete` and `ComesToRest` the first,
`NoForeignRows` the second. Without an excuse TLC finds each violated (section 5).

`HandedBack` says whether a scope the device once left may return, and `Tab` is the set of pages open over
the store. With `FALSE` and one page the properties hold; with `TRUE`, or with two pages, they do not
(section 5). An answer always names a narrowing here; one without it changes neither note.
A store that refuses a write ends the exchange as a page closed does and is not told apart from it. Bounds:
`MaxCounter` rows written, `MaxRescopes` changes of the text, `MaxOpens` starts.

### SyncRules

`DecideMerge` keeps the order of the checks in `decideMerge`: unknown entity, the gate of the parent,
reserved fields, then create, delete or update. `Collided` is the three-way comparison per field. `Landed`
is the row the statement leaves, `start` what `createdAs` and the defaults of the columns give. The
comparison of values in their wire form is equality of model values.

### SyncApply

One action per statement: `LockOperation` (the advisory lock and, under it, the receipt), `ReadRecord` (no
lock), `Decide` with `LockParent` (`select ... for update` of the record a gate asks), `WriteRecord` (waits for the row),
`StampRecord` (the trigger, waits for the counter), `Commit`. A statement sees what is committed plus what
its own transaction wrote (`Current`). `Refused` is what the database refuses: a second insert of one id,
and a write to a fixed document (the trigger `document_stays_fixed`); both roll the transmission back.
`ConnectionLost` rolls back as well, `MaxAborts` bounds it. Lock circles are real, `EndedByDatabase` ends
one transaction of a circle. `OfficeLocks`, `OfficeWrites` and `OfficeCommits` stand for issuing a document
with its statements reduced to the lock, the stamped write and the commit. The policy of a record is a parameter;
`GateAssumption` says of it what the sync definitions do (`APP/domain/src/sync/policy.ts:101,133,148`): the status that fixes a record
is not one its lines may be written under, and the gate of a line asks the document's own `onlyWhile`. A device whose transmission was
rolled back sends its queue again, and may close the next circle with it: that happens for ever in some
behaviours, so `EveryOperationAnswered` is stated up to that.

`landed` and `astray` are history variables: how often a committed write came from an operation, and which
operations landed on a row on which the rules would have decided otherwise.

### Operations and SyncClient

`Operations` says what a person is promised: an entry waits until the server decides it, once, or until the
person lets go of it, and the entries of one device are decided in the order they were made. `SyncClient`
implements it through `Promise`, an instance whose `status` is told from where the operation lies
(`StatusOf`); `"lost"` is not a status of `Operations`, so a step that loses an entry is no step of it.

An edit is `Enter` (judged, stored) and `ShowEntry` (the store has answered: laid over the rows, an
exchange asked for). `Begin`, `Push`, `TakeReceipts`, `TakeRefusal`, `RefusedWithoutName`, `Pull` and
`TakeConflicts` are the exchange, each step ending at an await. `Fail` loses a request or an answer at any
step and `Restart` closes the page and opens it. `Pull` brings all there is; `PullPart` is a pull that stops after its
hundredth page (`PW/sync/client.ts:1138`) with any of the rows, and `"cut"` the exchange that goes on after it as after a
whole one. `MaxMishaps` bounds all three. `unwelcome` is the set of
operations the server refuses outright, chosen once. `Discard` lets go of the refused operation, a
create with the later changes of its record. `Project` is `projection.ts`. `MaxOps` bounds the entries.

Abstracted: files (in `Files`), `writeDirectly`, deciding a conflict, an expired session, gates on other records, the clock
of the device (entries are ordered as they are made).

### MailOutbox

A message goes from `unwritten` to `pending` and from there to `sent` or `failed`. Time is what it makes due: a
`next_attempt_at` is still to come or it has passed, and `due` is the sequence of the pending messages for
which it has, in the order of that moment, which is the order `claimDue` takes them in. `ComesDue` is the time
itself, and says nothing of how long a wait is. A claim moves `next_attempt_at` ahead, so a claimed message
leaves `due`, and comes back when the claim runs out (`claimMinutes`), held by a pass or not.

One pass of `runMailCycle` over the tenant is `Connect` (`connectionOf`, a transaction), `ClaimDue` (one
transaction, `for update skip locked`, so two of them never take the same message and one action is enough),
`Send` or `SendFails` outside of any transaction, and `MarkSent` or `MarkFailed` in one of its own, message
by message. `PutBack` is the rest of a batch after a failure of the whole server. The mail server a pass
connected to stays its own, even when the settings are gone. The marks go by the id alone, as in the code.

What may go wrong between sending and writing it down is counted by `mishaps` and, per message, by the history
variable `excused`: the answer comes after the deadline although the message was taken (`AnswerComesLate`), the mark
fails (`MarkSentFails`), the process ends with a message sent and not marked (`PassEnds`), the claim runs out
under a slow pass (`ComesDue` of a held message). `delivered` is what the mail server saw.

Abstracted: what raises a message (it is written once for each cause, after the question for a mail server), how it
is put together, addresses and texts, and the tenants beside this one, which a pass takes one after another.

### Files

A file is the hash of its bytes; `stored` says of each whether the store has it and whether it was put within the
grace of the sweep (`new`) or longer ago (`old`). The store (`PS/files/store.ts`) knows no transaction: `Put` looks,
`Renew` or `Write` goes on by what it saw, and the row comes after (`RowOfUpload` from a device, `RowOfPaper` for a
document the server prints, whose second maker takes its row back). `Erase` is the end of a retention: the record,
and each of its files that no other record of the tenant names. The sweep reads the old names (`SweepStart`), asks
the database for a batch of them (`Ask`), moves one aside, looks at it again and removes it or puts it back
(`TakeOut`, `RemoveAside`, `PutBack`). `TurnsOld` is time; it does not fall into a sweep, whose limit is fixed
when it begins, nor between a put and its row, which is what the grace is for (a request is far shorter).

On the device, `KeepFile` and `QueueVersion` are `addAttachment`; an exchange goes through `step`: the list of
uploads as it was read, then the versions that are `Ready`. `mayWait` is `filesWaiting` in memory. `RefusedForGood`,
`UploadGivenUp`, `TransmitLost`, `TransmitAnswerLost`, `PageClosed` and `ProcessEnds` are what goes wrong;
`MaxMishaps` bounds them together. What the server has of a request that the device gave up runs on.

Abstracted: reading files and repairing damage, what a file may be and who may name it, files fetched from the
server, stray parts of a write, and that a later change of a record waits with a version that is held back.

### Deadlines

`clock` counts nights and mornings: a pass reminds only from a certain hour on (`Morning`). A pass is `ReadKept` (the
rows, and the settings), `AskSources`, `Follow` (what it writes at the end of its first transaction: new rows, moved
ones, dropped ones, reopened ones, and those their task has done), `List` (what is due, from the place the pass
before stopped at, and no more than `MostReminders`), and `Remind` for each in turn, with the claim and the action in one
transaction, so an action that fails takes its mark back. `Followed` writes over the row there **is** what follows
from the row that was **read**, as the code does. `People` change sources and the interval, mark, reopen and do tasks.
`PassEnds` loses the place and the list. The action is the one that makes a task, and shares an open one of the day.

People mark deadlines at any moment, between the reading and the writing of a pass too. Such a mark is written over by
what the pass read (section 5); the history variable `between` keeps the deadlines it happened to, until they are done again
without a pass at work or by their task, and `DoneForItsDay` excuses those and no others. Two passes run beside each other only as far as their reminders
go; of two first transactions that insert the same deadline the key fails one.

Abstracted: who answers for a deadline, leads, kinds whose source names the day, the other actions, the mails.

### PushOutbox

A subscription is a row, in the order they are inserted, bound to the session that made it. A message is a cause and a
row; it goes with its row. A pass is `Begin` (which sessions are out, read once), `Forget` for each row it found
signed out, `Draft` and `Write` for each cause, `ClaimDue` (what is too late is given up on, the rest claimed with an
attempt), and `Deliver` and `Mark` for each message, the first outside of any transaction. `Deliver` chooses the
answer of the push service: shown, gone, refused, to be tried again; or shown with the answer lost. `SendTest` is the
route of the test message, which writes and claims past the pass. A claim runs out as in the mail (`ComesDue`).

`TestsBeside` says whether a test message is sent while a pass runs; the run sets it to `FALSE` (section 5).

Abstracted: occasions a person switched off, the most devices of a person, the limit of a batch, rows without a session.

### ArticleImport

`used` is the part of the articles devices hold (`articlesOnDevices`): a line that uses an article brings it in
(`Join`), and time takes it out (`Leave`). `price` counts the states of an article with its price, `number` is its
change number, 1 (`Unnumbered`) for what a takeover wrote past the stamp. `status` and the four routes are
`article_imports`; `queue` is the line of jobs in the memory of the process, whose first is under way. A takeover is
`WriteRows`, `ReadPart` (the part, read when all else is written), `Reserve` (a run of numbers; from here on it holds
the counter, `CounterFree`) and `Commit`, which publishes rows, numbers and status at once. `EndsBadly` marks a
failure, or fails to; `Fail` marks only what still says it runs; a lost answer to the commit is a branch of `Commit`.
`ServerEnds` and `ServerStarts` with `endInterruptedImports` are a restart.

The device asks (`AskPart` reads the part first, as the scope is), and either drops its articles and starts from 0
because the part has changed, or takes one page in the order of the numbers. `Limit` is the size of a page; with rows
that share a number, TLC tries every choice of the database. `away`, `late` and `excused` are history: which articles
were left behind in the two ways the property allows for. Documents, stock and other tables stand behind `Join`, and
bring the cursor to the counter.

Abstracted: the files and the plan made of them, prices beside the article, other tenants and processes, the progress.

### DocumentChain

A document is a number from 1 on in the order they are made; `kind`, `status` and `predecessor` are its columns,
`unwritten` and `deleted` the two that are no status of the code. What it says is reduced to a version
(`content`), raised by every write of a line or of the head; `snapshot` is the version that was frozen, and
`deductions` the part of a snapshot that is about other documents. `paid` is the set of invoices with a payment.

A record `tx[t]` per transaction says which statement is next, which rows it has locked for update or for share,
and what it has read so far. READ COMMITTED: every statement reads what is committed when it runs, and what a
transaction writes becomes visible, all at once, in its last step.

| Route | Steps |
|---|---|
| issue | `LockForIssue`, `LockPredecessor` (with `FixDocument` for a signed report), `ReadContent`, `DeductionsFor` once for each document up the chain, `DrawNumber`, `IssueWith` |
| make a successor | `LockForSuccessor`, `Successor` |
| cancel | `LockForCancel`, `CheckCancellation`, `DrawNumber`, `Cancel` |
| any of them, refused or ended | `RollBack` |

`RollBack` stands for every refusal on the way (missing details, unconfirmed payments, a declined offer) and for a
circle of locks the database ends. Drawing a number updates the row of the range, so the transaction holds it
(`Drawn`) and the next one waits; the counter itself moves with the commit. Create, update, remove, a line, a
signature and a payment are each decided by one locking statement, and are one step that waits for the row
(`Free`; a line takes its document for share, so it waits for a lock for update only). Ranges are changed for the
kinds drafts are written as (`WrittenKinds`).

Abstracted: collective invoices, declined offers, credit notes, partial and recurring invoices, cost
estimates, amounts, stock, and the pattern and the year of a number: a number is its counter.

## 3. Runs

| Run | Instance | What it shows |
|---|---|---|
| `change_stream` | 3 rows in 2 tables, 2 writers, pages of 1, 5 numbers, 1 failure | nothing is left behind the cursor, it only goes forward, and everything arrives |
| `device_store` | 1 narrowed row and 1 other, 3 texts, 2 builds, 3 writes, 2 changes of the text, 2 starts | what the store vouches for is true, no foreign rows, comes to rest, but for rows that came or left under one text |
| `sync_apply` | 4 transmissions, one queue sent twice; 7 operations on 4 records, the office, 1 lost connection | once only, as decided, nothing under a fixed record, an answer in the end unless circles of locks recur for ever |
| `lost_update` | 2 devices change one field | both are told their change was applied (finding) |
| `sync_client` | 2 devices, 3 entries on one record, 2 mishaps, one operation that may be refused | implements `Operations`, nothing vanishes early unless a pull stopped early, comes to rest |
| `files` | 1 photo with its preview, 1 paper with the same bytes, 2 requests, batches of 1, 1 mishap | no row without its bytes, no version ahead of its file, the photo arrives, space comes back |
| `deadlines` | 2 deadlines, 2 passes, 2 days, 2 intervals, 1 reminder for each pass, 3 changes | done for its day unless marked during a pass, acted on once per day, nothing starved |
| `mail_outbox` | 2 messages, 2 processes, batches of 2, 2 attempts, 2 changes of the server, 1 mishap | nothing goes out twice without a mishap, the outbox is truthful, nothing waits for ever |
| `push_outbox` | 1 telephone, 2 people, 1 cause, 2 processes, 2 attempts, 1 mishap | nothing goes out twice without a mishap, quiet after a sign-out, nothing waits for ever |
| `document_chain` | 2 transactions, 3 documents, 1 change of a draft, 1 payment, 1 number passed over | numbers, snapshots, the chain, deductions, cancellations and payments |
| `article_import` | 2 articles, 2 imports, pages of 2, 2 changes, 1 mishap | a device misses no article it may hold, the status is true, no import blocks for ever |
| `import_ties` | the same with pages of 1, no changes, no mishaps | a page cut among rows of one number leaves the rest behind (finding) |

Why the bounds are enough. *ChangeStream*: the page limit of 1 makes the first table full while the second is
read to its end, and two writers are what it takes for one to wait for the number of the other; five numbers
let a row change twice while a pull is under way. *DeviceStore*: a drop takes four writes and the page can
be closed between any two; two starts are one build and another, or one page closed and opened. Of the three texts one stands for
the narrowed row or for nothing, so that the row comes and goes under it, one for nothing and one for the row; three texts and no scope
handed back are two changes that take effect, which is what lets a drop be closed half way and another begin. *SyncApply*: a queue sent twice
holds all of create, change and delete; another device takes the counter and then comes to the draft, a third
changes the draft and then comes to the counter, and the office wants both. No two devices change the same field
there and none deletes what another changes, so `LandsAsDecided` says there that neither the office nor a change of another
field gets between a decision and its write unnoticed; the racing case is `lost_update`, and section 4 says which cases there are at all.
*SyncClient*: a transmission holds one operation, so that two entries are two transmissions and an exchange
can end between them; two mishaps let an answer be lost and the page be closed afterwards. *Files*: two files of one
photo are what it takes for one to be kept while another goes up, a paper with the same bytes and two requests for
one to put while the sweep takes out; batches of one let the sweep ask twice. *Deadlines*: two deadlines and one
reminder let one that fails starve the other, two passes claim one deadline, two days and two intervals let a
deadline move and move back. *MailOutbox*: two
messages make a batch that is interrupted, two processes are a deployment that replaces the one that runs, two changes
remove the server and set one up again, two attempts are one retry and the giving up. *PushOutbox*: the same, on a
telephone that is handed on. *DocumentChain*: what two
transactions do to a chain needs an invoice, the one after it and either a second successor or a cancellation,
which are three documents; every lock is between two. What takes a longer history and no second
transaction is in section 5. *ArticleImport*: two articles are one that a takeover numbers and one that it leaves, two
imports write one article twice, two changes bring an article in and take it out.

Larger instances were checked by hand, without an error: `files` with two mishaps (720,567 distinct states), with two
photos and one paper, each of one file (399,000), and with a second photo of one file (1.2 million);
`deadlines` with four changes, its safety properties (1,218,073); `push_outbox` with two telephones, two rows and one process (335,699);
`article_import` with three changes, its safety properties (1,615,342 states). The type invariants of `MailOutbox`,
`PushOutbox`, `Deadlines` and `ArticleImport` were checked on the instances above and are no part of the runs; they are
proved, but for the turns a pass of `Deadlines` has left (`TurnOK`).

Deadlock is checked in every run but five: `device_store`, where a page may be closed for good and nothing is owed;
`document_chain`, where nothing is left to do once every document the bound allows is deleted; `files`, where a photo that
arrived and an empty store leave nothing to do; `deadlines`, where the clock and the changes run out; and
`push_outbox`, where everyone has signed out. `SyncApply` and `SyncClient` name the states in which all is done
(`Finished`, `AtRest`) and stutter only there.

### Fairness

`DocumentChain` states safety only: nobody has to issue anything. The others:

* `ChangeStream`: weak fairness of `Pull`. An exchange under way ends, and a device asks again at its start, on
  `online`, after every edit and at the button. Writers owe nothing.
* `DeviceStore`: weak fairness of `Exchange` of each page, for the same reason. Nobody has to open a page:
  `ComesToRest` says what holds when one stays open.
* `SyncApply`: strong fairness of a transmission and of the office, because PostgreSQL hands a lock to those that
  wait for it, and weak fairness of ending a circle, which the database does after `deadlock_timeout`. A
  transmission that failed is sent again. This is not enough for an answer in every case: a transmission that is ended,
  sent again and ended again takes infinitely many steps. `EveryOperationAnswered` therefore leaves out behaviours
  in which circles close for ever, and demands that no circle stays closed.
* `SyncClient`: weak fairness of `GoesOn`: the store answers, the exchange takes its next step, or someone asks
  for another. Letting go of an operation is owed by nobody, so `ComesToRest` allows an entry to wait behind
  a refusal the screen names.
* `Files`: weak fairness of the exchange (as above), of the sweep (repeated by a timer) and of each request, strong
  fairness of a file turning old, because time passes whether or not a sweep runs. Nobody has to take a photo or erase one.
* `Deadlines`: weak fairness of time and of each pass (every minute). What people do and what breaks is bounded.
* `MailOutbox`: weak fairness of a pass, which ends and is followed by another (`PS/start/repeat.ts`), and of the
  time that makes a message due. Nobody has to write one, to set up a mail server or to keep it: `Settles`
  speaks of tenants that have one from some time on. Mishaps are bounded.
* `PushOutbox`: weak fairness of a process that runs and of the time that makes a message due.
* `ArticleImport`: weak fairness of `Work`, the line of jobs, and of a process that starts again. A job that fails
  without its mark stays `reading` or `applying` until the next start; `NoneRunsForEver` says so (`unmarked`).

## 4. Proofs

Eight modules prove what the runs check on small instances for every value of the constants: every size, every number of
processes, of mishaps and of steps. Each has an inductive invariant (`IInv`, or the parts named below), shows by a lemma for each
action that it stays, and draws the properties from it. Every one was checked by TLC on the constants of the run first; the
states are those of that check.

| Module | Theorems (property) | Hypotheses | States |
|---|---|---|---|
| `ChangeStream_proofs` | `TypeCorrect` (`TypeOK`), `Invariance`, `NothingIsLost` (`NothingBehindCursor`), `CursorMovesForward` (`CursorOnlyForward`) | `FirstCounter # 0`, but for the types | the run's |
| `DeviceStore_proofs` | `TypeCorrect` (`TypeOK`), `Invariance`, `VouchesForWhatIsThere` (`SettledIsComplete`), `NothingForeign` (`NoForeignRows`) | one page, `HandedBack = FALSE`, but for the types | 707,169 |
| `SyncClient_proofs` | `WellTyped` (`TypeOK`), `EntriesAreKept` (`KeepsThePromise`), `NothingFlickers` (`StaysOnScreen`) | | 136,470 |
| `SyncApply_proofs` | `TypeCorrect` (`TypeOK`), `AppliedOnce` (`OnceOnly`), `FixedStaysFixed` (`NothingAfterFixing`), `AsDecided`, `ServerKeepsThePromise` | | 38,164 |
| `Intake_proofs`, of `Files` | `TypeCorrect` (`TypeOK`), `NothingNamedIsSwept` (`KeepsWhatIsNamed`), `FilesGoFirst` (`NeverAheadOfItsFile`) | `EndsAside = FALSE` for the second | 114,895 |
| `Intake_proofs`, of `ArticleImport` | `ImportsTyped`, `SaysTheTruth` (`SaysWhatWasTaken`), `HoldsThem` (`HoldsTheArticles`) | `[]PartFits` for the last | 158,348 |
| `Notifications_proofs`, of `Deadlines` | `OncePerDay` (`ActsOncePerDay`), `DoneForTheDay` (`DoneForItsDay`) | | 145,735 |
| `MailOutbox_proofs` | `TypeCorrect`, `NothingTwice` (`NothingGoesOutTwice`), `TellsTruth` (`TellsTheTruth`) | | 6,068,265 |
| `Notifications_proofs`, of `PushOutbox` | `TypeCorrect`, `Quiet` (`QuietAfterSignOut`), `NothingTwice` (`NothingGoesOutTwice`) | `TestsBeside = FALSE` for the last | 203,054 |
| `DocumentChain_proofs` | `TypeCorrect` (`TypeOK`), `NoGap` (`NumbersWithoutGap`), `FrozenAsItIs` (`SnapshotIsTheDocument`), `OneSuccessor` (`ChainDoesNotBranch`), `OneCancellation` (`CancelledOnce`), `TakesOffItsChain` (`DeductsItsChain`) | | 1,093,189 |

A hypothesis is there where the theorem is false without it, and TLC shows the counterexample: `FirstCounter` finding 3,
`PartFits` 2, `HandedBack` 4, one page 5, `EndsAside` 9, `TestsBeside` 12 (section 5). The runs set the constants
to the same values. Beyond these the proofs use the assumptions the modules name (`DeviceStoreAssumption`, `GateAssumption`
and so on), which TLC evaluates in every run.

**ChangeStream.** `NothingBehindCursor` is not inductive. It says nothing of what is about to be committed, nor of an answer
half read. `IInv` is `TypeOK` with three parts. `CounterInv`: only one transaction holds the counter, every
number it drew lies above the committed counter, and every committed number at or below it. `DeviceInv`: the
cursor in the store is not ahead of the one in memory, that one not ahead of the counter, and no row on the
device is newer than on the server. `PullInv`, while a pull is under way: the counter as it was read lies
between the cursor and the counter now, and each row of a table already read whose number lies above the
cursor, at or below the counter as it was read, and not beyond where a full table stopped (`Covered`) is in
the answer in just that state; while the answer is written, it is on the device for the tables done. The step
that makes it work is `Commit`: whatever it publishes lies above `counter`, so above `seen`, so it is not
`Covered`. The lemmas about a page (what a full one leaves out, where the answer ends) carry `ReadTable`.
`NothingBehindStored`, the same of the cursor in the store, follows from the same invariant and is in no run. The proof
is about rows that the stamp has numbered, each with a number of its own: that is the assumption `ArticleImport` takes
away, and `import_ties` shows that it is needed.

**ArticleImport** is about what goes past that stamp. `LineInv`: what is in line runs, so there is one job at most, and a job that fails marks
nothing that is applied; with that `SaysWhatWasTaken` needs no more. `TakeoverInv`: numbers are reserved directly above the
counter, which is held from there on, and what the device holds or asks for was in the part the takeover read, or is
accounted for in `late` and `away`. `PartInv`: what a device has of its part is as it is, or still ahead of its cursor, or
excused. A takeover may only put a row behind the cursor that is excused; that is what it numbers the others for. An
answer has to hold all that is behind the cursor, because it may end between two rows of one number: that needs
`PartFits`, at most `Limit` articles in the part whenever it is read, and is finding 2 where it does not hold. The states
are those of the run with `Limit = 1`, cut off where `PartFits` fails.

**DeviceStore.** A page can be closed between any two writes, so the store has to be described without it (`StoreInv`): the
rows are complete up to the cursor for what they are narrowed to, but for those that came under the same text, or else a drop has begun, the rows are settled for
nobody, and the scope they are narrowed to is left for good, so that no answer can ever name it again. That is where
`HandedBack` comes in. `AnswerInv` says that an answer received still fits the cursor of the store, which a change on the
server does not disturb because it is numbered above. `PageInv` describes what a page still awaits: opening, a first
narrowing, the rows of an answer (whatever up to its cursor is not held is among the writes to come), the note that
settles, or a drop (whatever changed hands is dropped by a write to come, and `sync.settled` is withdrawn before the first).
What is owed is what the scope has and did not come late (`Owed`), what may be there is what it has or what left it (`Allowed`): a
change under the same text takes nothing off the second and adds to the first only the row it writes, so the store stays sound under it.
One lemma for each kind of write shows that the store stays sound and the rest of the list stays of its kind.

**SyncApply.** What a transmission has locked is its own until its end. `ReceiptOf`: an operation it is at, or wrote a receipt
for, is locked by it, and nobody else has a receipt for it; that is what makes a second delivery wait and then find the
receipt. `RowsOf`: a row it wrote is locked by it and stands open as committed, and so does the row its gate asks;
nothing is written under a record that is fixed, and nobody fixes the record before the write is committed or undone.
`LandsAsDecided` is about the time between the read of a record, which locks nothing, and the write. It is not so of every
queue (`lost_update`), and no hypothesis that makes it so is one the code ensures. What is proved instead is in which ways alone
it can fail: `AsDecided` says that an operation lands on another row than it was decided on only where it is `Overtaken`, that
is where somebody else, after the read, deleted the record or changed a field the operation sets, or changed it at all while the
operation goes by the version (a deletion, or an update that misquotes what its version held). So never where the office has fixed the record (the trigger
refuses), never on a record created meanwhile (the insert is refused), never over what the own transmission wrote before, and
never because of a change of other fields. `SeenInv` is what it needs: a decision stands of the row as it was read, what the
own transmission wrote was read, and a write that waits for the row is judged by the trigger once more when it has it. `LetThroughAgain` says that
the rules let through on the row they meet what they let through on the row that was read, unless it is overtaken. TLC checked `OnlyOvertakenGoAstray`
on the constants of `sync_apply` and of `lost_update`.
`ServerKeepsThePromise` is the server's half of the refinement `SyncClient` is checked for: with the receipts as the status,
each step of `SyncApply` is a step `Decide` of `Operations` or leaves the receipts alone. A transmission has been
through all operations before the one it is at (`ThroughBefore`), so its commit decides none ahead of one that precedes it
in every queue. TLC checked it as a property too.

**SyncClient.** None of the three properties is inductive: each speaks of where an operation lies, and a step moves
many at once, by filtering a queue. What the invariant has to know is how the queues stand to each other and to the
receipts. `NamesInv`: whatever a device queues, sends, lays over its rows or is refused is an entry made on it.
`KeptInv`: an entry has its receipt, or is in the outbox of the store, or was let go of; it is what `"lost"` in the
refinement mapping asks for. `QueueInv`: the outbox in the store is in the order of the entries, and the one in memory
is its front, because an entry is stored before it is shown; without that, a page that discards or takes receipts
could filter the two apart. `SendInv`: whatever was made before an operation of a part and still waits is in that part
or in one before it, so the server decides nothing ahead of an earlier entry of the device; and once a part without an
unwelcome operation has been sent, each of its operations has a receipt, whether its answer arrived or not. `LandInv`:
the version an operation landed with is at or behind the version of its row, so a pull that comes later brings it
back; with that `SettleInv` says of everything laid over the rows that it was applied, and at the last step of an
exchange that it is back, which is why `BreakOff` may let go of it and nothing leaves the screen. After a pull that stopped
early it says only that it was applied, which is what `StaysOnScreen` then asks.

`EntriesAreKept` is the refinement. `Told` is the status the mapping gives each entry; `EnterIsMake`, `PushDecides`
and `DiscardLetsGo` map the three steps that change it to `Make`, `Decide` and `Discard` of `Operations`,
`NothingTold` shows that taking the receipts tells nothing new, and no other step touches what the status is told
from. The step that takes work is `Push`: one transmission decides several operations, one after another, and `Decide`
has to be shown of the whole set. `Transmits` says what a transmission comes to, whatever it consists of: each of its
operations has a receipt afterwards, those decided before keep theirs, nothing else is touched, no version goes back,
and what was applied is in its row.

The model's three recursive functions (`Among`, `Transmitted`, `Project`) are reasoned about without an induction
theorem: `LeastOfAll` gives every set of numbers a first member, `Climbs` says induction of a set and `Recursion` says
that a function defined from its value one before exists. From there on each recursion has a lemma that states what it
keeps of a queue, of the server or of a row, and no step below looks into it again.

**Files.** On the server (`StoreInv`): what a request has put lies there as `new`, or aside to be moved back, until the row is
written; so a name the sweep found old, and no row held when it asked, is nobody's still when it is moved aside, or
comes back. On the device (`DeviceInv`): a file that a version may name is on the list of uploads or its row is on the server,
unless it was refused for good or erased. `mayWait` may only be false when that list is empty.

**Deadlines.** The mark of a deadline is the day of the task it names (`TaskInv`) and the last day it was acted on
for (`ActedInv`). One pass at a time follows the sources (`ReadInv`). What it read may no longer be so when it writes;
`BetweenInv` says that a deadline it read as open and finds done was marked in between, so what it writes over is
excused, and whatever else is done keeps its day. In which order a pass reminds plays no part, so `OncePerDay` needs nothing of it.

**MailOutbox, PushOutbox.** A message has chances to go out: one for each pass that has claimed it and not handed it over, and
one as long as it can still be claimed without a mishap. `ChancesInv`: what went out and the chances together are no more
than one and the mishaps counted. Every action then has to show that it takes a chance for each delivery and makes none but for a
mishap; the chances are cardinalities of sets of processes, so the lemmas count. `TruthInv` (mail) adds that without a
mishap nobody but one pass holds a message, and that its status is what that pass has still to write. `QuietInv` (push):
a session that is out stays out, a pass takes its rows off first, and no row it finds later is bound to a session that
was out when it began.

**DocumentChain.** `LocksInv`: two transactions hold no row for update in common. `HoldsInv`: what a transaction read of a row
it has locked is so still when it writes. `DrawnInv`: the number drawn is the next of its range until the commit. `RowsInv` and
`BooksInv`: the documents written are the first ones, and numbers, snapshots, successors and cancellations fit each other.
Which parts of a chain are locked is what each property turns on: a successor counts only from its locked predecessor.

`DeductsItsChain` speaks of the whole chain above a document, a recursive function. Its invariant, `ChainInv`, says that
nothing on a chain is a draft any more (`LinksInv`), so that no chain changes once its first document is written; that
what a transaction walking a chain has seen is held and found just as it is, and the rest lies ahead (`Walked`); and that
an invoice under cancellation has no successor issued meanwhile, because issuing the successor locks it. So whatever
follows a cancelled invoice was cancelled before it, and a settlement that stands has taken off what stands above it.
That `Chain` satisfies its equation, and that what is so of a document once it is so of its predecessor is so of all of
them, needs induction; it is drawn from `FirstOfAll` (every set of numbers has a first one), which follows from the
well-foundedness of finite sets under inclusion and speaks of sets, so that no operator has to be instantiated.

### Only model-checked

* Liveness, in every module: out of the prover's reach, with `ENABLED` behind it.
* `TurnOK` of `Deadlines`, that a pass reminds of no more than it may: the list it reminds of is sorted and rotated with
  `SetToSortSeq` and `SelectSeq`, which take an operator. Nothing proved rests on it.
* `LandsAsDecided`, which is so of the queues of `sync_apply` and not of all; `AsDecided` says what is so of all.

## 5. Findings

Two runs end in a counterexample:

1. `lost_update`. The record is read without a lock and written by its id alone (`PS/sync/apply.ts:425`): two
   transmissions in flight at once can both be applied where the second should be a conflict.
2. `import_ties`. Every row of an article no device held carries the number 1, and a page of the pull is cut at a
   number (`PS/sync/apply.ts:577`). A device that asks from 0 while more than a page of such rows (500 of a table) is
   in its part gets the first page and a cursor of 1, asks for what is above 1, and never gets the others. The comment at
   `APP/server/src/datanorm/take-over.ts:36-39` takes fetching from 0 to be enough. One catalogue and some hundred
   articles used since, or fewer with several prices each, marked as deleted or not, are all it takes; the row arrives
   when it is next changed.

The following are weak points of the code that a change of one constant, or of the property a run asks, makes TLC show. Each
is a step the models contain. The runs leave it out by a constant, or their property excuses it and nothing else, because
a property that is known to fail says nothing about the rest.

3. *A tenant without a counter.* `change_stream` with `FirstCounter = 0` violates `NothingBehindCursor`: `changesSince`
   caps its cursor at the counter it read first, but a tenant without a counter has no cap (`PS/sync/apply.ts:586`),
   against the comment at `PS/sync/apply.ts:540-544`.
4. *A device handed back.* `device_store` with `HandedBack = TRUE` violates `SettledIsComplete`: closed after a drop and
   before the cursor is reset (`PW/sync/client.ts:1188`), on a device that then goes back to the scope it had, the old
   note equals what the server says, and the device settles without the rows it dropped.
5. *Two pages over one store.* `device_store` with `Tab = {t1, t2}` violates it as well: one page writes an old answer
   over a newer one (`PW/sync/client.ts:1119`).
6. *A stale base.* `NothingUnseenOverwritten` of `SyncClient`: the base version of an edit is that of the row last
   pulled, its `from` that of the rows with the outbox laid over them (`PW/sync/client.ts:772`). Entered while an own
   entry lies over a change that has just come down, the edit names a version that includes what the person never saw.
7. *Cancelled in between.* `DeductionsStand` of `DocumentChain`, with one transaction (`MCOne`), progress invoices only
   (`MCProgress`) and five documents. Only a direct successor that is issued holds a cancellation up
   (`APP/server/src/api/documents.controller.ts:865`). The second of three progress invoices is cancelled while the third is
   a draft made out of it, the third is issued and takes off the first, past the cancelled one; the first can then be
   cancelled, which the comment at `documents.controller.ts:810-813` rules out. `DeductsItsChain` therefore speaks of the
   moment of issuing.
8. *Marked during a pass.* `DoneForItsDay` without its excuse (`d \in between`): a pass writes by the row it
   read before it asked the sources (`PS/deadlines/engine.ts:266`), so a deadline marked done meanwhile is moved to
   another day and stands as done for that day. The run contains the step; the excuse is for it alone.
9. *Put back by nobody.* `files` with `EndsAside = TRUE` violates `KeepsWhatIsNamed`: the process ends with a file moved
   aside that was put again just before (`PS/files/store.ts:237`), and nothing moves it back.
10. *A damaged upload.* Refused with 422, a file that was damaged on the way is let go (`PW/sync/client.ts:1351-1364`)
    and its version answered with a conflict, where the comment at `PS/files/controller.ts:109-114` has the next exchange
    send it again. `NeverAheadOfItsFile` allows for it (`letGo`).
11. *A telephone handed on.* `ToItsPerson` of `PushOutbox`: the row is bound to its new person and keeps the messages that
    wait for the one before (`PS/push/push.controller.ts:276`).
12. *A test beside a pass.* `push_outbox` with `TestsBeside = TRUE` violates `NothingGoesOutTwice`: a pass may claim the test
    message between its writing and the claim of its route, which does not ask for the clock (`PS/push/outbox.ts:265`).
13. *A mail server removed during a pass.* `giveUpPending` sets what waits to `failed`, and the mark of a pass that could
    not send one writes `pending` over it (`PS/mail/outbox.ts:138`). That message goes out when a server is set up again.
14. *An article that comes back unnoticed.* It leaves the part and joins it again while a device does not ask; a takeover
    in between leaves it unnumbered, and the device, finding the part as it was, does not start from 0. The comment in
    `take-over.ts` knows of the few milliseconds between the question and the commit, not of this.
    `HoldsTheArticles` allows for both (`excused`).
15. *Circles that recur.* Two transmissions and the office that take locks in opposite orders may be ended, sent again
    and ended again; nothing in the code spaces the retries.
16. *Other rows under the same text.* `SettledIsComplete`, `ComesToRest` and `NoForeignRows` of `DeviceStore` without their excuses. A job is
    given another site, customer or installation: the ids of the jobs are the same, so the text is, and the rows of the
    new site lie behind the cursor of the device until they are next written, while those of the old one stay on it. The
    comment at `APP/server/src/database/device-scope.ts:21-25` speaks of the jobs only, and `src/docs/entwicklung.md:462` of the part a
    technician holds, with the customer and the site.
17. *A pull of more than a hundred pages.* `StaysOnScreen` of `SyncClient` without its last disjunct: the pull leaves its
    loop (`PW/sync/client.ts:1138`), the exchange lets go of what settled (`930-933`) and says it went through, so an entry that was
    applied vanishes from the screen until the next exchange brings its row. Nothing asks for that one.

## 6. Plan

Done: `ChangeStream` with its proofs, `DeviceStore`, `SyncRules`, `SyncApply`, `Operations`, `SyncClient`,
`MailOutbox`, `DocumentChain`, `Files`, `Deadlines`, `PushOutbox`, `ArticleImport`.

Proved: every invariant and every action property the passing runs check but `LandsAsDecided`, for every value of the constants, with the
hypotheses section 4 names; of `LandsAsDecided`, in which ways alone it can fail; and both halves of the refinement of `Operations`, by `SyncClient` and by `SyncApply`.

Next, for who goes on from here:

* One specification of device and server in which a transmission is as `SyncApply` has it, statement by statement, so that two
  devices meet inside of one. The two halves of the refinement speak of the same `Operations`, but not of one behaviour.
* The resolving of a conflict and `writeDirectly`, in `SyncClient`.

No module that is proved about reaches a recursive operator: recursion is written as recursive functions and folds.

## 7. Not modelled, and why

* Deciding a conflict, `writeDirectly` and the clock of a device set back: extensions of `SyncClient`, whose instance is
  already the largest that finishes.
* Collective, partial and recurring invoices, credit notes, declined offers: further kinds of the steps `DocumentChain` has.
* The audit log: one counter row for each tenant with a hash chain behind it, serialised by a lock on that row. What
  would be checked of it is what `ChangeStream` shows of `HoldsCounter`; the hashes themselves are data.
* Authentication: mostly the better-auth library, which is not part of the repository.
* Row level security and migrations: policies of the database; every module starts from a transaction of one tenant.
* Privacy (access, erasure): long transactions over many tables, driven by tables of columns rather than by states.
* Stock, time, absences, appointments, pricing, PDF, e-invoice, forms, trades: arithmetic, layout and tables of examples.
* Screens, service worker, backup, containers: no protocol of their own, or one of the browser.

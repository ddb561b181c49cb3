# TLA+ verification of the Buildings and Grounds backend

The backend (NestJS, Prisma, PostgreSQL; `src/src/`) keeps the inventory of several
campuses, lends and transfers it, and runs the work requests and maintenance schedules of a
buildings-and-grounds office. Everything that can go wrong in it happens between HTTP
requests that run concurrently on one database: what a request reads, what it writes later
on the strength of it, and what another request did in between. The specifications here
model the handlers at that grain, TLC checks them on small instances, and TLAPS proves every
safety property of the passing runs for every instance: of the inventory, the work requests,
the maintenance schedules, the sessions and sockets of accounts, and the calendar.

## 1. Inventory of the system

| Component | State | Operations | Interacts with | What is hard | What makes it correct |
|---|---|---|---|---|---|
| Stock ledger (`stock-movements/`) | `InventoryStock` (quantity, reservedQuantity, isActive per item and campus), `StockMovement` | apply, reserve, releaseReservation, consumeReservation, transferReserved, deactivateBalance; manual movements | called by every stock-moving service inside the caller's transaction | many callers compete for the same rows; several statements in one transaction | stock equals its movements; reservations never exceed stock; nothing moves for an archived item |
| Item transactions (`transactions/`) | `ItemTransaction` | create, markAsReturned | ledger, items | markAsReturned reads before its transaction | an issue comes back at most once, and whole |
| Asset transfers (`asset-transfers/`) | `AssetTransferBatch`, `AssetTransferLine` | createBatch, approveBatch, rejectBatch, receiveBatch | ledger, item transactions | days pass between approval and receipt | reservations are those of approved batches; what was approved can be received |
| Inventory items (`inventory/`) | `InventoryItem` (isActive, status) | create, update, adjustQuantity, remove, updateStatus | ledger | every handler decides on something read earlier | archived only when empty, frozen once archived |
| Borrow requests (`borrow-requests/`) | `BorrowRequest` | create, approve, reject, markReturned, update | ledger, items, item transactions | reject and update write without a claim, update any status | movements match what became of a request nobody edited; no return restores stock twice |
| Work requests (`work-requests/`) | `WorkRequest`, `WorkRequestAssignment`, `WorkRequestAccomplishment`, activities | create, approve, reject, remove, assign, unassign, progress, complete (on behalf), reassign, hold, resume, reopen, cancel; acknowledge, clarification, rating; read scope and statistics | schedules, users, notifications | half of the handlers claim the row, half do not; ratings and clarifications are written to what was read | decisions are final; only approved requests are staffed; one lead; every assignment is announced; only completed work is rated; a question is not lost |
| Maintenance schedules (`maintenance-schedules/`) | `MaintenanceSchedule`, `WorkRequest.maintenanceCycleKey` | create, cron generation, recordRunHours, complete, update, deactivate, reactivate | work requests (both ways) | the cron job, readings and completions race; time | a due cycle gets one work request; only completion moves a schedule on |
| Authentication, users (`auth/`) | `User`, `RefreshToken`, reset tokens | login, refresh, logout, reset, role and office changes, deactivation | every guard | token rotation and revocation race; failed-login counts | revocation is final; one active administrator remains |
| Events (`events/`) | `Event` | create, update, archive, reactivate | audit log | edits overwrite each other; ranges given in days | an event ends after it starts; its audit entry tells its dates; a listing finds what overlaps its range |
| Gateways (`gateway/`) | socket map per user (in memory) | connect, disconnect, disconnectUser, notify, broadcast | accounts, notifications | handleConnection awaits the user's row; several sockets of one user; restarts | the map misses no open socket |
| Notifications (`notifications/`) | `Notification` | create, createInTransaction and emit, markAsRead, markAllAsRead | every service; gateway | pushed in a later turn than committed | what is pushed is stored, and is its user's |
| Audit log, reports, reference data, e-mail | rows written or read one at a time | | | single statements | |
| Application shell, database scripts | | wiring, seed | | nothing concurrent | |

Interactions are direct calls inside a process. Shared state is the database: a caller's
`$transaction` is READ COMMITTED unless it asks for SERIALIZABLE (transfers, the completion
of work requests and others do). PROJECT.json lists the hazards at their lines.

## 2. Plan

Order, most important behaviour first. "done" is in this directory.

1. `StockLedger`, `ItemTransactions`, `AssetTransfers` with proofs; abstract `StockCustody` (done)
2. `InventoryItems`, `BorrowRequests`, and their composition `InventorySystem` (done)
3. `WorkRequests`; `MaintenanceSchedules`, which composes schedules with work requests;
   the proofs about both (done, but for liveness, which is checked)
4. Proofs about 2: the inductive invariant of transfers carried to `InventorySystem`, the
   stock of archived items, the movements of requests; the refinement of `StockCustody` (done)
5. An abstract maintenance cycle (due, generated, done) that `MaintenanceSchedules`
   implements while nobody edits the schedule (next)
6. `AuthSessions`: token rotation, the auth version, lockout, the last administrator, with
   proofs (done); the placement of users in offices (next)
7. `GatewayConnections` (sockets across connects, disconnections, restarts), composed with
   accounts, and `Notifications` on top of it, with proofs (done)
8. `WorkFollowUps`: what is kept around a work request besides its status, with proofs (done)
9. `EventCalendar`, with proofs (done)
10. `MaintainableAssets`: the profiles that schedules need, whose deactivation counts the
    schedules before it writes (next)
11. `ConnectionPool` and `RowLocks`: transactions that wait for connections or for each
   other's rows (next)

Modules that are proved about declare no RECURSIVE operator; sums use the folds of the
community modules, which the proofs turn into cardinalities of sets of units (section 5).

## 3. How the modules correspond to the code

A database table is a variable that maps ids to rows; an id whose row does not exist has
state `absent` or `none`. A handler that runs in one transaction and claims what it changes
(a conditional `updateMany`, or SERIALIZABLE isolation) is ONE action: its guard is the
conjunction of the early returns and WHERE clauses, and a refusal rolls everything back, so
there is no step. A handler that decides on rows it read in an earlier statement is TWO
actions, `BeginX` and `CommitX` (`unassign` and `updateProgress` three), with a record of what it read in
between; `Abandon...` is the failure of the request or the loss of its process in between.
A READ COMMITTED transaction takes effect at its ledger UPDATE; that other requests see its
effect only from its commit on is not modelled.

- **StockLedger**: the stock tables, one operator per ledger method. `Apply`, `Reserve`,
  `ReleaseReservation`, `TransferReserved` carry the WHERE clauses as guards. Decimal(15,4)
  quantities are naturals in the column's smallest unit. `LedgerInit` is a database in which
  items were created with an opening balance; there, `moved = quantity` is what
  `InventoryService.create` records.
- **ItemTransactions**: `CreateTransaction`, `BeginReturn`/`CommitReturn`. A worker is a
  `markAsReturned` in flight.
- **StockCustody** (abstract): per item, what is on hand and what each issue holds. Stock is
  booked, handed out and taken back; transfers are invisible.
- **AssetTransfers**: the four batch handlers. The lines of a batch name distinct items, so
  the loop over lines is one update of the campus's column.
- **InventoryItems**: item handlers; a desk is one of them in flight.
- **BorrowRequests**: a clerk is a reject, markReturned or update in flight. The status of
  the item that approval writes before the ledger update is part of the same step. `update`
  writes any status (`EditStatuses` is all four in the run), as its DTO lets it. Two histories
  serve the properties: `requestMoves` counts the movements of each request by what they did,
  `edited` has the requests that `update` wrote to.
- **InventorySystem**: all of the above on the same tables.
- **WorkRequests**: a call is a remove, assign, unassign or updateProgress in flight; the last
  takes three steps, since the check of its actor and its claim of the request are two
  statements (`AuthorizeProgress`, `CommitProgress`). The
  unique index on active assignments gives a user at most one active row per request, so
  rows are counted (`terms`) and the role of the active one kept (`duty`). The users that
  approval assigns to maintenance work are the default assignee as LEAD or a team of members:
  `Approve` allows every outcome the lookup can have.
- **MaintenanceSchedules**: extends WorkRequests with schedules, the cycle keys of requests
  and the day. Generation and readings lock the schedule row and are one step; a keeper is a
  complete, deactivate or update in flight. Dates are days.
- **AuthSessions**: accounts, sessions, reset tokens and roles. A session is a refresh token
  with the access token handed out with it; `Accepted` is JwtStrategy's check of the latter.
  Nothing here takes a lock, so each handler is a request in flight that carries what it read:
  login reads the account, records the outcome (`CommitEnter`, `CommitFail`) and only then
  writes the session (`IssueToken`), and refresh ends in the same step. `failed` counts up to
  `MaxFailed`, from where on the code only looks at the lock; `locked` is the lock time as
  null, ahead or passed (`LockPasses`). Expiry of tokens is left out: an expired token is one
  nobody presents. A user's office, position and person are left out. The reads with which
  user administration begins (account, count of administrators, role) are one step with the same
  outcomes as three, for the reasons given there: an account is never deleted, a role never
  becomes active again, and whoever is no administrator any more needs no count.
- **GatewayConnections** extends AuthSessions with the sockets and the map `connectedClients`.
  handleConnection is `Connect`, `CheckConnection` (the read of the user) and `Register` or
  `Refuse`, since the event loop may serve anything while it awaits; everything else is one turn.
  A socket may be closed at any time (`Drop`); Socket.IO reports that to handleDisconnect, which
  knows a socket only once it is registered. A restart ends sockets, map and requests.
  `DisconnectUser`, which the handlers that end an account's sessions call after their commit,
  changes nothing: see "forced disconnection" in section 4.
- **Notifications** extends it with the Notification table. `CreateNotification` is the commit,
  of `create` or of the transaction that `createInTransaction` is part of; `PushNotification`
  is the later turn, and is lost with the process.
- **WorkFollowUps** extends WorkRequests: each of its handlers is taken whole, with the
  notification, completion record or nothing that it writes besides (`StaffingStep`,
  `ProgressStep`, `CompletionStep`, `OtherWorkStep`), and those of clarification and rating are
  added. An assignment row is named by request, user and number. `dialogue` is a history of the
  questions: how many were asked, whether the last one waits for an answer that has read it, and
  whether an answer was in flight when it was asked. A desk is a clarification or a rating between its read and its write. `ReadScope` and `Tiles`
  are what officers and workers see. A progress of 0% starts no record and percentages are left
  out, so `ProgressStep` may start one or not. A request without requester (walk-in) is one
  nobody asks about.
- **EventCalendar**: events with their dates, the dates in the latest audit entry, and editors,
  which are an update, archive or reactivate between `findOne` and its transaction. Both dates
  are resolved before the transaction and both are written. The listing is operators: `Boundary`
  takes a day to its first or last moment, `Matches` is the WHERE clause; its pages are left out.

## 4. What is checked

Passing runs:

| Run | Instance | Shows |
|---|---|---|
| asset_transfers | 2 batches, 2 items, 2 campuses, stock 2 | reservations covered, balances equal movements, approved batches can be received; the tables implement StockCustody |
| item_life | 1 item, 2 desks, 2 concurrent returns of a transaction, a batch | the books balance; an issue is restored once; no active disposed item; an archived item's stock moves by receipt only |
| inventory_system | a borrow request, 2 clerks that write any status, a batch, a return | reservations exact; the movements of a request match its status unless it was edited; a return restores stock once, also of an edited request |
| work | 1 request of either kind, 2+1 users, 2 calls | decisions final, only approved requests worked on, one lead |
| maintenance | 1 schedule of either basis, 2 requests, 1 keeper, 3 days or readings | a cycle has one request, none before the meter reaches it; only completion advances; a due cycle is generated (liveness) |
| accounts | 1 account, 2 requests in flight, 2 sessions, 2 roles | no session outlives its password, also one being opened or refreshed; ended sessions stay ended; lock and count agree |
| follow_ups | 1 request, 2 workers, a call and 2 desks, 2 assignments of each worker, 2 questions | only completed work is rated; every assignment is announced; workers see reviewed work only; a question stays open until it is answered or crossed |
| sockets | 1 account, 1 request in flight, 2 sockets, 1 session, 1 notification | the map misses no open socket; what is pushed is stored and its user's |
| calendar | 1 event, 2 edits in flight, 6 moments on 3 days | events end after they start, audit entries tell the dates; the listing, for every pair of bounds, finds what overlaps its range |

A type invariant is checked where the most modules meet: `SystemTypeOK` holds those of items and
borrow requests, `FollowUpsTypeOK` that of work requests, `NotificationsTypeOK` those of accounts
and sockets. `AbsentIsEmpty` of the ledger is part of `LedgerOK`, which is proved.

Runs that find a statement of the repository violated (see "findings" in PROJECT.json for
the lines):

| Run | What the code does |
|---|---|
| advance_twice | a late unassignment puts a completed maintenance request back to PENDING, and completing it again advances its schedule twice |
| cycle_reuse | work recorded one period early is completed without advancing the recurrence: the schedule stays at a cycle it had, for good |
| last_administrator | the last administrator is lost: the safeguard counts before it writes, and updateUser has none |

Three more things do not hold that the repository says, or that its reader would expect. The
models have what the code does, and the properties claim no more than that:

- *Edited borrow requests.* `update` (borrow-requests.service.ts:437-445) writes whatever status
  the client sends. PENDING written over an approval lets `approve` issue the stock a second time,
  although "A competing approval gets no claim and therefore cannot create issue side effects"
  (lines 137-138); APPROVED written by hand lets `markReturned` restore stock that never left.
  `RequestAccounted` without the exception for `edited` is violated for both reasons. What holds
  of every request is `StockRestoredOnce`: no edit clears `returnedAt`, which the claim of
  `markReturned` looks at.
- *Forced disconnection.* "Force-close all live sessions for an identity after authorization
  changes" (borrow-requests.gateway.ts:53). The gateway has the namespace '/borrow-requests' (line
  16), so what is injected as its server is that Namespace. Its `sockets` is the map of sockets
  itself and has no `sockets`, and line 58 throws for every user who has an entry: no socket is
  closed, the entry stays, the handler that called fails after its commit, and the removal of a
  role stops at its first connected user. The gateway's spec file passes because it hands the
  gateway a server of the declared type (`Server`). The map then has more than the open sockets,
  which `OpenIsRegistered` allows.
- *Crossed questions.* An answer that passed the check of `respondClarification`
  (work-requests.service.ts:1167) and commits after a further question marks that question as
  answered, though nobody has answered it. `QuestionsStayOpen` excepts exactly
  the questions that were asked while an answer was in flight.

The code repeats one shape that the models have and no property forbids: a status is read and
checked, and a later statement writes whatever the row has become. It is in
`InventoryService.remove` and `updateStatus` (the balances are counted before the item is
archived), in `reject` and `update` of borrow requests, in `remove`, `assign` (for a request
read as ASSIGNED or IN_PROGRESS) and `unassign` of work requests, and in `complete`,
`deactivate` and `update` of schedules. The properties that pass hold in spite of those steps:
reservations stay exact although a rejection overwrites an approval, a cycle has
one request although `complete` overtakes a reading. Of the same kind, without a statement in
the repository that they would violate: an archived item's issuance cannot be returned until
it is reactivated, a transaction without a campus never; a held work request cannot be cancelled before it is resumed; two
refreshes of one token both succeed; two unassignments that each see the other's worker, or a
process that ends between the two writes of one, leave a request ASSIGNED to nobody; a
serialization failure is reported and not retried.

**Bounds.** `MaxOnHand` bounds fresh stock of an item (0 to 2 covers empty, partly and
wholly reserved); `Amounts` are the quantities clients ask for; `MaxTerms` how often one
user is assigned to one request; `MaxVersion` how often an account's sessions are ended
(twice, so that a version read before can be written after another change); `Horizon` the last day, moment or meter reading; the sets of ids
bound how many rows are ever created. Two competing parties are where
the races are: no property relates three requests at once, and the guards compare a row
with what one request read. The calendar has three days, so that a range can start or end
within, at the edge of and outside an event, and two edits, which is what a stale date needs; an
operation looks at one event only, and so does the listing. Two sockets are what it takes
for one to be lost while another stays. A worker can be assigned twice to one request, which
tells an ended assignment from its successor. `MaxQuestions` is two, so that a question can follow
an answer, and two desks let a question and an answer, or two answers, be in flight together. The run has no
officer: what officers write there (progress, a rating) a worker or the requester writes as well.
Item handlers and borrow requests have a run each: they meet in the ledger, whose guards the other
run's callers exercise, and in the status of the item, which of the
properties only `DisposedIsInactive` looks at; the theorems
of section 5 are about all of them at once. Deadlock is not checked, because a system whose ids are used up stops.
Symmetry is used over workers, desks, clerks, calls, users, sessions and their requests,
editors and sockets, in runs without liveness.

**Fairness.** The specifications of the inventory, of work requests and their follow-ups, of
accounts, sockets and notifications, and of the calendar have none: every step is up to a
client, and a handler may fail or its process end between any two of its statements. `MaintenanceSpec` assumes weak fairness of `CronGenerate` for each
schedule, which `@Cron(EVERY_MINUTE)` justifies: a schedule that stays due is found by the
next run. Nothing else, not even the passing of days, is assumed to happen.

## 5. What is proved

`AssetTransfersProofs` begins with the ledger: each of its operations preserves `LedgerOK`
(types, coverage, balance) for any finite set of items and campuses. It then proves, for the
specification `TransferSpec` and any sets of batches, transactions and workers:

- `TransfersTypeCorrect`, `ReservationsAlwaysCovered`, `LedgerAlwaysBalanced`,
  `AlwaysRestoredOnce`, `ReservationsExact`, `ApprovalIsAPromise`, `TransfersKeepCustody`.

All but the last follow from one inductive invariant, `TransferInv == LedgerOK /\ TxOK /\ HoldingOK`.
The parts it adds are needed: that a worker's row is an issue or withdrawal with a campus
(else a restored quantity is not the one that went out), that the two campuses of a batch
differ, and that reservations are EXACTLY those of the approved batches. The last makes
receipt safe: a batch's lines are among the units reserved at its source, so coverage gives
its guard. Reserved quantities are compared with the cardinality of sets of held units, not
with a sum, so that `FS_` lemmas about finite sets carry the proof. Assumptions are the
named ASSUMEs of the modules: finite sets of items, campuses and batches, positive amounts,
fresh ids for the rows receipt creates.

`TransfersKeepCustody` is the refinement: every step of `TransferSpec` is a step of
`StockCustody` or leaves alone what it sees. The mapping adds balances over campuses and
movements over transaction rows with `MapThenSumSet`, a recursion over a set, and the provers
have no induction over sets. A sum is therefore counted: `SumOn(f, s)` is the number of units
above zero less the number below, both cardinalities, for which finite-set lemmas give the step
from a set to the set without one element (`SumOnStep`). `AddsIsSumOn` shows that the recursion
computes it, by a smallest counterexample: strict inclusion is well founded on the subsets of a
finite set. From there on a sum changes as one summand does. The invariant `CustodyInv` adds to
`TransferInv` that only finitely many rows are used (else a sum over them means nothing), that
issues name a campus, and that the issues of a batch do not exist before its receipt
(`LinesFresh`), so that receipt hands out rows that were unused. With `RestoredOnce` it gives
what the abstract specification promises at all times: stock on hand and stock held add up to
what was entered (`AmountsAccounted`). Steps are matched by kind: receipt is a hand-out, whose
total over both campuses falls by what it issues (`StockMoved`); a return takes one holding
back; RETURN transactions and other movements enter stock in the books.

`InventorySystemProofs` carries this to all callers at once, for any desks, requests and clerks:

- for `SystemSpec`: `SystemTypes`, `SystemReservations`, `SystemBooks`, `SystemPromises`,
  `DisposedStaysOut`, `ArchivedStockOnlyMoves`,
  `RequestsAccounted`, `StockNeverRestoredTwice`;
- for `InventorySpec` (no transfers, no requests): `ItemBooks`, `ArchivedStaysFrozen`.

The invariant is `SystemInv == InventoryInv /\ HoldingOK /\ RequestsOK`. To that of transfers
it adds: an item that was not created has no balance rows, so that creation with an opening
balance meets none; a status change in flight never carries DISPOSED, which has its own path,
so that a late one cannot leave a disposed item active; and the transaction linked to a request
is one of the requests' own and took stock out. `SystemAssumption` (the rows of receipts are not
those of requests: ids are generated) is what keeps receipt from overwriting the latter.
`BooksOK` needs nothing of the clerks: a reject or an update writes no stock.

The stock of an archived item is an action property. Every operation but receipt goes through
`Apply`, which refuses an item that is not active (`ApplyFreezes`), whatever its caller read
before. Receipt moves it, but cannot issue it (`CanIssueOnArrival`), so that what
leaves the source arrives at the destination and the sum over campuses stays.

What was moved for a borrow request follows from a second invariant, `ClaimsOK`
(`ClaimsInvariance`), for any statuses written by hand. Of a request that was not edited it says
that its movements are those of the claims it went through, one approval and at most one return,
read off the columns that only claims write (the linked transaction and the returned flag), and
how its status goes with these columns (`RequestBooks`); from this `RequestAccounted` follows by
cases of the status. It also needs what a clerk that will return has read, the type of the linked
transaction, which an unedited request does not change (`ClerkRead`). Of every request it says
that stock was restored only with the returned flag set (`RestoredByClaim`), and since no edit
clears that flag and the claim asks for it, `StockRestoredOnce` needs no exception.

`WorkRequestsProofs` proves, for `WorkSpec` and any requests, schedules, users and calls:

- `WorkTypeCorrect`, `OnlyApprovedWorkedOn`, `NeverTwoLeads`, `CompletedOnlyByAssigned`,
  `DecisionsAreFinal`.

The invariant is `WorkInv`. To the stated properties it adds what calls in flight know: one
that will write to a row, or staff it, read the row as APPROVED (`CallsApproved`), and an
approval is never taken back, so a late write finds it approved still; that is why the
unconditional PENDING of `unassign` can revive a cancelled request but not a rejected one. It
also needs that a rejected row is CANCELLED and hidden, that a row that does not exist is
undecided, that an active assignment is counted, and one lead as equality of leads, from
which `Cardinality(Leads(r)) <= 1` follows. The crew is assumed finite.

`MaintenanceSchedulesProofs` carries `WorkInv` over (to the work requests, generation is
the creation of a request) and proves for `MaintenanceSpec`:

- `MaintenanceTypeCorrect`, `ThresholdsReached`, `OneRequestPerCycle`,
  `OnlyCompletionAdvances`.

The steps fall in two kinds. Those that generate (`GenerateCycle`) use a key that was not in
use and, for a meter, has been reached; the others (`KeepCycles`) keep the cycles, and what
they do to schedules keeps a schedule's basis and never runs a meter back. The invariant adds
`CyclesKnown`: a row without a request has no cycle, and a cycle's schedule exists, so that
the first cycle of a new schedule is new and a schedule with cycles never changes its basis.
The proofs use no fairness. Frequencies are positive and there is at least one.

`AuthSessionsProofs` proves, for `AuthSpec` and any accounts, roles, sessions and requests:

- `AuthTypes`, `OldPasswordsEnd`, `LockWithCount`, `EndsForGood`.

The argument is that a version of an account belongs to one password and one activation. It
has two halves. Every handler lets an account age (`Ages`): its version never falls, and
while it stays, password and activation stay. A session, and every login or refresh on its
way to one, is `Sound`: its version is at most the account's, and if it is the account's, the
account is active and the password the one compared. Aging keeps soundness (`SoundKept`),
so a step needs only be sound with what it read: a late `IssueToken` writes an old version
and opens nothing, where one that read the version again would revive the old password. The
invariant needs the requests in flight as much as the sessions, since `IssueToken` takes its
word from them. `LockedWhenExhausted` is inductive with `MaxFailed` positive. That an
administrator remains is refuted by a run, so nothing is proved of it.

`NotificationsProofs` carries `AuthInv` over to accounts with sockets and notifications, and
proves for `NotificationsSpec` and any users, sockets, requests and workers:

- `NotificationsTypes`, `OpenAlwaysRegistered`, `PushesAreStored`.

The invariant relates the map and the sockets: every registered and connected socket is in the
entry of its own user (`SocketsOK`). A socket keeps its user from `Connect` on and is not used
again, which is why what was pushed to it stays its user's. A notification in flight is in
the table already (`NotesOK`); rows are never removed. Assumed: a token exists, and the marker
for no notification is none.

`WorkFollowUpsProofs` carries `WorkInv` over and proves for `FollowUpsSpec`, any requests,
users, calls and desks:

- `FollowUpsTypes`, `RatingsAreOfCompletions`, `AssignmentsAreAnnounced`,
  `WorkersSeeReviewedWork`, `QuestionsNeverLost`.

What is added is what desks know (`DesksReady`): a rating in flight is for a request whose
record is done, an answer in flight for one that was asked about. Neither is ever undone (a
record stays when the request is reopened, and clarification never returns to NONE), so that the
stale write is harmless. `AnswersRead` says which question an answer in flight has read: the last
one, unless that one has been answered or was asked after the answer began, so that whatever
answer commits closes no question that waits uncrossed. `WorkersSeeReviewedWork` needs `WorkInv` itself: a worker's request has
an active assignment, hence is approved. That no user is both worker and officer is assumed
(`FollowUpsAssumption`; a user has one role).

`EventCalendarProofs` proves for `CalendarSpec`, any events, editors and horizon:

- `CalendarTypes`, `EventsEndAfterStart`, `AuditAlwaysDescribes`, `ListingsFindOverlaps`.

The invariant adds that an update in flight carries a pair of dates that was compared as a pair
(`UpdatesChecked`). Both dates are written, also the one that was only read, so that the pair
stays a pair whatever other edits did meanwhile: an update that wrote only what was sent would
break it.

The listing is a fact about `Matches` for every row whose end does not precede its start
(`MatchesOverlap`): the two comparisons with the bounds find a row exactly when one of its
moments is in the range, for which the witness is the start of the event or the first moment of
the range, whichever is later. A bound given as a day is compared with the day of a moment; that
it is the same as comparing the moment with the first or last moment of the day is `DayBounds`,
the one step about division.

Only model-checked: `DueGenerated`, the liveness of generation, since the prover does not treat
fairness and ENABLED. The violations of the other three runs are found, not proved.

## 6. What is not modelled, and why

- Descriptive data: names, notes, due dates, control and reference numbers, progress
  percentages, the texts of notifications and activities, and audit entries but those of events.
- Work requests: `acknowledge` and `manuallyInform` (they record that and how a worker was told, in
  columns nothing reads) and `update` (descriptive
  fields of a pending request), which no other handler decides on; the read scope of requesters,
  which depends on offices; monthly counts and averages of the statistics.
- Gateways: broadcasts, and with them `inventory.gateway`, which keep no state; the connections
  of several processes, since the map is kept by one.
- Notifications: the pages of findMine and the unread count, which only read.
- Events: the fields other than the dates, the filters by type and campus, and the pages of a
  listing.
- Names, offices and positions of users, and token expiry. Outside AuthSessions users are active and hold their roles throughout.
- Reference data, reports, e-mail, shell and scripts: single-row edits, queries, or input
  and output; other modules take them as constants.
- Lock waits, connection pools and serialization failures: a transaction happens or does
  not. Deadlocks between transactions are listed as hazards and planned.

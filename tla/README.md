# Verification of SellMyHouse

Formal models of the platform that sells HDB resale flats (`src/src`), model-checked with
TLC and proved about with TLAPS. Source paths below are relative to the repository's
`src/` directory as it is named in `PROJECT.json` (`src/src/domains/...`).

## 1. The system

One Node process (Express, Prisma, PostgreSQL) serves sellers, agents, admins and viewers,
and runs cron jobs beside the HTTP handlers. There is no lock in the process: any two
handlers, or a handler and a job, interleave at every `await`. The database runs its
transactions at READ COMMITTED. Some invariants rest on the database (a row lock taken with
`SELECT ... FOR UPDATE`, unique indexes, an `UPDATE` with a condition on the old status);
many handlers read a row, decide, and later write it by id.

| Component | State it keeps | Operations that change it | Interacts with |
|---|---|---|---|
| Viewing | slots (status, counter), weekly schedule, viewings (status, OTP attempts), verified viewers | create one or many slots, save the schedule, book (which makes a window of the schedule real), verify, cancel, mark, cancel slots, remind | cancelled by Transaction and by consent withdrawal; Notification |
| Offer | offers (status, parent, AI analysis) | create, counter, accept, reject, review and share the analysis | accepted offer starts Transaction; voided by Compliance |
| Transaction | transaction (status, HDB progress, deadline), OTP, invoice, scans | create, advance, update HDB, create/review/advance OTP, upload, send and pay the invoice, fall-through cascade | reads Compliance gates; cascades to Listing, Viewing, portals |
| Listing and Review | listing and property status, text, approvals, portal contents | edit, status, generate, save, approve, reject, revert, close | gate on the agency agreement; reverted by Transaction |
| Photos | the list in `listings.photos`, two files per photo | upload, remove, reorder, reject, download, hard delete | approval is in Listing; deletion is Compliance's |
| Financial report | versions of an estimate with narrative and status | calculate, write the narrative, approve, reject, send | Review, Notification |
| Seller | status, onboarding step, case flag | complete a step, transition, flag, cascade of a completed sale | Compliance, Lead |
| Seller documents | row and encrypted file of each document | upload, download one or all, delete, purge, deletion of the account | the daily purge; the agent |
| Compliance | consent and its records, CDD, agency agreement, corrections, deletion requests, periods of retention | withdraw, grant, verify, sign, correct, scan, purge, execute | all of the above |
| Lead, Admin | verification link of a lead, agents, the default agent, assignments | submit, verify, resend, assign, deactivate, anonymise, reactivate | Seller, Notification |
| Auth | password and its links, lockout, second factor, backup codes | register, invite, set up, forget, reset, log in, set up and use 2FA | - |
| Notification | rows of a message on each channel | send with fall-back, callback of the provider, read, unsubscribe | called by all, awaited by none for its result |
| Content | testimonial, market content of a week, referral link | send the link, submit, approve, feature, generate, click, refer, complete | Lead, Seller, a daily job |
| HDB data | copy of the resale transactions | fetch page by page, retry | a weekly job |
| Jobs | which job is running | the cron's ticks, a run's steps, failures | Viewing, Transaction, Compliance |
| Agent, shared services, HTTP and storage | single fields, files, start-up | - | see `PROJECT.json` for each |

What is hard here, and where:

- *Interleaving at every await.* Two bookings of the last seat, two acceptances, two counters of
  one offer, two approvals of one listing or report, two uploads, two uses of one link or code, a
  download of one document beside a download of all.
- *A check that is stale when its write lands.* `cancelViewing` (whose write revives a slot cancelled meanwhile), `rejectOffer`, `advanceOtp`,
  `updateListingStatus`, the photo list, the list of a CDD record, the seller's status, the onboarding step, the agent found
  active by an assignment while another handler deactivates him, a page left open by an approver.
- *One step of several failing.* The fall-through cascade is five writes in no transaction,
  the portals' contents three, a photo's removal three; a deletion is executed and then marked, a
  seller anonymised and then his notifications; a row and its file are never written together.
- *Legal calls in an order nobody meant.* Approving after a rejection or a closing; cancelling a slot
  after its viewings took place; withdrawing consent in the middle of a sale.
- *Timeouts, retries and late answers.* A provider that takes a message without answering, callbacks out of
  order, a job that starts late, is skipped or dies, a page of the copy fetched again while the dataset grows.
- *What must happen eventually.* Personal data past its period goes; a WhatsApp that failed is followed up; a
  referral completes with the sale.
- *Limits.* Seats, bookings per phone and day, slots, OTP attempts, photos and documents, failed logins.

`PROJECT.json` lists each of these as a hazard at its line, with the properties that cover it.

What makes each component correct:

- Viewing: seats are never oversold; counter, slot status and viewings agree; cancelled is final; the three
  calendars agree; the limits on slots hold; a reminder comes as often as its window allows and no more.
- Offer: one acceptance per flat; a negotiation is a chain; outcomes are final; an analysis is
  shared only after review.
- Transaction: the status moves forward only; the gates hold when it moves; the OTP follows its
  order, is reviewed before it is issued and has a deadline after; a sale that fell through is off
  the market; an invoice is announced before it counts as sent; a paper and its row agree.
- Listing: live means agreed and listed; both approvals together publish; portals carry what was
  published; the status follows its table.
- Photos and documents: the limit holds; one is listed once and has its files; nothing is lost silently; a document
  is received once.
- Compliance: nothing is anonymised while its sale is open, everything is once its period is over; a deletion executed is
  complete and its own; the consent record says what the flags say.
- Seller, Lead, Admin: a status announces nothing that was not done; nobody is left with an agent who has gone.
- Auth: what works once works once; failures are counted.
- Notification: a row says what happened; a message arrives once; whoever said no hears nothing.
- Content, reports, HDB data: what is shown was approved as it stands; a copy that succeeded missed nothing.

## 2. How the models are made

**Requests.** A handler in flight is an element of `Requests` (`PhotoRequests`, `AccountRequests`, `Handlers`, `Callers`, `Clerks`, `Sends`) with a local
record: the next step (`op`) and what it has read. An action is what runs between two awaits that another
handler could tell apart: all the reads a handler decides on before its first write are its
first action, each write is one more. Reads merged that way are
those between which no write of another modelled handler changes the decision other than by having
happened before or after both. Handlers that write once, on nothing they read earlier or on a
condition the statement itself checks, are one action. One action (`Fail`, `Abort`, `Die`, `Quit`, `Abandon`, `Drop`) lets a
request end at any await (an exception, a refused write, a restart): what it has written stays, and nothing retries it,
as in the code.

**Jobs.** A job of `runner.ts` selects its rows with one query and treats them one after the other; the runner never has it
running twice, catches what it throws, and starts it afresh at the next tick. `node-cron` makes up for no tick that was missed.

**The database.** Every statement sees what is committed when it starts. Row locks are modelled
where they decide: `createViewingWithLock` is one action because it holds the slot's row; the
cancellation of a slot is two because its transaction locks row by row in two statements; accepting
an offer is three (lock and update, unique index and snapshot, siblings and commit).
`updateMany ... where status = old` is an action guarded by the old status. Unique indexes are guards.

**Ghost variables.** They record history for properties and no guard of an action reads them.

| Ghost | Module | Holds |
|---|---|---|
| `contended`, `shared`, `raced`, `doubled`, `crossed`, `overtaken` | most | rows on which two requests were at work at once, or a write landed on a reading no longer true |
| `abandoned`, `torn`, `cut`, `broken`, `slipped`, `stray`, `lost` | most | rows on which a request ended between two of its writes, or files no row names for a reason the code admits |
| `got` | SellerDocuments | which requests returned a document |
| `killer` | PersonalData | what deleted each row |
| `fresh` | Retention | sales opened since a job made its list |
| `mailed`, `opened`, `spent` | Account | links sent, links that set a password, codes that let somebody in |
| `missed`, `late` | Reminders | what a firing came to nothing for; that some firing was late |
| `made`, `during`, `resaved` | Slots | how a slot came about; what was inserted or revived since a cascade listed the slots; that a schedule was saved after it |
| `vouched` | Engagement | that the CDD was verified when the agreement was made |
| `vetted`, `submissions` | Content | the text the approver had before him; the texts a link took |
| `notices` | Reports, Invoice | announcements made |
| `promised`, `cut` | HdbSync | what a run had to fetch when it started; the months of which a page held some records only |

The code does not keep every invariant under races: where it visibly relies on one user acting on a row
at a time, the property is stated for rows outside such a set, and no more weakly. The properties
stated without it (seats, one acceptance, chain, forward status, retention, review of the OTP,
agreement of a live listing, publication of a reviewed one, photo limit, one receipt of a document, flagged once, executed by its
own deletion, attempts and truth of a message's rows) are those for which the code
has a lock, an index, a conditional write or an order that makes them hold under every interleaving. What
an exception hides is in the findings (section 5): a property with an exception says nothing of the race or the crash it
excepts, and what the code does there is said by a finding, with the document that promises the thing without exception where there is one.

**Data.** Texts, photos, people and amounts are identities. A row that does not exist has status
`"none"`. Time is left out where only "past or not" is asked (an OTP or a link may expire at any moment, `age` counts the periods
that have passed since a sale ended) and is a clock of the job's own unit in `Reminders`, where the windows are the question.

**Constants that stand for rows the application never writes.** `EaaConfirmed` in `Transaction`:
`markOtpReviewed` wants the transaction's agency agreement, and
`transactions.estate_agency_agreement_id` is written by the seeding script only.
`BuyerVerified`: the Reg-12B gate looks the buyer's CDD record up by the offer's id
(`transaction.repository.ts:276-290`) while the compliance router records the transaction's, and the
counterparty's verification (`VerifyCounterparty`) is no request's step for the same reason: no
handler performs it. `CoBroke` are the sales whose buyer has an agent.

## 3. Modules

| Module | Models | From |
|---|---|---|
| `Viewing` | bookings: `initiateBooking`, `verifyOtp`, `cancelViewing`, `markNoShow`, `markCompleted`, `cancelSlot`, `bulkCancelSlots`, the cascade | `viewing.service.ts`, `viewing.repository.ts` |
| `Slots` | slots created one by one or in bulk, the weekly schedule, windows made real by a booking, what the cancellation of a viewing writes in its slot, the cascade, three calendars | `viewing.service.ts`, `recurring.utils.ts`, `viewing.repository.ts` |
| `Offer` | negotiation: create, counter, accept, reject, AI analysis, voiding | `offer.service.ts`, `offer.repository.ts` |
| `Sale` | what a sale promises, without requests, gates or cascade | abstract; `transaction.types.ts` |
| `Transaction` | sale, HDB progress, OTP, gates, cascade, consent withdrawal; implements `Sale` | `transaction.service.ts`, `review.service.ts`, `compliance.service.ts` |
| `Invoice` | commission invoice: upload, send, pay | `transaction.service.ts` |
| `SaleDocuments` | scans, invoice, identity documents: upload, removal, download, purge, each reading before it writes | `transaction.service.ts`, `compliance.service.ts`, `compliance.router.ts` |
| `Listing` | status, review, portals' content | `property.service.ts`, `review.*.ts`, `portal.service.ts` |
| `Photo` | list and files of a listing's photos | `photo.service.ts`, `portal.service.ts` |
| `Reports` | versions, narrative, two routes to approval, sending, what the seller finds listed | `financial.service.ts`, `review.service.ts` |
| `Engagement` | status, onboarding, CDD, agreement, case flag, correction | `seller.service.ts`, `case-flag.service.ts`, `compliance.service.ts` |
| `Team` | leads, verification, assignment, departure of agents | `lead.service.ts`, `admin.service.ts`, `admin.router.ts` |
| `SellerDocuments` | documents, their files, purge, deletion of the account | `seller-document.service.ts`, `account-delete.service.ts` |
| `PersonalData` | consent and its records, deletion requests and their execution | `compliance.service.ts` |
| `Retention` | weekly scan and daily purge, step by step | `compliance.service.ts`, `runner.ts` |
| `Account` | password, links, lockout, second factor, backup codes | `auth.service.ts`, `auth.repository.ts` |
| `Notification` | one message: checks, channel, provider, retries, fall-back, callbacks | `notification.service.ts`, `providers/` |
| `Reminders` | the reminding jobs under a clock | `viewing.jobs.ts`, `transaction.jobs.ts`, `runner.ts` |
| `Content` | testimonial, weekly content, referral link | `content.service.ts`, `content.repository.ts` |
| `HdbSync` | copy of the resale transactions | `sync.service.ts` |
| `MC*` | the instances TLC checks | - |
| `ViewingProofs`, `OfferProofs`, `TransactionProofs`, `ListingProofs` | theorems about the module of that name | - |
| `SellerProofs` | theorems about `Team` and `Engagement` | - |
| `MessagesProofs` | about `Invoice`, `Notification` and `Reminders` | - |
| `ComplianceProofs` | about `PersonalData`, `SellerDocuments`, `SaleDocuments` and `Retention` | - |
| `OfficeProofs` | about `Account`, `Reports`, `Slots`, `Content`, `HdbSync` and `Photo` | - |

**Viewing.** `BookStart` is `initiateBooking` up to its transaction, `BookCreate` the locked
insert and counter. `VerifyStart` reads the viewing, then `VerifyInvalid` counts an attempt or
`VerifyValid` schedules and `VerifyViewer` marks the phone verified. `CancelStart`/`CancelCommit` are the check and
the atomic decrement, with the slot's status computed from the counter read. `CancelSlotsStart`
(any chosen set of slots) and `CascadeStart` (all) go slot after slot through `SlotCancelViewings` and
`SlotCancelCommit`.

**Slots.** `CreateSlot`, `CheckActive` and `InsertSlot` are the overlap check, the count and the insert of one slot;
`CreateBulkSlots` and `CreateManySlots` the same for many, which checks the total only. `SaveSchedule` promises windows,
`BookWindow` and `MaterialiseRecurringSlot` make one real. `Cascade`, `CascadeSlot` and `CascadeEnds` are the fall-through:
the slots listed, then one after the other, then the schedule. The counts of a slot are Viewing's; here it only matters that a slot has a viewing (`viewed`):
`CancelViewing` reads it and `CancelViewingAtomically` writes the slot's status by id, so a slot cancelled in between, or one whose cancellation
missed a viewing booked between its two statements, is live again. `PublicPage` and `SellerCalendar` are what the pages compute.

**Offer.** `CreateOffer` and `Analyse` are the insert and the AI call after it. `AcceptStart`,
`AcceptUpdate`, `AcceptIndex` and `AcceptCommit` are the check and the three moments of the transaction at
which others can intervene. `CounterCommit` compares and sets, so is one action.
`VoidStart`/`VoidCommit` are the seller's withdrawal of consent on the negotiation.

**Transaction.** `AdvanceStart` checks the move, `CounterpartyGate` and `CompletionGate` run the
completion's gates and refresh the retention, `StatusUpdate` writes if the status is still the one read.
`MarkFallenThrough` starts the cascade: `ReadOtp`, `ExpireOtp`, `ExpirePortalListings` (of a listing with the
property's id, as the code calls it), `CancelSlots`, `RevertToDraft`. `WithdrawConsent` goes the other way:
`WithdrawSlots`, `CloseListing`, `WithdrawFall`. `OtpStart`, `OtpCommit`, `ReviewOtp`, `AdvanceOtpStart`,
`AdvanceOtpCommit`, `SetExerciseDeadline` are the OTP; `HdbStart` and `HdbCommit` HDB's progress.
A seller has one transaction in it. `Sale` is the same row seen by the people in the sale: forward or through, completed only
when retained, in the buyer's hands only when reviewed.

**Listing.** `StatusStart`, `EaaGate` and `StatusCommit` are `updateListingStatus`;
`propertyService.updateListingStatus` has no caller outside the tests, and is modelled as the module's
public operation. `EditStart` is the price or detail edit that makes a live listing go back to review;
`CloseStart` the withdrawal's closing; `RevertStart`/`RevertCommit` the cascade's return to draft.
`ApproveDescription`, `SaveText`, `ApproveRead`, `ApproveCommit` and `ApprovePhotos` lead to
`PromoteRead`/`PromoteCommit` (`approveListingIfFullyReviewed`, which reads and writes in a
transaction that locks nothing in between) and `GenerateRead`/`UpsertPortal` (one portal after the other).

**Photo.** An upload is `UploadStart` (look for the content), `SaveOriginal`, `SaveOptimized` (or the
clean-up), `AddRead` (limit) and `UpdateListingPhotos`, the write of the whole list. A removal is
`RemoveStart`, `UnlinkOriginal`, `UnlinkOptimized` and the same write; a reordering `ReorderStart` and the same
write. A download is `DownloadStart`, then `ClearOptimized`/`ClearOriginal` for each photo and
`ClearListingPhotos`. `HardDelete` deletes the rows and, as the code does, finds no file.

**SellerDocuments and SaleDocuments.** A file and its row are written by two steps and deleted by two. `ClaimForDownload` and
`ClaimAllForDownload` mark rows with one conditional update, then files are read, unlinked and the rows finished; the bulk download also takes
up what a single one has claimed, and it is the file that decides who gets it. `DeleteSellerAccount` collects the paths, deletes the rows
and then the files. In `SaleDocuments` a path sits in a column, or in the list of the CDD record; a new scan replaces the path and leaves the old file, as in the code.
`ReadToAdd`/`AddCddDocument` and `ReadToRemove`/`RemoveCddDocument` read the list and write it whole, without a lock. The purge is one database transaction in four steps (`ReadOtp`, `ReadInvoice`, `ReadCdd`,
`PurgeTransactionSensitiveDocs`, which commits): a path that comes after the read of its row is cleared with the rest and its file left behind, while a row the transaction has
written waits for its commit (`OtpLocked`, `InvoiceLocked`). A download of one document is of an option's scan, the invoice or one CDD document (`FilesOf`); `MarkOtpScannedCopyDeleted` clears both scans' paths by id.

**PersonalData and Retention.** `WithdrawConsentAtomically` and `GrantConsentAtomically` write the record from what the handler read, and
the flag, in one transaction; a withdrawal then makes a deletion request. `ExecuteHardDelete` checks the status; `CollectFilePaths`, `HardDelete`,
`UnlinkFiles` and `UpdateDeletionRequest` follow in the order of the target's kind. In `Retention` a job has a program of steps
(`StartJob`, `RunJob`); `FailJob` ends a run at any row, and the rest of the run with it. The rest of the world opens, completes or
ends sales and lets periods pass. A sale has a scan or an invoice when it falls due, or none (`papers` of a scenario: never uploaded, or downloaded and deleted before), and
is then passed over by the purge; the documents of the CDD record (`documents`) and its digits of the NRIC (`nric`) are apart, because `RedactNricFromCddRecordsBatch` clears the second only.

**Engagement.** Each handler is a read with its checks and a write by id: `status`, the onboarding step with the data it needs, the CDD record, the agreement (whose
activation activates the seller in a second write), the flag, the correction (its status, then the field).

**Team.** `SubmitLead` reads the default agent before `SubmitLeadAtomically` writes seller, consent and records; verification tokens, their expiry and
resending; `assignSeller`; `deactivateAgent` and `anonymiseAgent` count the work (`CountActiveSellers` refuses an agent who has some) and then change the agent (`EndAgentCommit`).

**Account.** A handler keeps the link it was opened with; setting a password and clearing its link are two writes.
A failed login is counted by `IncrementFailedLoginAttempts` and locked by `LockLogin`, two writes on a count read before; so are `IncrementFailedTwoFactor` and `LockTwoFactor`.
A lock that has run out (`"past"`) stays in its column until a login succeeds. Backup codes are written back as the list computed from
the one read.

**Notification.** `Send` checks consent and the case, writes the in-app row, and chooses the channel; `SendStep` is whatever await comes next: row, provider (which may take the
message and lose its answer), retries, failure, fall-back row and email, word to the agent. Callbacks and the recipient come at any time; one with an account marks any row of his as read, of whatever channel.

**Reminders.** `Tick` moves the clock, at most `MaxLate` past a firing; `Fire` lists what is in the window; `TakeNext`, `Dedup`, `SendReminder`, `MarkFollowupSent` and `ItemFails` are the loop;
`Stop` and `Start` a restart.

**Content, Reports, HdbSync.** A page an approver has open is a request whose reading may be past. A report has the route of its own page, which looks at narrative and sending,
and the route of the review queue, which looks at the status. `ListedForSeller` is the list on the seller's page; the route of one report
asks for no status (section 5). A run of the copy reads the latest month held once and fetches
pages newest first until one brings nothing new or the dataset ends, which others add to meanwhile. The request sorts by month and nothing else, so an answer is
a page of any order of the records that has the months descending (`Firsts`, `Pages`), and the next answer of another.

The modules meet in the rows they share: the seller's withdrawal of consent is one handler whose
writes are in Offer (`VoidStart`), Transaction (`WithdrawConsent`), Listing (`CloseStart`),
Viewing (the slots) and PersonalData (record, flag and request), each module seeing the other parts as steps that do not touch its rows. Transaction
composes the sale with its slots, listing and OTP, because the cascade and the withdrawal relate them; the completed sale is what
`Retention` starts from, what `Content`'s job completes a referral with and what ends a seller in `Engagement` and `Team`. `MCPersonalData`, `MCSeller`,
`MCDesk`, `MCMessages` and `MCOffice` put modules side by side that share no row: the constant variable `part` says
which of them a behaviour belongs to, so that one run checks each by itself and no interleaving without consequence is counted.

## 4. Runs

| Run | Instance and bounds | States | What it shows |
|---|---|---|---|
| `viewing` | one single slot and one open house with one seat each, 3 viewings, 2 phones, 2 requests; 1 booking a day, 1 OTP attempt (the code has 3 and 3) | 1.08 M | counter within capacity and daily limit under every interleaving allowed; accounting, no overbooking, finality of cancellation |
| `offer` | 3 offers on one flat, 3 requests, one offer goes on to an analysis | 0.48 M | one acceptance, chain, closed counter-offer, final outcomes, reviewed before shared |
| `transaction` | 1 sale, 2 requests, no buyer's agent so that every gate is in force | 0.89 M | implements `Sale`; gates, OTP order, deadline, withdrawal from the market, the cascade's OTP |
| `listing` | 1 listing, 2 texts, 2 of the 3 portals, 2 requests | 0.94 M | live is agreed and listed, reviewed is published, portals carry the text, transitions |
| `desk` | 3 windows of one date, 2 slots a day and in all (10, 200), 1 of them with viewings at a time (`MaxViewed`); or 1 listing, 3 photos of 2 contents, limit 2 (20 in the code), orders of up to 2 ids; 2 requests | 0.84 M | calendars and their limits, what a cascade leaves; limit, unique content, files of the photos listed; cancelled stays cancelled where no viewing stands; a photo leaves the list after its files |
| `retention` | 1 seller, 2 sales (one perhaps without scan or invoice) or a row of each other kind, both jobs, one failing run | 0.21 M | flagged once, redacted together, open sales kept; liveness: every seller whose sales completed is forgotten (but for CDD documents where a sale had no papers), nothing stays due |
| `retention_fallen_through` | same, no failure | - | violation of `FallenThroughIsForgotten` |
| `retention_cdd_documents` | same, no failure | - | violation of `CddDocumentsAreDeleted` |
| `personal_data` | 3 documents (limit 1) or 2 papers (at most 1 identity document counted; 5 in the code) or 2 deletion requests; 2 requests | 2.26 M | one receipt, files accounted for, overshoot bounded; papers and rows agree but for paths overwritten unread and torn writes; consent record; executed deletions |
| `seller` | 1 seller, 2 agents, 2 CDD records, 1 flat made of a lead's details; or an account with 3 links, 2 set-ups of 3 codes, lock at 3 failures (5 in the code), counted to 6; 2 requests | 1.50 M | what a row announces was done; tables of transitions; nobody with an agent who is gone; links and codes work once; bounded failures |
| `messages` | 1 message with 2 tries (3 in the code); 2 viewings or deadlines, clock to 10, 1 unit late; 2 requests on an invoice, 3 announcements | 0.61 M | truth of rows, delivered once, silence kept; reminders; invoice; liveness: a failure is followed up |
| `office` | 2 handlers; 2 texts, 2 weekly rows, 2 visitors, 1 bad run; 2 reports; 5 records, pages of 2 (10 000), 2 tries (5), 2 runs | 0.27 M | approved as it stands, reports, a copy misses nothing outside a month a page cuts; liveness: a referral completes |

Why the bounds are enough for what is asked. Every race in this code is between two handlers: two requests
show it, and Offer has three because an acceptance can wait for a lock held by another while a third
commits. Rows of different slots, flats, sales or listings meet only where a property says so (a phone's
bookings on two slots; offers on one flat; two sales of one seller), and those instances have both. Counters are scaled
so that the limit and the step past it are both reached: the open house has one seat where
`calcOpenHouseMaxViewers` gives ten or more (its slot still takes the branch for groups), the phone one booking
a day, the OTP one attempt, the listing two photos, the login three failures and room for the overshoot of two handlers. Two portals have one already made while the other is still to
make. The three windows of `desk` are two neighbours and one that overlaps both, and the one slot with viewings may be any of them. The five records of `office` are three months, one of them seeded and two of
two records each, so that a run needs more than one page and a month is cut by a page in some runs and in none in others. The two papers of `personal_data` are a scan beside the one
that replaces it, two documents of one CDD record, or one of each. In `messages` the clock's horizon takes in every firing whose window
can hold an event, and one more. `retention` gives each kind of row of the scan the occasion to be due behind a step that fails.

`viewing` has the constraint `OneContendedRow` (interleavings on one contended slot or phone at a time;
properties speak of rows outside `contended`, or of the counter of a single row) and a `VIEW` that forgets
what a finished request leaves behind; `offer` the constraint `OneAnalysis` (analyses of two offers share no row).
Symmetry is on identities no action tells apart (requests, texts, links, documents, photos of equal content), and in none of the runs with a liveness
property (`retention`, `messages`, `office`). The deadlock checks of `offer`, `desk`, `messages`, `office`, `personal_data` and `seller` are off: there the identities or the clock
of an instance run out and the system stops because nothing is left to create; where the check is on, no reachable state is stuck.

Each property of a passing run has a mutant in `PROJECT.json`: a definition of the module whose name ends in a
suffix (`UploadStart_AnyContent`) is the plausible bug that breaks it.

**Fairness and liveness.** Fairness is stated only for what the process does by itself.

- `Retention`: `WF(StartJob(j) \/ RunJob(j))` for each job. The cron ticks for ever and an await ends, so a job that is not running starts and one that is goes on. Failures are
  finitely many (`MaxFailures`), anywhere. `SellerIsForgotten` and `DueIsHandled` then say that no failing step starves the ones behind it
  for ever. Nothing forces a sale, a withdrawal or the passing of time.
- `Notification`: `WF(SendStep(s))`. A call under way goes on; it may also die, or the database fail, at every step. `FailureIsFollowedUp` says that
  a failed WhatsApp has an email in its place, or the agent was told, or there was nobody to write to, or the call was thrown out.
- `Content`: `WF` of the daily job, the start of a run and the write of a row. `ReferralCompletes` survives finitely many bad runs.

The handlers of users have none: a booking never verified keeps its seat, a cascade that failed is not run again, a deadline that passes
expires nothing. Under any fairness the code justifies nothing is bound to happen there, since every request may die.

## 5. Findings

They are in `PROJECT.json` under `findings`, each at its line and with the document or comment it contradicts. Two have a run, which TLC ends with a behaviour
that breaks what the document says:

- `retention_fallen_through`: the papers, the price and the seller of a sale that fell through are never purged, since every query of the scan asks for a completion date.
- `retention_cdd_documents`: the purge passes over a sale with no scan and no invoice, and what makes up for it clears the digits of the NRIC, not the documents.

The others were met while reading, and are why a property is stated with an exception. The most telling:

- *Viewing*: a double cancel frees two seats; cancelling a slot rewrites outcomes; a reminder on the boundary of two runs goes out twice; the prompts for
  feedback fail on every row; a cancelled window of the schedule shows as available to the seller; a viewer's cancellation makes a slot
  available again that the seller cancelled between its read and its write.
- *Offer and sale*: a rejection overwrites an acceptance; an accepted offer survives the withdrawal of consent; an OTP can outlive the cascade; portal listings are never
  expired because the cascade passes a property's id; CDD retention at completion is seven days; nothing expires an OTP at its
  deadline; the second of two sendings writes `sent_to_client` over `paid`.
- *Listing and photos*: an approval reopens a closed listing; a rejected text keeps its approval; an edited listing is in no review queue; photos added after
  approval are never reviewed; an order of photos may repeat an id; a hard delete leaves the photos' files.
- *Compliance*: a deletion executed and not marked can never be marked; a seller anonymised when the run dies keeps his notifications; the unsubscribe link
  records a service consent that was withdrawn; an OTP's second scan stays on disk when the first is downloaded; of two uploads to one CDD record
  the first is no longer in its list, and together they pass its limit.
- *Auth*: a backup code used beside another one comes back; the confirmation of 2FA counts failures and never locks.
- *Content, reports, data*: a late click overwrites `lead_created` and the referral never completes; a text submitted later is approved from an old page; a report without
  narrative passes through the review queue; the seller reads the AI's narrative by the id of his report before an agent approved it; a month of resale transactions published in parts is fetched in part,
  and of a month two pages share a record may never come, since nothing orders the records of a month.

## 6. What is proved

For every value of the constants that satisfies the module's `ASSUME` (identities distinct, functions typed; for
Viewing, finitely many viewings and at least one seat; for the rest, see below the table):

| Module | Theorem | By |
|---|---|---|
| `ViewingProofs` | `TypeCorrect`, `CapacityKept`, `AccountingKept`, `NeverOverbooked`, `SeatsAreSoundKept`, `CancelledStays` | `Inv` |
| | `DailyLimitKept` | `DailyInv` |
| `OfferProofs` | `TypeCorrect`, `OneAcceptedKept`, `CounteredOnceKept`, `CounterOfferClosedKept`, `NegotiationIsSoundKept` | `AcceptInv` |
| | `SharedOnlyReviewedKept` | `AnalysisInv` |
| | `OutcomeIsFinalKept` | `OutcomeInv` |
| `TransactionProofs` | `TypeCorrect`, `SaleImplemented` (the refinement of `Sale`), `CompletedIsRetainedKept`, `IssuedIsReviewedKept`, `IssuedHasDeadlineKept`, `OptionIsSoundKept` | `SaleInv` |
| | `FallenThroughIsWithdrawnKept`, `CascadeExpiresOtpKept` | `CascadeInv` |
| | `SubmittedIsExercisedKept`, `StepsAreGatedKept` | `GateInv` |
| `ListingProofs` | `TypeCorrect`, `LiveIsAgreedKept` | `AgreedInv` |
| | `ReviewedIsGeneratedKept` | `GeneratedInv` |
| | `LiveIsListedKept`, `FollowsTransitionsKept`, `ListingIsSoundKept` | `StatusInv` with the above |
| | `PortalsCarryDescriptionKept` | `CarriedInv` |
| `SellerProofs` | `TypeCorrect`, `InactiveHasNoWorkKept` | `TeamInv` |
| | `OutcomeIsBackedKept`, `EngagementFollowsRulesKept` | `EngInv` |
| `MessagesProofs` | `TypeCorrect`, `InvoiceIsSoundKept` | `InvoiceInv` |
| | `DeliveryIsSoundKept` | `SendInv` |
| | `RemindersAreSoundKept` | `JobInv` |
| `ComplianceProofs` | `TypeCorrect`, `ConsentIsSoundKept`, `ErasureIsSoundKept` | `DataInv` |
| | `DocumentsAreSoundKept` | `DocInv` |
| | `PapersAreSoundKept` | `PaperInv` |
| | `RetentionTypeCorrect`, `RedactionIsSoundKept`, `OpenSaleIsKept` | `RetentionInv` |
| `OfficeProofs` | `TokensWorkOnceKept`, `LoginIsSoundKept` | `AccountInv` |
| | `ReportsAreSoundKept` | `ReportsInv` |
| | `CalendarIsSoundKept`, `CancelledStaysOffKept` | `SlotsInv` |
| | `PublishedIsReviewedKept` | `ContentInv` |
| | `SyncFetchesAllKept` | `SyncInv` |
| | `PhotosAreSoundKept`, `LeavesAfterItsFilesKept` | `PhotoInv` |

With these every invariant and every action property a passing run checks is a theorem. A module checked as one
`part` of an instance is proved about as it stands there: `SellerProofs`, `MessagesProofs`, `ComplianceProofs` and `OfficeProofs` extend
the instance's module, whose constants are still arbitrary (`OfficeProofs` also `Slots`, `Account` and `Photo`, which the instances `desk` and `seller` extend), and the theorem is about the part's own specification (`EngSpec`, `RemindersSpec`, ...).

The assumptions are about what identities are called and what is finite, and these, which the code has to justify:
`LateAssumption`, a timer of the process fires within one unit of its job, else a window of the reminders has a third firing (the
run `messages` fails with two); `DocAssumption`, the limit of documents is at least one and requests are finitely many, as what is counted is; `MaxAttempts` of the lockout at
least two (five in the code) and finitely many requests; `SlotsAssumption` and `ReportsAssumption`, finitely many dates and rows; `SyncAssumption`, pages and tries of at least one and a
finite dataset.

Why the invariants are strengthened:

- *Viewing.* `SlotAccounting` is not inductive: the write of a cancellation is right only if what its
  request read still holds. `Inv` adds that a booking in flight has an identity not yet in the table (`FreshBookings`),
  that on an uncontended row one request is at work at most (`Exclusive`), and therefore that what it read of the
  row is still so (`ReadsHold`). Counting uses the theorems on finite sets: a viewing inserted adds one to
  `LiveOn`, one cancelled takes one away. `DailyInv` adds that a booking on its way for an undisturbed phone number is the only one and still finds it below the limit (`Daily`).
- *Offer.* `OneAccepted` rests on the row lock and the index together. `AcceptInv` says that an offer whose
  acceptance is under way is locked by one request and still as that request left it (`Locking`), beside the chain
  of parents (`CounteredOnce`) and `CounterOfferClosed`. `Analyses`: an offer is analysed by the request that created it while it has no analysis, so a
  share still finds its review. `Exclusive` and `ReadsHold` are Viewing's: where two requests never met, an acceptance or a rejection overwrites what it read, `pending`.
- *Transaction.* `SaleInv` states what a request that passed a gate has established for good by the time it
  writes (`Promises`: retention refreshed, OTP reviewed, deadline still to set). With it every step is one of `Sale`'s or a stutter. `CascadeInv` follows, on an
  uncontended sale, each step of the cascade and of the withdrawal: by step *n* the writes of the steps before are done.
  `GateInv` adds that what such a request read at a gate is so when it writes (`Passed`), and that HDB has no application without an exercised OTP (`Exercised`).
- *Listing.* `Gated`: past the gate there is an agreement, and an agreement never goes back.
  `GeneratedOrPromoted`: a reviewed listing has its portals' contents, or some request is still on its way to
  make them, or one died. `CarriedOrPromoted` says the same of the text each portal carries, `ReadsHold` of the status.
- *Invoice.* `Announced`: a handler past the notification, and a status past `uploaded`, have an announcement behind them; `OneSends`: without a
  race one handler sends, and the status is still the one it read.
- *Team.* `GivesToActive`: whoever gives an agent work has found him active, or another handler has met them; `EndsIdle`: whoever ends an agent's work
  finds it as he left it. Both are needed at once, since either write can be the later one.
- *Retention.* `ChosenAreOver`: the sales a job has on its list are over, but for those opened since (`fresh`); `FlagsOnce`: what a step has still to flag has no flag, and no other
  step of the scan will flag it; `AnonymisedIsRedacted` needs the job that stands between the two writes.
- *PersonalData.* `Executions`: past its delete, an execution's row is gone by its own hand, and only the executions hold a request; `ExecutedIsGone`: what a request deleted
  stays gone. `Made`: a request not yet made has deleted nothing, so a row that is gone when it is made was another's. `ReadHolds`: uncontended, one handler is about to write a consent and what it read is still so.

- *SellerDocuments.* `ReadsAlone`: who has read a document has deleted its file, nobody else has read it and nobody received it, so it is received once although two requests may hold
  the same row (`claimed` by one, taken up by the other). `ErasesAll`: the deletion of the account has on its list every live row but those uploaded since. `CountHolds` counts live rows and uploads under way together:
  an upload past the check adds to the second what its insert adds to the first.
- *SaleDocuments.* `FreshIsNew`: a file just written is known to its request alone, and nobody has read it; `Placed` and `KindFits`: a path is of a file written for its column, so
  two columns never name one file; `HoldsNoPath`: a purge that has committed holds the file of no path. Only then is a path without a file always that of the download between its
  two writes (`PathHasFile`), and only a write of what was not read leaves a file without a path (`lost`).
- *Engagement.* What a handler has read gives its goal (`GoalFollows`, `StepHasData`, `ReadsUnlocked`), and nothing a handler rests on is undone: saved data stay saved, an
  agreement vouched for stays so. The status a handler overwrites is covered by `overtaken`.
- *Notification.* `AttemptsFit` and `OneGotThrough`: while no answer was lost, one attempt of one channel got through, and the step the call is at says which; `RowsInOrder`: no message before its row;
  `SilenceHolds`: a call begun against a refusal is still before the check that stops it.
- *Reminders.* `LoadFits` counts the message the run under way may still add: the first is of a firing since the window opened, the second of a later firing, and a third would have the
  clock past it. `CaughtByFiring`: a firing on time within the window has the item sent, or on its list.
- *Account.* Failures pass the limit because the count is read before it is written. `LoginHolds` measures it: once the limit is reached each request in flight is either one that read the count
  below it (`Early`), which adds one, or one that waits to lock (`Locking`), so failures and the early ones together stay below limit and requests.
- *Slots.* `Fits`: what a request is about to insert fits the limits and overlaps nothing made since, else it counts as raced; `CascadeHolds`: the one cascade has every live slot on its list but those inserted or revived since. Beside it `CancelledStaysOff` needs that a request
  that would insert or materialise a slot finds its row there.
- *Reports.* `RowAlone`: on a report no two requests decided on, the one at work finds it as it was; `VersionsHold`: unless two calculations met, who calculates knows the highest version.
- *Content.* The same for the testimonial and the week: an open page shows what it stands for, a generation found nothing.
- *HdbSync.* `PromiseHolds`: a record a run must fetch is held, or its month was cut by a page, or the records of later months are as many as the run's offset, and so it comes on a
  page still to come. Records published meanwhile only push it further down. Without the exception for `cut` the property fails in the instance: a page ends between two records of a month, and the next answer has them the other way round.
- *Photo.* `PhotoInv` says of each listing that what requests hold of it is its own (`Of` of two listings is disjoint), and of one handled by one request alone what that request holds of its
  list and files (`Follows`, `FilesFollow`); a list to be written has few enough photos, whoever else writes (`PhotoCallFits`). The lemma `PhotoMoves` deals with the listings a step does not touch once for all.

Each proof has Init, one lemma or step per action, and the temporal conclusion by `PTL`. Some parts are stated per row
(`Handled(t)`, per request, per listing) so that an action that works on another row is dealt with once. Facts on lists and numbers the
library does not have are lemmas of their own (`ListAppended`, `ListShortened`, `ListCounted`, `LeastNumber`). What a definition recursive over a list computes is proved where it is
needed, by the least length at which it would fail: `WithoutIs` says that the list without a photo has all its other photos and no more.

Only model-checked: the liveness properties `SellerIsForgotten`, `DueIsHandled`, `FailureIsFollowedUp` and `ReferralCompletes`, since fairness and `ENABLED` are out of the prover's reach.

## 7. Plan

1. Abstract specifications beside `Sale`, shown to be implemented for every value of the constants: *SlotBooking* (seats taken and freed, never more than there are) by Viewing; *Negotiation* (at most one
   winner, losers closed) by Offer.
2. Deal: one flat's offer, sale, listing and viewings together, with the consent withdrawal as one handler over all four. Today Transaction has
   its slots and its listing, and the rest is joined by hand.
3. Pure algorithms (timeline of the sale, proceeds, the windows of the schedule) against reference definitions.

## 8. Not modelled, and why

`PROJECT.json` lists each component with its reason. In short:

- Agent pages, dashboards, settings, profile: reads, and single writes of single fields. Shared services (AI, audit, encryption, templates) give results that
  are inputs here. HTTP, storage and start-up are I/O around the components; routers are mapped where a check of theirs decides a modelled step.
- Viewing: the viewer's counters, feedback texts and their prompts (which fail on every row), the morning reminder, whose window is the whole day.
- Auth: the password changed from within the profile and the expiry of sessions, on which no modelled row depends.
- Compliance: the export of data (reads only), the daily anonymisation of offers and the check for inactive sellers (one update each).
- Transaction and Listing: estimated dates, prices, slugs, the fields of a property, posting a portal listing by hand: no modelled decision reads them.
- Content: the tutorials, a list one admin orders, and the texts made of the statistics. Reports: the arithmetic of proceeds over decimals.
- Scripts and the browser's code: `devseed.ts` and `app.js` change no row a handler does not.
